--------------------------- MODULE DerivePublish ---------------------------
(***************************************************************************)
(* falsiq derive --submit, guard and brief on one case: the artifacts of a *)
(* derivation (IMPLEMENTATION_BRIEF.md, brief.json and tests/) are files,  *)
(* its fact is in the ledger, and the two are changed one after the other. *)
(* A submission publishes under the derive lock, appends, and rolls the    *)
(* files back when the append did not happen.                              *)
(*                                                                         *)
(* The brief is rendered from the ledger head and the response, so two     *)
(* briefs are equal when both are; the stubs are the response's own.  That *)
(* a case with open attacks is not derived is in module CaseLedger; here   *)
(* every response is one that validate_deriver_response accepts.           *)
(***************************************************************************)
EXTENDS Naturals, Sequences, FiniteSets, SequencesExt, TLC

CONSTANTS
    Proc,       \* processes
    NoProc,     \* the derive lock is free
    Responses,  \* the deriver responses: records of a text and of stubs
    Absent,     \* no file at a path
    Edited,     \* content that no derivation has
    MaxLedger,  \* bound on the length of the ledger
    Faults,     \* the kinds of fault a behaviour may contain
    MaxFaults   \* how many

ASSUME PublishAssumption ==
    /\ NoProc \notin Proc
    /\ MaxLedger \in Nat \ {0}
    /\ Faults \subseteq {"publish", "interrupt", "append", "status", "undo", "kill", "edit"}
    /\ MaxFaults \in Nat
    /\ \A r \in Responses : r.stubs # Absent
    /\ \A n \in 1 .. MaxLedger, r \in Responses : <<n, r.text>> # Absent

VARIABLES
    ledger,  \* facts of the case, and facts that only move the head
    files,   \* the artifacts on disk
    lock,    \* holder of .derive.lock
    pc,      \* what each process does next
    seen,    \* how much of the ledger it has read
    reply,   \* the response it submits
    placed,  \* the outputs it has published, as its flags record them
    moved,   \* its backups, by output
    faults   \* how many faults so far: errors that are handled, and worse ones

locals == <<pc, seen, reply, placed, moved>>
vars == <<ledger, files, lock, locals, faults>>

Labels == {"idle", "lock", "backup", "install", "append", "status", "undo", "drop", "keep",
           "brief", "tests", "print"}

-----------------------------------------------------------------------------
\* Facts and artifacts

Outputs == {"brief", "json", "tests"}

\* The order in which the outputs are published, removed and restored
First(S) == CHOOSE f \in S : \A g \in S : f = "brief" \/ f = g \/ g = "tests"

\* What a path may hold
Contents == {<<n, r.text>> : n \in 1 .. MaxLedger, r \in Responses} \cup
            {r.stubs : r \in Responses} \cup {Absent, Edited}

Backups == UNION {[S -> Contents] : S \in SUBSET Outputs}

NoArtifacts == [f \in Outputs |-> Absent]

\* An intent, a review or a ruling of the case; the migration marker; and a fact
\* of another case or an outcome
Plain == {[kind |-> k] : k \in {"spec", "migration", "other"}}

Facts == Plain \cup [kind : {"derivation"}, by : Proc, artifacts : [Outputs -> Contents]]

IsDerivation(fact) == fact.kind = "derivation"

Migrated(s) == \E i \in 1 .. Len(s) : s[i].kind = "migration"

\* submit_derivation: what a response becomes on the facts s; only a migrated
\* ledger has a machine brief
Artifacts(s, r) ==
    [f \in Outputs |->
        IF f = "tests" THEN r.stubs
        ELSE IF f = "brief" \/ Migrated(s) THEN <<Len(s), r.text>> ELSE Absent]

Read(p) == SubSeq(ledger, 1, seen[p])
Mine(p) == Artifacts(Read(p), reply[p])
Wanted(p) == {f \in Outputs : Mine(p)[f] # Absent}
Fact(p) == [kind |-> "derivation", by |-> p, artifacts |-> Mine(p)]

\* fact_committed, when the ledger can be read
IsCommitted(p) == seen[p] < Len(ledger) /\ ledger[seen[p] + 1] = Fact(p)

\* The artifacts that the latest derivation committed
Committed(s) ==
    LET d == SelectLastInSeq(s, IsDerivation) IN IF d = 0 THEN NoArtifacts ELSE s[d].artifacts

-----------------------------------------------------------------------------
\* derive --submit

Leave(p) ==
    /\ pc' = [pc EXCEPT ![p] = "idle"]
    /\ seen' = [seen EXCEPT ![p] = 0]
    /\ placed' = [placed EXCEPT ![p] = {}]
    /\ reply' = [reply EXCEPT ![p] = Absent]
    /\ moved' = [moved EXCEPT ![p] = <<>>]

Goto(p, label) == pc' = [pc EXCEPT ![p] = label]

Fault(kind) ==
    /\ kind \in Faults /\ faults.handled + faults.worse < MaxFaults
    /\ faults' = IF kind \in {"publish", "append"} THEN [faults EXCEPT !.handled = @ + 1]
                 ELSE [faults EXCEPT !.worse = @ + 1]

\* Read the facts, validate a response against them, render
Submit(p) ==
    /\ pc[p] = "idle" /\ Len(ledger) < MaxLedger
    /\ Goto(p, "lock")
    /\ seen' = [seen EXCEPT ![p] = Len(ledger)]
    /\ \E r \in Responses : reply' = [reply EXCEPT ![p] = r]
    /\ UNCHANGED <<ledger, files, lock, placed, moved, faults>>

\* Variant: publication is not serialized
LockShared(p) ==
    /\ pc[p] = "lock"
    /\ lock' = p
    /\ Goto(p, "backup")
    /\ UNCHANGED <<ledger, files, seen, reply, placed, moved, faults>>

Lock(p) ==
    /\ pc[p] = "lock" /\ lock = NoProc
    /\ lock' = p
    /\ Goto(p, "backup")
    /\ UNCHANGED <<ledger, files, seen, reply, placed, moved, faults>>

Unlock(p) == lock' = IF lock = p THEN NoProc ELSE lock

Next1(p) == First(Wanted(p) \ placed[p])

\* Rename the old output away, if there is one
Backup(p) ==
    /\ pc[p] = "backup"
    /\ LET f == Next1(p)
       IN  /\ files' = [files EXCEPT ![f] = Absent]
           /\ moved' = IF files[f] = Absent THEN moved
                       ELSE [moved EXCEPT ![p] =
                                [g \in DOMAIN @ \cup {f} |-> IF g = f THEN files[f] ELSE @[g]]]
    /\ Goto(p, "install")
    /\ UNCHANGED <<ledger, lock, seen, reply, placed, faults>>

\* Rename the staged output into its place
Install(p) ==
    /\ pc[p] = "install"
    /\ LET f == Next1(p)
       IN  /\ files' = [files EXCEPT ![f] = Mine(p)[f]]
           /\ placed' = [placed EXCEPT ![p] = @ \cup {f}]
           /\ Goto(p, IF placed[p] \cup {f} = Wanted(p) THEN "append" ELSE "backup")
    /\ UNCHANGED <<ledger, lock, seen, reply, moved, faults>>

\* Staging or a rename raises, or an interrupt arrives between two of them
PublishFails(p) ==
    /\ pc[p] \in {"backup", "install", "append"}
    /\ Fault("publish")
    /\ Goto(p, "undo")
    /\ UNCHANGED <<ledger, files, lock, seen, reply, placed, moved>>

\* An interrupt after a rename and before the flag that records it
Interrupted(p) ==
    /\ pc[p] \in {"backup", "install"}
    /\ Fault("interrupt")
    /\ files' = [files EXCEPT ![Next1(p)] = IF pc[p] = "backup" THEN Absent ELSE Mine(p)[Next1(p)]]
    /\ Goto(p, "undo")
    /\ UNCHANGED <<ledger, lock, seen, reply, placed, moved>>

\* Variant: the append does not pass the head
AppendBlind(p) ==
    /\ pc[p] = "append"
    /\ ledger' = Append(ledger, Fact(p))
    /\ Goto(p, "drop")
    /\ UNCHANGED <<files, lock, seen, reply, placed, moved, faults>>

\* append_batch with the head that was read
AppendFact(p) ==
    /\ pc[p] = "append"
    /\ IF seen[p] = Len(ledger) THEN ledger' = Append(ledger, Fact(p)) /\ Goto(p, "drop")
       ELSE UNCHANGED ledger /\ Goto(p, "status")
    /\ UNCHANGED <<files, lock, seen, reply, placed, moved, faults>>

\* append_batch raises, before or after the fact is in the ledger
AppendRaises(p) ==
    /\ pc[p] = "append"
    /\ Fault("append")
    /\ \/ UNCHANGED ledger
       \/ seen[p] = Len(ledger) /\ ledger' = Append(ledger, Fact(p))
    /\ Goto(p, "status")
    /\ UNCHANGED <<files, lock, seen, reply, placed, moved>>

\* Variant: a refused append is tried again with the same head
StatusRetries(p) ==
    /\ pc[p] = "status"
    /\ Goto(p, IF IsCommitted(p) THEN "keep" ELSE "append")
    /\ UNCHANGED <<ledger, files, lock, seen, reply, placed, moved, faults>>

\* commit_status: roll back only when the fact is certainly absent
Status(p) ==
    /\ pc[p] = "status"
    /\ Goto(p, IF IsCommitted(p) THEN "keep" ELSE "undo")
    /\ UNCHANGED <<ledger, files, lock, seen, reply, placed, moved, faults>>

\* Variant: no answer counts as no commit
StatusPessimistic(p) ==
    /\ pc[p] = "status"
    /\ Fault("status")
    /\ Goto(p, "undo")
    /\ UNCHANGED <<ledger, files, lock, seen, reply, placed, moved>>

\* The ledger cannot be read
StatusUnknown(p) ==
    /\ pc[p] = "status"
    /\ Fault("status")
    /\ Goto(p, "keep")
    /\ UNCHANGED <<ledger, files, lock, seen, reply, placed, moved>>

\* Roll back: remove what was published, then put the backups back
Withdraw(p) ==
    /\ pc[p] = "undo" /\ placed[p] # {}
    /\ LET f == First(placed[p])
       IN  /\ files' = [files EXCEPT ![f] = Absent]
           /\ placed' = [placed EXCEPT ![p] = @ \ {f}]
    /\ UNCHANGED <<ledger, lock, pc, seen, reply, moved, faults>>

\* Variant: the machine brief is not put back
RestoreTwo(p) ==
    /\ pc[p] = "undo" /\ placed[p] = {} /\ DOMAIN moved[p] # {}
    /\ LET f == First(DOMAIN moved[p])
       IN  /\ files' = IF f = "json" THEN files ELSE [files EXCEPT ![f] = moved[p][f]]
           /\ moved' = [moved EXCEPT ![p] = [g \in DOMAIN @ \ {f} |-> @[g]]]
    /\ UNCHANGED <<ledger, lock, pc, seen, reply, placed, faults>>

Restore(p) ==
    /\ pc[p] = "undo" /\ placed[p] = {} /\ DOMAIN moved[p] # {}
    /\ LET f == First(DOMAIN moved[p])
       IN  /\ files' = [files EXCEPT ![f] = moved[p][f]]
           /\ moved' = [moved EXCEPT ![p] = [g \in DOMAIN @ \ {f} |-> @[g]]]
    /\ UNCHANGED <<ledger, lock, pc, seen, reply, placed, faults>>

\* The rollback is complete, or an error or an interrupt ends it early
EndUndo(p) ==
    /\ pc[p] = "undo"
    /\ \/ placed[p] = {} /\ DOMAIN moved[p] = {} /\ UNCHANGED faults
       \/ Fault("undo")
    /\ Leave(p) /\ Unlock(p)
    /\ UNCHANGED <<ledger, files>>

\* The backups are removed; nothing else depends on them
Drop(p) ==
    /\ pc[p] \in {"drop", "keep"}
    /\ Leave(p) /\ Unlock(p)
    /\ UNCHANGED <<ledger, files, faults>>

Kill(p) ==
    /\ pc[p] # "idle"
    /\ Fault("kill")
    /\ Leave(p) /\ Unlock(p)
    /\ UNCHANGED <<ledger, files>>

-----------------------------------------------------------------------------
\* guard, and brief, which prints what the guard accepted

\* ready_brief of facts s, as far as the ledger decides it
Current(s) ==
    LET d == SelectLastInSeq(s, IsDerivation)
    IN  d # 0 /\ \A i \in d + 1 .. Len(s) : s[i].kind # "spec"

\* What ready_brief looks at on disk
Checked == {"brief", "tests"}

\* Read the facts; refuse a case that changed since its derivation
Guard(p) ==
    /\ pc[p] = "idle"
    /\ IF Current(ledger) THEN Goto(p, "brief") /\ seen' = [seen EXCEPT ![p] = Len(ledger)]
       ELSE UNCHANGED <<pc, seen>>
    /\ UNCHANGED <<ledger, files, lock, reply, placed, moved, faults>>

\* _committed_file and then _committed_stubs
Check(p) ==
    /\ pc[p] \in Checked
    /\ IF files[pc[p]] = Committed(Read(p))[pc[p]]
       THEN Goto(p, IF pc[p] = "brief" THEN "tests" ELSE "print") /\ UNCHANGED <<seen, reply, placed, moved>>
       ELSE Leave(p)
    /\ UNCHANGED <<ledger, files, lock, faults>>

PrintBrief(p) ==
    /\ pc[p] = "print"
    /\ Leave(p)
    /\ UNCHANGED <<ledger, files, lock, faults>>

-----------------------------------------------------------------------------
\* The rest of the world: other commands append, and files are edited or lost

AppendOther ==
    /\ Len(ledger) < MaxLedger
    /\ \E fact \in Plain : ledger' = Append(ledger, fact)
    /\ UNCHANGED <<files, lock, locals, faults>>

\* An edit while a submission runs is left out: it may hit what was just published
Edit ==
    /\ Fault("edit") /\ lock = NoProc
    /\ \E f \in Outputs, c \in {Absent, Edited} : files' = [files EXCEPT ![f] = c]
    /\ UNCHANGED <<ledger, lock, locals>>

Init ==
    /\ ledger = <<[kind |-> "spec"]>>
    /\ files = NoArtifacts
    /\ lock = NoProc
    /\ pc = [p \in Proc |-> "idle"]
    /\ seen = [p \in Proc |-> 0]
    /\ reply = [p \in Proc |-> Absent]
    /\ placed = [p \in Proc |-> {}]
    /\ moved = [p \in Proc |-> <<>>]
    /\ faults = [handled |-> 0, worse |-> 0]

Publish(p) == Backup(p) \/ Install(p) \/ PublishFails(p) \/ Interrupted(p)
Admit(p) == AppendFact(p) \/ AppendRaises(p) \/ Status(p) \/ StatusUnknown(p)
RollBack(p) == Withdraw(p) \/ Restore(p) \/ EndUndo(p)

Next ==
    \/ \E p \in Proc :
          \/ Submit(p) \/ Lock(p) \/ Publish(p) \/ Admit(p) \/ RollBack(p) \/ Drop(p) \/ Kill(p)
          \/ Guard(p) \/ Check(p) \/ PrintBrief(p)
    \/ AppendOther
    \/ Edit

Spec == Init /\ [][Next]_vars

\* A process that holds the derive lock makes its next call; nothing is assumed
\* about getting it
LiveSpec ==
    Spec /\ \A p \in Proc : WF_vars(Publish(p) \/ Admit(p) \/ RollBack(p) \/ Drop(p))

-----------------------------------------------------------------------------
\* Properties

\* The type of every variable.
TypeOK ==
    /\ ledger \in Seq(Facts)
    /\ Len(ledger) \in 1 .. MaxLedger
    /\ files \in [Outputs -> Contents]
    /\ lock \in Proc \cup {NoProc}
    /\ pc \in [Proc -> Labels]
    /\ seen \in [Proc -> 0 .. Len(ledger)]
    /\ reply \in [Proc -> Responses \cup {Absent}]
    /\ placed \in [Proc -> SUBSET Outputs]
    /\ moved \in [Proc -> Backups]
    /\ faults \in [handled : 0 .. MaxFaults, worse : 0 .. MaxFaults]

\* "This prevents a losing concurrent submission from deleting a different
\* submission's committed artifacts", and "confirmed failed admission restores
\* any prior outputs": as long as nothing worse happened than publications that
\* failed and appends that raised, the files are those of the latest derivation in
\* the ledger whenever no submission runs.
FilesAtRest == lock = NoProc /\ faults.worse = 0 => files = Committed(ledger)

\* A derivation that is in the ledger keeps its artifacts: no submission rolls
\* its files back once its fact is committed, whatever append_batch raised.
NoCommittedRollback == \A p \in Proc : pc[p] = "undo" => ~IsCommitted(p)

\* "Treat a digest mismatch as artifact tampering or corruption; re-derive": a
\* submission that ended well left the artifacts of the latest derivation,
\* whatever earlier submissions, kills and edits had left behind.
DerivingRepairs ==
    \A p \in Proc : pc[p] = "drop" =>
        \A f \in Wanted(p) : files[f] = Mine(p)[f] /\ Committed(ledger)[f] = Mine(p)[f]

\* "The skill guard refuses an implementation handoff if a committed artifact is
\* missing, edited, symlinked": when no submission runs, a case that the guard accepts
\* has on disk everything that the latest derivation committed.
GuardAccepts == Current(ledger) /\ \A f \in Checked : files[f] = Committed(ledger)[f]
GuardCoversArtifacts ==
    lock = NoProc /\ GuardAccepts =>
        \A f \in Outputs : Committed(ledger)[f] # Absent => files[f] = Committed(ledger)[f]

\* "print the current derived brief": what brief prints is the brief of a
\* derivation in the ledger.
PrintsCommitted ==
    [][\A p \in Proc : PrintBrief(p) /\ files["brief"] # Absent =>
          \E i \in 1 .. Len(ledger) :
              IsDerivation(ledger[i]) /\ files["brief"] = ledger[i].artifacts["brief"]]_vars

\* Whatever fails while the derive lock is held, it is free again and again.
DeriveLockReleased == []<>(lock = NoProc)

=============================================================================
