---------------------------- MODULE LedgerStore ----------------------------
(***************************************************************************)
(* The storage protocol of falsiq/ledger.py: processes append batches of   *)
(* facts to one file, ledger.jsonl, under an advisory lock, and make each  *)
(* batch atomic with a transaction journal (.ledger.txn) that is written   *)
(* before the ledger and removed after it.                                 *)
(*                                                                         *)
(* A file is modelled twice: what a running process sees (the page cache)  *)
(* and the set of contents the disk may hold, which grows with every       *)
(* unsynced change and collapses to one content on fsync.  A kill loses a  *)
(* process and keeps the page cache; a power loss loses every process and  *)
(* leaves one of the contents the disk may hold.                           *)
(*                                                                         *)
(* Data: a batch is a batch id whose bytes are the chunks 1 .. BatchLen;   *)
(* LineEnds names the chunks after which a line is complete.  The journal  *)
(* commits to the ledger before the append by its size and SHA-256; the    *)
(* digest is taken to be injective, so the model keeps the prefix itself.  *)
(***************************************************************************)
EXTENDS Naturals, Sequences, SequencesExt

CONSTANTS
    Proc,       \* operating-system processes that run falsiq commands
    Batch,      \* identities of the batches that may ever be submitted
    BatchLen,   \* chunks one batch is written in
    LineEnds,   \* the chunks of a batch that end with a newline
    NoBatch,    \* no batch; also the head of an empty ledger (None)
    Omitted,    \* expected_head was not passed
    NoProc,     \* the lock is free
    Faults,     \* the kinds of fault a behaviour may contain
    MaxFaults   \* how many faults a behaviour may contain

ASSUME BatchAssumption == /\ BatchLen \in Nat \ {0}
                          /\ LineEnds \subseteq 1 .. BatchLen
                          /\ BatchLen \in LineEnds
ASSUME NameAssumption ==  /\ NoBatch \notin Batch
                          /\ Omitted \notin Batch \cup {NoBatch}
                          /\ NoProc \notin Proc
ASSUME FaultAssumption == /\ Faults \subseteq {"kill", "io", "power", "torn"}
                          /\ MaxFaults \in Nat

VARIABLES
    ledger,       \* contents of ledger.jsonl as processes see it
    ledgerDisk,   \* the contents the disk may hold for ledger.jsonl
    journal,      \* .ledger.txn as processes see it, or NoJournal
    journalDisk,  \* the contents the disk may hold for .ledger.txn
    lock,         \* holder of .ledger.lock
    pc,           \* the next system call of each process
    ctx,          \* why the process runs recovery or removes the journal
    batch,        \* the batch it appends, NoBatch when it reads
    raw,          \* existing_raw of append_batch
    head,         \* the head its last read returned
    expected,     \* the expected_head each batch was submitted with
    answer,       \* what the caller of append_batch was told
    promised,     \* ledgers that a read or an append has reported
    faults        \* number of faults so far

disk == <<ledger, ledgerDisk, journal, journalDisk>>
locals == <<pc, ctx, batch, raw, head>>
history == <<expected, answer, promised>>
vars == <<disk, lock, locals, history, faults>>

-----------------------------------------------------------------------------
\* Contents

Chunk == [id : Batch, at : 1 .. BatchLen]
Contents == Seq(Chunk)

\* canonical_fact_json of every fact of a batch, joined
Bytes(b) == [i \in 1 .. BatchLen |-> [id |-> b, at |-> i]]

NoJournal == [prefix |-> <<>>, pending |-> <<>>]
Journals == [prefix : Contents, pending : {Bytes(b) : b \in Batch}]

\* _parse_ledger_bytes: every line is complete.  (A chunk inside a line is
\* followed by the next chunk of the same line, and the last one ends a line.)
Parses(c) ==
    \A i \in 1 .. Len(c) :
        c[i].at \notin LineEnds =>
            /\ i < Len(c)
            /\ c[i + 1] = [c[i] EXCEPT !.at = @ + 1]

\* facts[-1].id, None for an empty ledger
HeadOf(c) == IF c = <<>> THEN NoBatch ELSE c[Len(c)].id

\* The three verdicts of _recover_transaction_unlocked on a ledger c and a
\* journal j whose prefix digest matches c; any other c is an integrity error.
Untouched(c, j) == c = j.prefix
Partial(c, j)   == /\ IsPrefix(j.prefix, c)
                   /\ c # j.prefix
                   /\ IsPrefix(c, j.prefix \o j.pending)
                   /\ c # j.prefix \o j.pending
Complete(c, j)  == IsPrefix(j.prefix \o j.pending, c)

-----------------------------------------------------------------------------
\* How an operation ends: `with _file_lock` releases on every exit

Finish(p) ==
    /\ lock' = NoProc
    /\ pc' = [pc EXCEPT ![p] = "idle"]
    /\ ctx' = [ctx EXCEPT ![p] = "open"]
    /\ batch' = [batch EXCEPT ![p] = NoBatch]
    /\ raw' = [raw EXCEPT ![p] = <<>>]

Tell(p, a) ==
    answer' = IF batch[p] = NoBatch THEN answer ELSE [answer EXCEPT ![batch[p]] = a]

\* An exception before the journal of p's own batch exists; the batch has not
\* touched the disk, whatever the exception is.
Refuse(p) ==
    /\ Finish(p)
    /\ Tell(p, "refused")
    /\ UNCHANGED <<head, expected, promised>>

\* "ledger append failed and automatic transaction recovery failed", or the
\* re-raised append error: the batch may or may not be in the ledger.
Doubt(p) ==
    /\ Finish(p)
    /\ Tell(p, "unclear")
    /\ UNCHANGED <<head, expected, promised>>

\* append_batch returns, or says that the batch was committed
Acknowledge(p) ==
    /\ Finish(p)
    /\ Tell(p, "acked")
    /\ promised' = promised \cup {raw[p] \o Bytes(batch[p])}
    /\ UNCHANGED <<head, expected>>

\* An exception in recovery: at the start of an operation it ends the operation
\* before its batch is prepared; inside append_batch it leaves a doubt.
RecoveryRaises(p) == IF ctx[p] = "open" THEN Refuse(p) ELSE Doubt(p)

Fault(kind) ==
    /\ kind \in Faults
    /\ faults < MaxFaults
    /\ faults' = faults + 1

Goto(p, label) == pc' = [pc EXCEPT ![p] = label]

-----------------------------------------------------------------------------
\* Starting an operation

StartRead(p) ==
    /\ pc[p] = "idle"
    /\ Goto(p, "wait")
    /\ UNCHANGED <<disk, lock, ctx, batch, raw, head, history, faults>>

\* A command allocates fresh fact ids, so no batch is submitted twice.  It
\* passes the head of its own earlier read, or omits expected_head.
StartAppend(p, b, e) ==
    /\ pc[p] = "idle"
    /\ answer[b] = "new"
    /\ e \in {head[p], Omitted}
    /\ Goto(p, "wait")
    /\ batch' = [batch EXCEPT ![p] = b]
    /\ expected' = [expected EXCEPT ![b] = e]
    /\ answer' = [answer EXCEPT ![b] = "pending"]
    /\ UNCHANGED <<disk, lock, ctx, raw, head, promised, faults>>

LockIsFree == lock = NoProc

Acquire(p) ==
    /\ pc[p] = "wait"
    /\ LockIsFree
    /\ lock' = p
    /\ Goto(p, "recover")
    /\ UNCHANGED <<disk, ctx, batch, raw, head, history, faults>>

-----------------------------------------------------------------------------
\* Recovery

\* Variant: undoing its own append, a process looks for a journal again and again
RecoveredRetry(p) ==
    /\ Goto(p, IF ctx[p] = "open" THEN "load" ELSE "recover")
    /\ UNCHANGED <<lock, ctx, batch, raw, head, history>>

\* Where a process goes when recovery has nothing (more) to do: on to its own
\* work, or, when it is undoing its own append, out with the append error.
Recovered(p) ==
    IF ctx[p] = "open"
    THEN /\ Goto(p, "load")
         /\ UNCHANGED <<lock, ctx, batch, raw, head, history>>
    ELSE Doubt(p)

RecoverNothing(p) ==
    /\ pc[p] = "recover"
    /\ journal = NoJournal
    /\ Recovered(p)
    /\ UNCHANGED <<disk, faults>>

\* Variant: a complete append is not made durable before its journal goes
VerdictUnsynced(c, j) ==
    IF Partial(c, j) THEN "truncate" ELSE "unlink"

\* Variant: a partial append is left in place
VerdictUncut(c, j) ==
    IF Complete(c, j) THEN "sync" ELSE "unlink"

\* Load the journal, read the ledger and choose how to resolve the transaction
Verdict(c, j) ==
    IF Untouched(c, j) THEN "unlink"
    ELSE IF Partial(c, j) THEN "truncate"
    ELSE IF Complete(c, j) THEN "sync"
    ELSE "corrupt"

Recover(p) ==
    /\ pc[p] = "recover"
    /\ journal # NoJournal
    /\ LET v == Verdict(ledger, journal)
       IN  IF v = "corrupt"
           THEN RecoveryRaises(p)
           ELSE /\ Goto(p, v)
                /\ UNCHANGED <<lock, ctx, batch, raw, head, history>>
    /\ UNCHANGED <<disk, faults>>

Truncate(p) ==
    /\ pc[p] = "truncate"
    /\ ledger' = journal.prefix
    /\ ledgerDisk' = ledgerDisk \cup {ledger'}
    /\ Goto(p, "truncsync")
    /\ UNCHANGED <<journal, journalDisk, lock, ctx, batch, raw, head, history, faults>>

\* fsync of the ledger, after which the disk holds what processes see
Synced == {ledger}

SyncTruncated(p) ==
    /\ pc[p] = "truncsync"
    /\ ledgerDisk' = Synced
    /\ Goto(p, "unlink")
    /\ UNCHANGED <<ledger, journal, journalDisk, lock, ctx, batch, raw, head, history, faults>>

\* _sync_ledger_unlocked: a complete append is made durable before its journal
\* is removed
SyncComplete(p) ==
    /\ pc[p] = "sync"
    /\ ledgerDisk' = Synced
    /\ Goto(p, "unlink")
    /\ UNCHANGED <<ledger, journal, journalDisk, lock, ctx, batch, raw, head, history, faults>>

\* An OSError of ftruncate or fsync becomes an integrity error
RecoveryFails(p) ==
    /\ \/ pc[p] \in {"truncate", "sync"} /\ Fault("io")
       \/ pc[p] = "truncsync" /\ "io" \in Faults /\ Fault("torn")
    /\ RecoveryRaises(p)
    /\ UNCHANGED disk

-----------------------------------------------------------------------------
\* Removing the journal: the end of recovery (ctx "open" or "undo") and of an
\* append (ctx "commit")

Unlink(p) ==
    /\ pc[p] = "unlink"
    /\ journal' = NoJournal
    /\ journalDisk' = journalDisk \cup {NoJournal}
    /\ Goto(p, "dirsync")
    /\ UNCHANGED <<ledger, ledgerDisk, lock, ctx, batch, raw, head, history, faults>>

SyncDirectory(p) ==
    /\ pc[p] = "dirsync"
    /\ journalDisk' = {journal}
    /\ IF ctx[p] = "commit" THEN Acknowledge(p) ELSE Recovered(p)
    /\ UNCHANGED <<ledger, ledgerDisk, journal, faults>>

\* unlink or the directory fsync raises.  After an append the error says that
\* the batch was committed.
RemovalFails(p) ==
    /\ pc[p] \in {"unlink", "dirsync"}
    /\ Fault("io")
    /\ IF ctx[p] = "commit" THEN Acknowledge(p) ELSE RecoveryRaises(p)
    /\ UNCHANGED disk

-----------------------------------------------------------------------------
\* read and append_batch, after recovery

LoadCorrupt(p) ==
    /\ pc[p] = "load"
    /\ ~Parses(ledger)
    /\ Refuse(p)
    /\ UNCHANGED <<disk, faults>>

Read(p) ==
    /\ pc[p] = "load"
    /\ batch[p] = NoBatch
    /\ Parses(ledger)
    /\ Finish(p)
    /\ head' = [head EXCEPT ![p] = HeadOf(ledger)]
    /\ promised' = promised \cup {ledger}
    /\ UNCHANGED <<disk, expected, answer, faults>>

\* Variant: the head is not compared again under the lock
HeadIgnored(b) == TRUE

HeadMatches(b) == expected[b] \in {Omitted, HeadOf(ledger)}

\* Variant: the batch is refused after its journal is installed and synced
RefuseLate(p) ==
    /\ pc[p] = "write"
    /\ Refuse(p)
    /\ UNCHANGED <<disk, faults>>

\* "ledger head changed", or validate_fact_sequence refuses the facts
RefuseBatch(p) ==
    /\ pc[p] = "load"
    /\ batch[p] # NoBatch
    /\ Parses(ledger)
    /\ Refuse(p)
    /\ UNCHANGED <<disk, faults>>

AcceptBatch(p) ==
    /\ pc[p] = "load"
    /\ batch[p] # NoBatch
    /\ Parses(ledger)
    /\ HeadMatches(batch[p])
    /\ raw' = [raw EXCEPT ![p] = ledger]
    /\ Goto(p, "journal")
    /\ UNCHANGED <<disk, lock, ctx, batch, head, history, faults>>

\* The temporary file is complete and synced when it replaces .ledger.txn
InstallJournal(p) ==
    /\ pc[p] = "journal"
    /\ journal = NoJournal
    /\ journal' = [prefix |-> raw[p], pending |-> Bytes(batch[p])]
    /\ journalDisk' = journalDisk \cup {journal'}
    /\ Goto(p, "jsync")
    /\ UNCHANGED <<ledger, ledgerDisk, lock, ctx, batch, raw, head, history, faults>>

\* Variant: the directory is not synced after the journal is put in place
JournalUnsynced(p) ==
    /\ pc[p] = "jsync"
    /\ Goto(p, "write")
    /\ UNCHANGED <<disk, lock, ctx, batch, raw, head, history, faults>>

SyncJournal(p) ==
    /\ pc[p] = "jsync"
    /\ journalDisk' = {journal}
    /\ Goto(p, "write")
    /\ UNCHANGED <<ledger, ledgerDisk, journal, lock, ctx, batch, raw, head, history, faults>>

\* "could not prepare ledger transaction": the temporary file is removed, or
\* the directory fsync failed and the journal stays installed
PrepareFails(p) ==
    /\ pc[p] \in {"journal", "jsync"}
    /\ Fault("io")
    /\ Refuse(p)
    /\ UNCHANGED disk

\* Variant: _write_all goes round once too often
WriteBeyond(p) ==
    /\ pc[p] = "write"
    /\ LET done == Len(ledger) - Len(raw[p])
       IN  /\ ledger' = Append(ledger, [id |-> batch[p], at |-> done + 1])
           /\ Goto(p, IF done = BatchLen THEN "writesync" ELSE "write")
    /\ ledgerDisk' = ledgerDisk \cup {ledger'}
    /\ UNCHANGED <<journal, journalDisk, lock, ctx, batch, raw, head, history, faults>>

\* One os.write of _write_all; the file is only ever extended at its end.  (The
\* journal and the prefix are compared with existing_raw once more before the
\* first write; every writer holds the lock, so they still agree.)
WriteChunk(p) ==
    /\ pc[p] = "write"
    /\ LET done == Len(ledger) - Len(raw[p])
       IN  /\ ledger' = Append(ledger, [id |-> batch[p], at |-> done + 1])
           /\ Goto(p, IF done + 1 = BatchLen THEN "writesync" ELSE "write")
    /\ ledgerDisk' = ledgerDisk \cup {ledger'}
    /\ UNCHANGED <<journal, journalDisk, lock, ctx, batch, raw, head, history, faults>>

SyncAppend(p) ==
    /\ pc[p] = "writesync"
    /\ ledgerDisk' = Synced
    /\ Goto(p, "unlink")
    /\ ctx' = [ctx EXCEPT ![p] = "commit"]
    /\ UNCHANGED <<ledger, journal, journalDisk, lock, batch, raw, head, history, faults>>

\* A write or the fsync raises (or the user interrupts it): append_batch runs
\* the recovery itself before it reports the error
AppendFails(p) ==
    /\ pc[p] \in {"write", "writesync"}
    /\ Fault("io")
    /\ Goto(p, "recover")
    /\ ctx' = [ctx EXCEPT ![p] = "undo"]
    /\ UNCHANGED <<disk, lock, batch, raw, head, history>>

-----------------------------------------------------------------------------
\* Faults

\* The process dies; the kernel releases its lock and keeps the page cache.
\* Dying between ftruncate and its fsync is a fault of its own kind ("torn").
Kill(p) ==
    /\ pc[p] # "idle"
    /\ pc[p] = "truncsync" => "torn" \in Faults
    /\ Fault("kill")
    /\ lock' = IF lock = p THEN NoProc ELSE lock
    /\ pc' = [pc EXCEPT ![p] = "idle"]
    /\ ctx' = [ctx EXCEPT ![p] = "open"]
    /\ batch' = [batch EXCEPT ![p] = NoBatch]
    /\ raw' = [raw EXCEPT ![p] = <<>>]
    /\ head' = [head EXCEPT ![p] = Omitted]
    /\ Tell(p, "unclear")
    /\ UNCHANGED <<disk, expected, promised>>

\* Every process dies and the two files come back from disk independently
PowerLoss ==
    /\ Fault("power")
    /\ ledger' \in ledgerDisk
    /\ ledgerDisk' = {ledger'}
    /\ journal' \in journalDisk
    /\ journalDisk' = {journal'}
    /\ lock' = NoProc
    /\ pc' = [p \in Proc |-> "idle"]
    /\ ctx' = [p \in Proc |-> "open"]
    /\ batch' = [p \in Proc |-> NoBatch]
    /\ raw' = [p \in Proc |-> <<>>]
    /\ head' = [p \in Proc |-> Omitted]
    /\ answer' = [b \in Batch |-> IF answer[b] = "pending" THEN "unclear" ELSE answer[b]]
    /\ UNCHANGED <<expected, promised>>

-----------------------------------------------------------------------------
\* Specification

Init ==
    /\ ledger = <<>>
    /\ ledgerDisk = {<<>>}
    /\ journal = NoJournal
    /\ journalDisk = {NoJournal}
    /\ lock = NoProc
    /\ pc = [p \in Proc |-> "idle"]
    /\ ctx = [p \in Proc |-> "open"]
    /\ batch = [p \in Proc |-> NoBatch]
    /\ raw = [p \in Proc |-> <<>>]
    /\ head = [p \in Proc |-> Omitted]
    /\ expected = [b \in Batch |-> Omitted]
    /\ answer = [b \in Batch |-> "new"]
    /\ promised = {}
    /\ faults = 0

Start(p) == StartRead(p) \/ \E b \in Batch, e \in Batch \cup {NoBatch, Omitted} : StartAppend(p, b, e)

\* What a process does on its own while it holds the lock
Step(p) ==
    \/ RecoverNothing(p) \/ Recover(p) \/ Truncate(p) \/ SyncTruncated(p) \/ SyncComplete(p)
    \/ Unlink(p) \/ SyncDirectory(p)
    \/ LoadCorrupt(p) \/ Read(p) \/ RefuseBatch(p) \/ AcceptBatch(p)
    \/ InstallJournal(p) \/ SyncJournal(p) \/ WriteChunk(p) \/ SyncAppend(p)

SystemFault(p) ==
    RecoveryFails(p) \/ RemovalFails(p) \/ PrepareFails(p) \/ AppendFails(p) \/ Kill(p)

Next == PowerLoss \/ \E p \in Proc : Start(p) \/ Acquire(p) \/ Step(p) \/ SystemFault(p)

Spec == Init /\ [][Next]_vars

\* A process that runs eventually makes its next system call; nothing is
\* assumed of starting commands or of who gets the lock.
FairSpec == Spec /\ \A p \in Proc : WF_vars(Step(p))

-----------------------------------------------------------------------------
\* Properties

Labels == {"idle", "wait", "recover", "truncate", "truncsync", "sync", "unlink", "dirsync",
           "load", "journal", "jsync", "write", "writesync"}

\* The type of every variable.
TypeOK ==
    /\ ledger \in Contents
    /\ ledgerDisk \subseteq Contents
    /\ journal \in Journals \cup {NoJournal}
    /\ journalDisk \subseteq Journals \cup {NoJournal}
    /\ lock \in Proc \cup {NoProc}
    /\ pc \in [Proc -> Labels]
    /\ ctx \in [Proc -> {"open", "undo", "commit"}]
    /\ batch \in [Proc -> Batch \cup {NoBatch}]
    /\ raw \in [Proc -> Contents]
    /\ head \in [Proc -> Batch \cup {NoBatch, Omitted}]
    /\ expected \in [Batch -> Batch \cup {NoBatch, Omitted}]
    /\ answer \in [Batch -> {"new", "pending", "acked", "refused", "unclear"}]
    /\ promised \subseteq Contents
    /\ faults \in 0 .. MaxFaults

\* Whatever a read has returned or an append has acknowledged stays a prefix of
\* the ledger, for running processes and on every disk a power loss may leave:
\* recovery never truncates below it, whichever journal it finds.
PromisedSurvives ==
    \A s \in promised : \A c \in ledgerDisk \cup {ledger} : IsPrefix(s, c)

\* A batch that append_batch refused before its journal was in place never
\* shows up later, not even through a journal that the refusal left installed.
RefusedNeverAppears ==
    \A b \in Batch : answer[b] = "refused" =>
        \A c \in ledgerDisk \cup {ledger} : \A i \in 1 .. Len(c) : c[i].id # b

\* A batch submitted with an expected head directly follows that head in the
\* ledger, also when recovery by another process completed it.
FollowsExpectedHead ==
    \A i \in 1 .. Len(ledger) :
        LET e == expected[ledger[i].id]
        IN  ledger[i].at = 1 /\ e # Omitted => HeadOf(SubSeq(ledger, 1, i - 1)) = e

WholeBatches(c) ==
    /\ \A i \in 1 .. Len(c) : c[i].at = 1 + ((i - 1) % BatchLen)
    /\ \A i \in 1 .. Len(c) - 1 : c[i].at # BatchLen => c[i + 1].id = c[i].id
    /\ c # <<>> => c[Len(c)].at = BatchLen

\* At every instant the files are in a state that the next operation resolves
\* to whole batches: a complete ledger, or a journal that says how to finish.
LedgerRecoverable ==
    \/ journal = NoJournal /\ WholeBatches(ledger)
    \/ journal # NoJournal /\ LET v == Verdict(ledger, journal) IN
          /\ v # "corrupt"
          /\ v \in {"unlink", "truncate"} => WholeBatches(journal.prefix)
          /\ v = "sync" => WholeBatches(ledger)

\* Every process that holds the lock gives it up: no exit path of read or
\* append_batch keeps it, and no recovery step is stuck.
LockReleased == \A p \in Proc : lock = p ~> lock # p

=============================================================================
