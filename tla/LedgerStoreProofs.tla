-------------------------- MODULE LedgerStoreProofs --------------------------
(***************************************************************************)
(* Theorems about LedgerStore, for every set of processes and batches,     *)
(* every batch length and every kind and number of faults.                 *)
(*                                                                         *)
(* The first half is about what was promised, and has the invariant IInv   *)
(* of the files.  The second is about what callers were told: a refused    *)
(* batch never appears, and a batch follows the head it was submitted      *)
(* with.  Its invariant HInv rests on IInv.                                *)
(***************************************************************************)
EXTENDS LedgerStore, SequenceTheorems, TLAPS

-----------------------------------------------------------------------------
\* Contents and their prefixes

\* The operations of the protocol build ledger contents from ledger contents.
LEMMA ContentsClosed ==
    /\ <<>> \in Contents
    /\ \A b \in Batch : Bytes(b) \in Contents
    /\ \A s, t \in Contents : s \o t \in Contents
<1>1. \A b \in Batch : Bytes(b) \in Contents
  BY BatchAssumption, SMT DEF Bytes, Contents, Chunk
<1>2. QED
  BY <1>1, SMT DEF Contents

\* IsPrefix compares two contents position by position.
LEMMA PrefixPointwise ==
    ASSUME NEW s \in Contents, NEW t \in Contents
    PROVE  IsPrefix(s, t) <=> Len(s) <= Len(t) /\ \A i \in 1 .. Len(s) : s[i] = t[i]
BY SMT DEF IsPrefix, Contents

\* IsPrefix is a partial order on contents, and concatenation extends.
LEMMA PrefixOrder ==
    /\ \A s \in Contents : IsPrefix(s, s)
    /\ \A s, t \in Contents : IsPrefix(s, t) /\ IsPrefix(t, s) => s = t
    /\ \A s, t, u \in Contents : IsPrefix(s, t) /\ IsPrefix(t, u) => IsPrefix(s, u)
    /\ \A s, t \in Contents : IsPrefix(s, s \o t)
<1>1. \A s \in Contents : IsPrefix(s, s)
  BY PrefixPointwise, SMT DEF Contents
<1>2. ASSUME NEW s \in Contents, NEW t \in Contents, IsPrefix(s, t), IsPrefix(t, s)
      PROVE  s = t
  <2>1. /\ Len(s) <= Len(t) /\ \A i \in 1 .. Len(s) : s[i] = t[i]
        /\ Len(t) <= Len(s)
    BY <1>2, PrefixPointwise
  <2>2. QED
    BY <2>1, SMT DEF Contents
<1>3. ASSUME NEW s \in Contents, NEW t \in Contents, NEW u \in Contents,
             IsPrefix(s, t), IsPrefix(t, u)
      PROVE  IsPrefix(s, u)
  <2>1. /\ Len(s) <= Len(t) /\ \A i \in 1 .. Len(s) : s[i] = t[i]
        /\ Len(t) <= Len(u) /\ \A i \in 1 .. Len(t) : t[i] = u[i]
    BY <1>3, PrefixPointwise
  <2>2. Len(s) <= Len(u) /\ \A i \in 1 .. Len(s) : s[i] = u[i]
    BY <2>1, SMT DEF Contents
  <2>3. QED
    BY <2>2, PrefixPointwise
<1>4. ASSUME NEW s \in Contents, NEW t \in Contents
      PROVE  IsPrefix(s, s \o t)
  <2>1. Len(s) <= Len(s \o t) /\ \A i \in 1 .. Len(s) : s[i] = (s \o t)[i]
    BY SMT DEF Contents
  <2>2. QED
    BY <2>1, ContentsClosed, PrefixPointwise
<1>5. QED
  BY <1>1, <1>2, <1>3, <1>4

\* One os.write during the append of batch b onto r: the file grows by the next
\* chunk of b, and is complete when that was the last chunk.
LEMMA WriteExtends ==
    ASSUME NEW r \in Contents, NEW b \in Batch, NEW c \in Contents,
           IsPrefix(r, c), IsPrefix(c, r \o Bytes(b)), Len(c) - Len(r) < BatchLen,
           NEW n, n = Append(c, [id |-> b, at |-> (Len(c) - Len(r)) + 1])
    PROVE  /\ n \in Contents
           /\ IsPrefix(c, n)
           /\ IsPrefix(n, r \o Bytes(b))
           /\ Len(n) - Len(r) = (Len(c) - Len(r)) + 1
           /\ (Len(c) - Len(r)) + 1 = BatchLen => n = r \o Bytes(b)
<1> DEFINE d == Len(c) - Len(r)
           f == r \o Bytes(b)
<1>1. /\ Len(r) \in Nat /\ Len(c) \in Nat /\ BatchLen \in Nat
      /\ Len(r) <= Len(c) /\ \A i \in 1 .. Len(c) : c[i] = f[i]
  <2>1. Len(r) \in Nat /\ Len(c) \in Nat
    BY SMT DEF Contents
  <2>2. f \in Contents
    BY ContentsClosed
  <2>3. QED
    BY <2>1, <2>2, BatchAssumption, PrefixPointwise
<1>2. d \in Nat /\ d + 1 \in 1 .. BatchLen
  BY <1>1, SMT
<1>3. n \in Contents /\ Len(n) = Len(c) + 1 /\ n[Len(n)] = [id |-> b, at |-> d + 1]
      /\ \A i \in 1 .. Len(c) : n[i] = c[i]
  BY <1>2, SMT DEF Contents, Chunk
<1>4. Len(f) = Len(r) + BatchLen /\ f[Len(r) + (d + 1)] = [id |-> b, at |-> d + 1]
  <2> DEFINE t == Bytes(b)
  <2>1. t \in Seq(Chunk) /\ Len(t) = BatchLen /\ t[d + 1] = [id |-> b, at |-> d + 1]
    <3>1. Bytes(b) \in Contents
      BY ContentsClosed
    <3>2. Len(Bytes(b)) = BatchLen /\ Bytes(b)[d + 1] = [id |-> b, at |-> d + 1]
      BY <1>2, BatchAssumption, SMT DEF Bytes
    <3>3. QED
      BY <3>1, <3>2 DEF Contents
  <2>2. r \in Seq(Chunk)
    BY DEF Contents
  <2> HIDE DEF t
  <2>3. Len(r \o t) = Len(r) + BatchLen /\ (r \o t)[Len(r) + (d + 1)] = t[d + 1]
    <3>1. \A i \in 1 .. Len(t) : (r \o t)[Len(r) + i] = t[i]
      BY <2>1, <2>2, ConcatProperties, SMT
    <3>2. Len(r \o t) = Len(r) + Len(t)
      BY <2>1, <2>2, ConcatProperties
    <3>3. QED
      BY <1>2, <2>1, <3>1, <3>2
  <2>4. QED
    BY <2>1, <2>3 DEF t
<1>5. f \in Contents
  BY ContentsClosed
<1> HIDE DEF d, f
<1>6. IsPrefix(c, n)
  <2>1. Len(c) <= Len(n)
    BY <1>1, <1>3, SMT
  <2>2. QED
    BY <1>3, <2>1, PrefixPointwise
<1>7. IsPrefix(n, f)
  <2>1. Len(n) = Len(r) + (d + 1) /\ Len(n) <= Len(f)
    BY <1>1, <1>2, <1>3, <1>4, SMT DEF d
  <2>2. \A i \in 1 .. Len(n) : n[i] = f[i]
    BY <1>1, <1>3, <1>4, <2>1, SMT
  <2>3. QED
    BY <1>3, <1>5, <2>1, <2>2, PrefixPointwise
<1>8. ASSUME d + 1 = BatchLen
      PROVE  n = f
  <2>1. Len(n) = Len(f)
    BY <1>1, <1>3, <1>4, <1>8, SMT DEF d
  <2>2. \A i \in 1 .. Len(n) : n[i] = f[i]
    BY <1>3, <1>5, <1>7, PrefixPointwise
  <2>3. Len(f) <= Len(n) /\ \A i \in 1 .. Len(f) : f[i] = n[i]
    BY <1>1, <1>3, <2>1, <2>2, SMT
  <2>4. IsPrefix(f, n)
    BY <1>3, <1>5, <2>3, PrefixPointwise
  <2>5. QED
    BY <1>3, <1>5, <1>7, <2>4, PrefixOrder
<1>9. Len(n) - Len(r) = d + 1
  BY <1>1, <1>3, SMT DEF d
<1>10. QED
  BY <1>3, <1>6, <1>7, <1>8, <1>9 DEF d, f

-----------------------------------------------------------------------------
\* The inductive invariant

Installed == (journalDisk \cup {journal}) \ {NoJournal}
OnDisk == ledgerDisk \cup {ledger}

\* Recovery with journal j cannot cut content c short: c is not longer than
\* what j rolls back to, or it already has everything j would add.
Resolved(j, c) == IsPrefix(c, j.prefix) \/ IsPrefix(j.prefix \o j.pending, c)

\* No journal that is installed, or that a power loss may bring back, makes
\* recovery truncate below a promise.
PromisesResolved == \A j \in Installed : \A s \in promised : Resolved(j, s)

\* Every such journal agrees with the ledger up to the size it recorded.
PrefixesAgree == \A j \in Installed : \A c \in OnDisk : IsPrefix(j.prefix, c)

\* The journal that processes see recorded the longest ledger of them all.
NewestInstalled == journal # NoJournal => \A j \in Installed : IsPrefix(j.prefix, journal.prefix)

\* A journal that only the disk still holds has nothing left to decide.
OldResolved == \A j \in Installed : j # journal => Resolved(j, ledger)

\* Nothing is written to the ledger before the journal is safely on disk.
WriteAhead == journal # NoJournal => journalDisk = {journal} \/ ledger = journal.prefix

\* Without a journal, the disk holds at least what processes see.
Settled == journal = NoJournal => \A c \in ledgerDisk : IsPrefix(ledger, c)

WithoutJournal == {"dirsync", "load", "journal"}
WithJournal == {"truncate", "truncsync", "sync", "unlink", "jsync", "write", "writesync"}

\* What process p knows at each of its labels
OwnAppend(p) == raw[p] \o Bytes(batch[p])
OwnJournal(p) == [prefix |-> raw[p], pending |-> Bytes(batch[p])]

AtLabel(p) ==
    /\ pc[p] \notin {"idle", "wait"} => lock = p
    /\ pc[p] \in WithoutJournal => journal = NoJournal
    /\ pc[p] \in WithJournal => journal # NoJournal
    /\ pc[p] = "truncate" => Partial(ledger, journal)
    /\ pc[p] = "truncsync" => ledger = journal.prefix
    /\ pc[p] = "sync" => Complete(ledger, journal)
    /\ pc[p] = "unlink" => /\ Resolved(journal, ledger)
                           /\ \A c \in ledgerDisk : IsPrefix(ledger, c)
    /\ pc[p] = "journal" => batch[p] # NoBatch /\ ledger = raw[p]
    /\ pc[p] = "jsync" => batch[p] # NoBatch /\ ledger = raw[p] /\ journal = OwnJournal(p)
    /\ pc[p] = "write" => /\ batch[p] # NoBatch /\ journal = OwnJournal(p)
                          /\ journalDisk = {journal}
                          /\ IsPrefix(raw[p], ledger) /\ IsPrefix(ledger, OwnAppend(p))
                          /\ Len(ledger) - Len(raw[p]) < BatchLen
    /\ pc[p] = "writesync" => /\ batch[p] # NoBatch /\ journal = OwnJournal(p)
                              /\ journalDisk = {journal}
                              /\ ledger = OwnAppend(p)
    /\ ctx[p] = "commit" => /\ pc[p] \in {"unlink", "dirsync"}
                            /\ batch[p] # NoBatch
                            /\ ledger = OwnAppend(p)
                            /\ ledgerDisk = {ledger}

IInv ==
    /\ TypeOK
    /\ PromisedSurvives
    /\ PromisesResolved
    /\ PrefixesAgree
    /\ NewestInstalled
    /\ OldResolved
    /\ WriteAhead
    /\ Settled
    /\ \A p \in Proc : AtLabel(p)

-----------------------------------------------------------------------------
\* Types

\* The prefix and the pending bytes of a journal are ledger contents.
LEMMA JournalTypes ==
    /\ \A j \in Journals \cup {NoJournal} :
          /\ j.prefix \in Contents /\ j.pending \in Contents
          /\ j.prefix \o j.pending \in Contents
    /\ \A c \in Contents, b \in Batch : /\ [prefix |-> c, pending |-> Bytes(b)] \in Journals
                                        /\ [prefix |-> c, pending |-> Bytes(b)] # NoJournal
<1>0. \A b \in Batch : Bytes(b) # <<>>
  BY BatchAssumption, SMT DEF Bytes
<1>1. \A j \in Journals \cup {NoJournal} : j.prefix \in Contents /\ j.pending \in Contents
  BY ContentsClosed, SMT DEF Journals, NoJournal
<1>2. QED
  BY <1>0, <1>1, ContentsClosed, SMT DEF Journals, NoJournal

\* The head of a ledger is a batch or None.
LEMMA HeadType == \A c \in Contents : HeadOf(c) \in Batch \cup {NoBatch}
<1> SUFFICES ASSUME NEW c \in Contents, c # <<>>
             PROVE  c[Len(c)].id \in Batch
  BY DEF HeadOf
<1>1. c[Len(c)] \in Chunk
  BY SMT DEF Contents
<1>2. QED
  BY <1>1 DEF Chunk

\* Every step preserves the types.
LEMMA TypeStep == IInv /\ [Next]_vars => TypeOK'
<1> SUFFICES ASSUME IInv, [Next]_vars PROVE TypeOK'
  OBVIOUS
<1>0. TypeOK /\ \A p \in Proc : AtLabel(p)
  BY DEF IInv
<1> USE <1>0
<1> USE DEF TypeOK, Labels, disk, locals, history
<1>1. CASE UNCHANGED vars
  BY <1>1 DEF vars
<1>2. CASE PowerLoss
  BY <1>2, FaultAssumption, ContentsClosed, SMT DEF PowerLoss, Fault
<1>3. ASSUME NEW p \in Proc, Start(p) PROVE TypeOK'
  <2>1. CASE StartRead(p)
    BY <2>1 DEF StartRead, Goto
  <2>2. ASSUME NEW b \in Batch, NEW e \in Batch \cup {NoBatch, Omitted}, StartAppend(p, b, e)
        PROVE  TypeOK'
    BY <2>2 DEF StartAppend, Goto
  <2>3. QED
    BY <1>3, <2>1, <2>2 DEF Start
<1>4. ASSUME NEW p \in Proc, Acquire(p) PROVE TypeOK'
  BY <1>4 DEF Acquire, Goto
<1>5. ASSUME NEW p \in Proc, Step(p) PROVE TypeOK'
  <2> USE DEF Goto, Finish, Tell, Refuse, Doubt, Acknowledge, Recovered, RecoveryRaises, Synced
  <2>1. CASE RecoverNothing(p)
    BY <2>1, ContentsClosed DEF RecoverNothing
  <2>2. CASE Recover(p)
    <3>1. Verdict(ledger, journal) \in {"unlink", "truncate", "sync", "corrupt"}
      BY DEF Verdict
    <3>2. QED
      BY <2>2, <3>1, ContentsClosed DEF Recover
  <2>3. CASE Truncate(p)
    BY <2>3, JournalTypes DEF Truncate
  <2>4. CASE SyncTruncated(p)
    BY <2>4 DEF SyncTruncated
  <2>5. CASE SyncComplete(p)
    BY <2>5 DEF SyncComplete
  <2>6. CASE Unlink(p)
    BY <2>6 DEF Unlink
  <2>7. CASE SyncDirectory(p)
    <3>1. CASE ctx[p] = "commit"
      <4>1. raw[p] \o Bytes(batch[p]) \in Contents
        BY <3>1, ContentsClosed DEF AtLabel
      <4>2. promised' = promised \cup {raw[p] \o Bytes(batch[p])}
        BY <2>7, <3>1 DEF SyncDirectory
      <4>3. promised' \subseteq Contents
        BY <4>1, <4>2
      <4>4. journalDisk' = {journal} /\ UNCHANGED <<ledger, ledgerDisk, journal, faults>>
        BY <2>7 DEF SyncDirectory
      <4>5. QED
        BY <2>7, <3>1, <4>3, <4>4, ContentsClosed DEF SyncDirectory
    <3>2. CASE ctx[p] # "commit"
      BY <2>7, <3>2, ContentsClosed DEF SyncDirectory
    <3>3. QED
      BY <3>1, <3>2
  <2>8. CASE LoadCorrupt(p)
    BY <2>8, ContentsClosed DEF LoadCorrupt
  <2>9. CASE Read(p)
    BY <2>9, ContentsClosed, HeadType DEF Read
  <2>10. CASE RefuseBatch(p)
    BY <2>10, ContentsClosed DEF RefuseBatch
  <2>11. CASE AcceptBatch(p)
    BY <2>11 DEF AcceptBatch
  <2>12. CASE InstallJournal(p)
    <3>1. batch[p] \in Batch
      BY <2>12 DEF InstallJournal, AtLabel
    <3>2. [prefix |-> raw[p], pending |-> Bytes(batch[p])] \in Journals
      BY <3>1, JournalTypes
    <3>3. QED
      BY <2>12, <3>2 DEF InstallJournal
  <2>13. CASE SyncJournal(p)
    BY <2>13 DEF SyncJournal
  <2>14. CASE WriteChunk(p)
    <3>1. /\ batch[p] \in Batch /\ raw[p] \in Contents
          /\ IsPrefix(raw[p], ledger) /\ IsPrefix(ledger, raw[p] \o Bytes(batch[p]))
          /\ Len(ledger) - Len(raw[p]) < BatchLen
      BY <2>14 DEF WriteChunk, AtLabel, OwnAppend
    <3>2. ledger' \in Contents
      BY <2>14, <3>1, WriteExtends DEF WriteChunk
    <3>3. QED
      BY <2>14, <3>2 DEF WriteChunk
  <2>15. CASE SyncAppend(p)
    BY <2>15 DEF SyncAppend
  <2>16. QED
    BY <1>5, <2>1, <2>2, <2>3, <2>4, <2>5, <2>6, <2>7, <2>8, <2>9, <2>10, <2>11, <2>12,
       <2>13, <2>14, <2>15 DEF Step
<1>6. ASSUME NEW p \in Proc, SystemFault(p) PROVE TypeOK'
  <2> USE DEF Goto, Finish, Tell, Refuse, Doubt, Acknowledge, RecoveryRaises
  <2>0. ASSUME NEW k, Fault(k) PROVE faults' \in 0 .. MaxFaults
    BY <2>0, FaultAssumption, SMT DEF Fault
  <2>1. CASE RecoveryFails(p)
    BY <2>0, <2>1, ContentsClosed DEF RecoveryFails
  <2>2. CASE RemovalFails(p)
    <3>1. CASE ctx[p] = "commit"
      <4>1. raw[p] \o Bytes(batch[p]) \in Contents
        BY <3>1, ContentsClosed DEF AtLabel
      <4>2. QED
        BY <2>0, <2>2, <3>1, <4>1, ContentsClosed DEF RemovalFails
    <3>2. CASE ctx[p] # "commit"
      BY <2>0, <2>2, <3>2, ContentsClosed DEF RemovalFails
    <3>3. QED
      BY <3>1, <3>2
  <2>3. CASE PrepareFails(p)
    BY <2>0, <2>3, ContentsClosed DEF PrepareFails
  <2>4. CASE AppendFails(p)
    BY <2>0, <2>4 DEF AppendFails
  <2>5. CASE Kill(p)
    BY <2>0, <2>5, ContentsClosed DEF Kill
  <2>6. QED
    BY <1>6, <2>1, <2>2, <2>3, <2>4, <2>5 DEF SystemFault
<1>7. QED
  BY <1>1, <1>2, <1>3, <1>4, <1>5, <1>6 DEF Next

-----------------------------------------------------------------------------
\* Frames: what a step of one process cannot disturb

Globals ==
    /\ PromisedSurvives
    /\ PromisesResolved
    /\ PrefixesAgree
    /\ NewestInstalled
    /\ OldResolved
    /\ WriteAhead
    /\ Settled

\* A step that leaves the files and the promises alone preserves what relates them.
LEMMA GlobalsFrame == Globals /\ UNCHANGED <<disk, promised>> => Globals'
BY DEF Globals, PromisedSurvives, PromisesResolved, PrefixesAgree, NewestInstalled,
       OldResolved, WriteAhead, Settled, Resolved, Installed, OnDisk, disk

\* A process without the lock depends on nothing the lock protects.
LEMMA OthersAtLabel ==
    ASSUME NEW q \in Proc, AtLabel(q), lock # q, pc'[q] = pc[q], ctx'[q] = ctx[q]
    PROVE  AtLabel(q)'
<1>1. pc[q] \in {"idle", "wait"} /\ ctx[q] # "commit"
  BY DEF AtLabel
<1>2. QED
  BY <1>1 DEF AtLabel, WithJournal, WithoutJournal

\* A process whose locals, lock and files do not change knows what it knew.
LEMMA SameAtLabel ==
    ASSUME NEW q \in Proc, AtLabel(q), UNCHANGED <<disk, lock>>,
           pc'[q] = pc[q], ctx'[q] = ctx[q], batch'[q] = batch[q], raw'[q] = raw[q]
    PROVE  AtLabel(q)'
BY DEF AtLabel, OwnAppend, OwnJournal, Partial, Complete, Resolved, disk

\* A process that has finished, or died, knows nothing.
LEMMA IdleAtLabel ==
    ASSUME NEW q \in Proc, pc'[q] \in {"idle", "wait"}, ctx'[q] = "open"
    PROVE  AtLabel(q)'
BY DEF AtLabel, WithJournal, WithoutJournal

\* The holder of the lock is the only process past "wait".
LEMMA HolderAlone ==
    ASSUME NEW p \in Proc, AtLabel(p), pc[p] \notin {"idle", "wait"}
    PROVE  lock = p /\ \A q \in Proc \ {p} : lock # q
BY DEF AtLabel

-----------------------------------------------------------------------------
\* Starting and acquiring

\* A command that starts, or gets the lock, touches no file.
LEMMA StartStep ==
    ASSUME IInv, NEW p \in Proc, Start(p) \/ Acquire(p)
    PROVE  Globals' /\ \A q \in Proc : AtLabel(q)'
<1>1. TypeOK /\ Globals /\ \A q \in Proc : AtLabel(q)
  BY DEF IInv, Globals
<1>2. CASE Start(p)
  <2>1. /\ pc[p] = "idle" /\ pc' = [pc EXCEPT ![p] = "wait"]
        /\ UNCHANGED <<disk, lock, ctx, raw, promised>>
        /\ \A q \in Proc \ {p} : batch'[q] = batch[q]
    BY <1>1, <1>2 DEF Start, StartRead, StartAppend, Goto, history, TypeOK
  <2>2. AtLabel(p)'
    <3>1. ctx[p] = "open" \/ ctx[p] = "undo"
      BY <1>1, <2>1 DEF AtLabel, TypeOK
    <3>2. QED
      BY <1>1, <2>1, <3>1 DEF AtLabel, TypeOK, WithJournal, WithoutJournal
  <2>3. ASSUME NEW q \in Proc, q # p PROVE AtLabel(q)'
    BY <1>1, <2>1, <2>3, SameAtLabel DEF TypeOK
  <2>4. QED
    BY <1>1, <2>1, <2>2, <2>3, GlobalsFrame
<1>3. CASE Acquire(p)
  <2>1. /\ pc[p] = "wait" /\ lock = NoProc /\ lock' = p /\ pc' = [pc EXCEPT ![p] = "recover"]
        /\ UNCHANGED <<disk, ctx, promised>>
    BY <1>3 DEF Acquire, LockIsFree, Goto, history
  <2>2. AtLabel(p)'
    BY <1>1, <2>1 DEF AtLabel, TypeOK, WithJournal, WithoutJournal
  <2>3. ASSUME NEW q \in Proc, q # p PROVE AtLabel(q)'
    BY <1>1, <2>1, <2>3, OthersAtLabel, NameAssumption DEF TypeOK
  <2>4. QED
    BY <1>1, <2>1, <2>2, <2>3, GlobalsFrame
<1>4. QED
  BY <1>2, <1>3

-----------------------------------------------------------------------------
\* Steps of the lock holder

\* A holder that moves to another label disturbs no other process.
LEMMA MoveLabels ==
    ASSUME NEW p \in Proc, TypeOK, \A q \in Proc : AtLabel(q), pc[p] \notin {"idle", "wait"},
           \A q \in Proc \ {p} : pc'[q] = pc[q] /\ ctx'[q] = ctx[q]
    PROVE  \A q \in Proc \ {p} : AtLabel(q)'
BY HolderAlone, OthersAtLabel

\* Nor does a holder that ends its operation.
LEMMA FinishLabels ==
    ASSUME NEW p \in Proc, TypeOK, \A q \in Proc : AtLabel(q), pc[p] \notin {"idle", "wait"},
           Finish(p)
    PROVE  \A q \in Proc : AtLabel(q)'
<1>1. /\ pc'[p] = "idle" /\ ctx'[p] = "open"
      /\ \A q \in Proc \ {p} : pc'[q] = pc[q] /\ ctx'[q] = ctx[q]
  BY DEF Finish, TypeOK
<1>2. QED
  BY <1>1, MoveLabels, IdleAtLabel

\* Steps that leave the files and the promises alone.
LEMMA QuietStep ==
    ASSUME IInv, NEW p \in Proc,
           \/ RecoverNothing(p) \/ Recover(p) \/ LoadCorrupt(p) \/ RefuseBatch(p)
           \/ AcceptBatch(p) \/ RecoveryFails(p) \/ PrepareFails(p) \/ AppendFails(p)
    PROVE  Globals' /\ \A q \in Proc : AtLabel(q)'
<1> USE DEF Refuse, Doubt, RecoveryRaises, Recovered, Goto, history
<1>1. TypeOK /\ Globals /\ \A q \in Proc : AtLabel(q)
  BY DEF IInv, Globals
<1>2. UNCHANGED <<disk, promised>>
  BY DEF RecoverNothing, Recover, LoadCorrupt, RefuseBatch, AcceptBatch, RecoveryFails,
         PrepareFails, AppendFails
<1>3. Globals'
  BY <1>1, <1>2, GlobalsFrame
<1>4. pc[p] \notin {"idle", "wait"}
  BY DEF RecoverNothing, Recover, LoadCorrupt, RefuseBatch, AcceptBatch, RecoveryFails,
         PrepareFails, AppendFails
<1>5. CASE Finish(p)
  BY <1>1, <1>3, <1>4, <1>5, FinishLabels
<1>6. CASE ~Finish(p)
  <2>1. lock = p /\ UNCHANGED lock /\ \A q \in Proc \ {p} : pc'[q] = pc[q] /\ ctx'[q] = ctx[q]
    BY <1>1, <1>4, <1>6, HolderAlone
       DEF RecoverNothing, Recover, LoadCorrupt, RefuseBatch, AcceptBatch, RecoveryFails,
           PrepareFails, AppendFails, TypeOK
  <2>2. ASSUME RecoverNothing(p) PROVE AtLabel(p)'
    <3>1. pc'[p] = "load" /\ ctx'[p] = "open" /\ journal' = NoJournal
      BY <1>1, <1>6, <2>2 DEF RecoverNothing, TypeOK, disk
    <3>2. QED
      BY <2>1, <3>1 DEF AtLabel, WithJournal, WithoutJournal
  <2>3. ASSUME Recover(p) PROVE AtLabel(p)'
    <3>1. /\ pc' = [pc EXCEPT ![p] = Verdict(ledger, journal)]
          /\ UNCHANGED <<ctx, batch, raw>>
      BY <1>6, <2>3 DEF Recover
    <3>2. /\ journal # NoJournal /\ journal \in Journals
          /\ ctx[p] # "commit" /\ ctx'[p] # "commit"
      BY <1>1, <2>3, <3>1 DEF Recover, AtLabel, TypeOK
    <3>3. Verdict(ledger, journal) # "corrupt"
      BY <1>6, <2>3 DEF Recover
    <3>4. UNCHANGED <<ledger, ledgerDisk, journal>>
      BY <1>2 DEF disk
    <3>5. CASE Untouched(ledger, journal)
      <4>1. pc'[p] = "unlink"
        BY <1>1, <3>1, <3>5 DEF Verdict, TypeOK
      <4>2. Resolved(journal, ledger) /\ \A c \in ledgerDisk : IsPrefix(ledger, c)
        BY <1>1, <3>2, <3>5, PrefixOrder, JournalTypes
           DEF Untouched, Resolved, Globals, PrefixesAgree, Installed, OnDisk, TypeOK
      <4>3. Resolved(journal, ledger)' /\ (\A c \in ledgerDisk : IsPrefix(ledger, c))'
        BY <3>4, <4>2 DEF Resolved
      <4>4. QED
        BY <2>1, <3>2, <3>4, <4>1, <4>3 DEF AtLabel, WithJournal, WithoutJournal
    <3>6. CASE ~Untouched(ledger, journal) /\ Partial(ledger, journal)
      <4>1. pc'[p] = "truncate"
        BY <1>1, <3>1, <3>6 DEF Verdict, TypeOK
      <4>2. Partial(ledger, journal)'
        BY <3>4, <3>6 DEF Partial
      <4>3. QED
        BY <2>1, <3>2, <3>4, <4>1, <4>2 DEF AtLabel, WithJournal, WithoutJournal
    <3>7. CASE ~Untouched(ledger, journal) /\ ~Partial(ledger, journal)
      <4>1. pc'[p] = "sync" /\ Complete(ledger, journal)
        BY <1>1, <3>1, <3>3, <3>7 DEF Verdict, TypeOK
      <4>2. Complete(ledger, journal)'
        BY <3>4, <4>1 DEF Complete
      <4>3. QED
        BY <2>1, <3>2, <3>4, <4>1, <4>2 DEF AtLabel, WithJournal, WithoutJournal
    <3>8. QED
      BY <3>5, <3>6, <3>7
  <2>4. ASSUME AcceptBatch(p) PROVE AtLabel(p)'
    <3>1. /\ pc'[p] = "journal" /\ journal' = NoJournal /\ ctx'[p] # "commit"
          /\ batch'[p] # NoBatch /\ ledger' = raw'[p]
      BY <1>1, <1>2, <2>4 DEF AcceptBatch, AtLabel, TypeOK, WithoutJournal, disk
    <3>2. QED
      BY <2>1, <3>1 DEF AtLabel, WithJournal, WithoutJournal
  <2>5. ASSUME AppendFails(p) PROVE AtLabel(p)'
    <3>1. pc'[p] = "recover" /\ ctx'[p] = "undo"
      BY <1>1, <2>5 DEF AppendFails, TypeOK
    <3>2. QED
      BY <2>1, <3>1 DEF AtLabel, WithJournal, WithoutJournal
  <2>6. AtLabel(p)'
    BY <1>6, <2>2, <2>3, <2>4, <2>5
       DEF LoadCorrupt, RefuseBatch, RecoveryFails, PrepareFails
  <2>7. QED
    BY <1>1, <1>3, <1>4, <2>1, <2>6, MoveLabels
<1>7. QED
  BY <1>5, <1>6

-----------------------------------------------------------------------------
\* Steps that change a file or make a promise

\* Rolling back a partial append cuts no promise short.
LEMMA TruncateStep ==
    ASSUME IInv, NEW p \in Proc, Truncate(p)
    PROVE  Globals' /\ \A q \in Proc : AtLabel(q)'
<1>1. TypeOK /\ Globals /\ \A q \in Proc : AtLabel(q)
  BY DEF IInv, Globals
<1>2. /\ pc[p] = "truncate" /\ pc'[p] = "truncsync" /\ ctx' = ctx /\ lock' = lock
      /\ \A q \in Proc \ {p} : pc'[q] = pc[q]
      /\ ledger' = journal.prefix /\ ledgerDisk' = ledgerDisk \cup {journal.prefix}
      /\ UNCHANGED <<journal, journalDisk, promised>>
  BY <1>1 DEF Truncate, Goto, history, TypeOK
<1>3. journal # NoJournal /\ Partial(ledger, journal) /\ lock = p /\ ctx[p] # "commit"
  BY <1>1, <1>2 DEF AtLabel, WithJournal
<1>4. Installed = {journal} /\ Installed' = Installed
  BY <1>1, <1>2, <1>3 DEF Globals, WriteAhead, Installed, Partial
<1>5. OnDisk' \subseteq OnDisk \cup {journal.prefix}
  BY <1>2 DEF OnDisk
<1>6. /\ ledger \in Contents /\ journal.prefix \in Contents
      /\ journal.prefix \o journal.pending \in Contents
      /\ promised \subseteq Contents /\ ledgerDisk \subseteq Contents
  BY <1>1, JournalTypes DEF TypeOK
<1>7. ASSUME NEW s \in promised PROVE IsPrefix(s, journal.prefix)
  <2>1. Resolved(journal, s) /\ IsPrefix(s, ledger)
    BY <1>1, <1>4 DEF Globals, PromisesResolved, PromisedSurvives
  <2>2. ~IsPrefix(journal.prefix \o journal.pending, s)
    BY <1>3, <1>6, <2>1, PrefixOrder DEF Partial
  <2>3. QED
    BY <2>1, <2>2 DEF Resolved
<1>8. PromisedSurvives'
  BY <1>1, <1>2, <1>7 DEF Globals, PromisedSurvives
<1>9. PrefixesAgree'
  BY <1>1, <1>2, <1>4, <1>5, <1>6, PrefixOrder DEF Globals, PrefixesAgree
<1>10. PromisesResolved' /\ NewestInstalled' /\ OldResolved' /\ WriteAhead' /\ Settled'
  BY <1>1, <1>2, <1>3, <1>4, <1>6
     DEF Globals, PromisesResolved, NewestInstalled, OldResolved, WriteAhead, Settled, Resolved
<1>11. AtLabel(p)'
  BY <1>2, <1>3 DEF AtLabel, WithJournal, WithoutJournal
<1>12. QED
  BY <1>1, <1>2, <1>8, <1>9, <1>10, <1>11, MoveLabels DEF Globals

\* An fsync of the ledger only removes contents the disk may hold.
LEMMA SyncStep ==
    ASSUME IInv, NEW p \in Proc, SyncTruncated(p) \/ SyncComplete(p) \/ SyncAppend(p)
    PROVE  Globals' /\ \A q \in Proc : AtLabel(q)'
<1>1. TypeOK /\ Globals /\ \A q \in Proc : AtLabel(q)
  BY DEF IInv, Globals
<1>2. /\ pc[p] \in {"truncsync", "sync", "writesync"} /\ pc'[p] = "unlink"
      /\ \A q \in Proc \ {p} : pc'[q] = pc[q] /\ ctx'[q] = ctx[q]
      /\ ledgerDisk' = {ledger} /\ lock' = lock
      /\ UNCHANGED <<ledger, journal, journalDisk, promised, batch, raw>>
      /\ pc[p] = "writesync" \/ ctx' = ctx
  BY <1>1 DEF SyncTruncated, SyncComplete, SyncAppend, Synced, Goto, history, TypeOK
<1>3. journal # NoJournal /\ lock = p /\ ctx[p] # "commit" /\ journal \in Journals
  BY <1>1, <1>2 DEF AtLabel, WithJournal, TypeOK
<1>4. /\ ledger \in Contents /\ journal.prefix \in Contents
      /\ journal.prefix \o journal.pending \in Contents
  BY <1>1, <1>3, JournalTypes DEF TypeOK
<1>5. Resolved(journal, ledger)
  <2>1. CASE pc[p] = "truncsync"
    BY <1>1, <1>4, <2>1, PrefixOrder DEF AtLabel, Resolved
  <2>2. CASE pc[p] = "sync"
    BY <1>1, <2>2 DEF AtLabel, Resolved, Complete
  <2>3. CASE pc[p] = "writesync"
    <3>1. journal = OwnJournal(p) /\ ledger = OwnAppend(p)
      BY <1>1, <2>3 DEF AtLabel
    <3>2. ledger = journal.prefix \o journal.pending
      BY <3>1 DEF OwnAppend, OwnJournal
    <3>3. QED
      BY <1>4, <3>2, PrefixOrder DEF Resolved
  <2>4. QED
    BY <1>2, <2>1, <2>2, <2>3
<1>6. Globals'
  BY <1>1, <1>2, <1>4, PrefixOrder
     DEF Globals, PromisedSurvives, PromisesResolved, PrefixesAgree, NewestInstalled,
         OldResolved, WriteAhead, Settled, Resolved, Installed, OnDisk
<1>7. AtLabel(p)'
  <2>1. Resolved(journal, ledger)' /\ (\A c \in ledgerDisk : IsPrefix(ledger, c))'
    BY <1>2, <1>4, <1>5, PrefixOrder DEF Resolved
  <2>2. ctx'[p] = "commit" => /\ batch'[p] # NoBatch
                              /\ (ledger = OwnAppend(p) /\ ledgerDisk = {ledger})'
    BY <1>1, <1>2, <1>3 DEF AtLabel, OwnAppend
  <2>3. QED
    BY <1>2, <1>3, <2>1, <2>2 DEF AtLabel, WithJournal, WithoutJournal
<1>8. QED
  BY <1>1, <1>2, <1>6, <1>7, MoveLabels

\* The journal is removed only when it has nothing left to decide.
LEMMA UnlinkStep ==
    ASSUME IInv, NEW p \in Proc, Unlink(p)
    PROVE  Globals' /\ \A q \in Proc : AtLabel(q)'
<1>1. TypeOK /\ Globals /\ \A q \in Proc : AtLabel(q)
  BY DEF IInv, Globals
<1>2. /\ pc[p] = "unlink" /\ pc'[p] = "dirsync" /\ ctx' = ctx /\ lock' = lock
      /\ \A q \in Proc \ {p} : pc'[q] = pc[q]
      /\ journal' = NoJournal /\ journalDisk' = journalDisk \cup {NoJournal}
      /\ UNCHANGED <<ledger, ledgerDisk, promised, batch, raw>>
  BY <1>1 DEF Unlink, Goto, history, TypeOK
<1>3. /\ lock = p /\ Resolved(journal, ledger)
      /\ \A c \in ledgerDisk : IsPrefix(ledger, c)
  BY <1>1, <1>2 DEF AtLabel, WithJournal
<1>4. Installed' \subseteq Installed /\ NoJournal \notin Installed' /\ OnDisk' = OnDisk
  BY <1>2 DEF Installed, OnDisk
<1>5. OldResolved'
  BY <1>1, <1>2, <1>3, <1>4 DEF Globals, OldResolved, Resolved
<1>6. /\ PromisedSurvives' /\ PromisesResolved' /\ PrefixesAgree'
      /\ NewestInstalled' /\ WriteAhead' /\ Settled'
  BY <1>1, <1>2, <1>3, <1>4
     DEF Globals, PromisedSurvives, PromisesResolved, PrefixesAgree, NewestInstalled,
         WriteAhead, Settled, Resolved
<1>7. AtLabel(p)'
  <2>1. ctx'[p] = "commit" => /\ batch'[p] # NoBatch
                              /\ (ledger = OwnAppend(p) /\ ledgerDisk = {ledger})'
    BY <1>1, <1>2 DEF AtLabel, OwnAppend
  <2>2. QED
    BY <1>2, <1>3, <2>1 DEF AtLabel, WithJournal, WithoutJournal
<1>8. QED
  BY <1>1, <1>2, <1>5, <1>6, <1>7, MoveLabels DEF Globals

\* After the directory fsync no journal can come back; an append ends here.
LEMMA SyncDirectoryStep ==
    ASSUME IInv, NEW p \in Proc, SyncDirectory(p)
    PROVE  Globals' /\ \A q \in Proc : AtLabel(q)'
<1>1. TypeOK /\ Globals /\ \A q \in Proc : AtLabel(q)
  BY DEF IInv, Globals
<1>2. /\ pc[p] = "dirsync" /\ journalDisk' = {journal}
      /\ UNCHANGED <<ledger, ledgerDisk, journal>>
  BY DEF SyncDirectory
<1>3. journal = NoJournal /\ lock = p
  BY <1>1, <1>2 DEF AtLabel, WithoutJournal
<1>4. Installed' = {} /\ OnDisk' = OnDisk /\ ledger \in Contents
  BY <1>1, <1>2, <1>3 DEF Installed, OnDisk, TypeOK
<1>5. /\ PromisesResolved' /\ PrefixesAgree' /\ NewestInstalled' /\ OldResolved'
      /\ WriteAhead' /\ Settled'
  BY <1>1, <1>2, <1>3, <1>4
     DEF Globals, PromisesResolved, PrefixesAgree, NewestInstalled, OldResolved, WriteAhead,
         Settled
<1>6. CASE ctx[p] = "commit"
  <2>1. Acknowledge(p) /\ Finish(p)
    BY <1>6 DEF SyncDirectory, Acknowledge
  <2>2. ledger = OwnAppend(p) /\ ledgerDisk = {ledger}
    BY <1>1, <1>6 DEF AtLabel
  <2>3. promised' = promised \cup {ledger}
    BY <2>1, <2>2 DEF Acknowledge, OwnAppend
  <2>4. PromisedSurvives'
    BY <1>1, <1>2, <1>4, <2>2, <2>3, PrefixOrder DEF Globals, PromisedSurvives
  <2>5. QED
    BY <1>1, <1>2, <1>5, <2>1, <2>4, FinishLabels DEF Globals
<1>7. CASE ctx[p] # "commit"
  <2>1. Recovered(p) /\ UNCHANGED promised
    BY <1>7 DEF SyncDirectory, Recovered, Doubt, history
  <2>2. Globals'
    BY <1>1, <1>2, <1>5, <2>1 DEF Globals, PromisedSurvives
  <2>3. CASE Finish(p)
    BY <1>1, <1>2, <2>2, <2>3, FinishLabels
  <2>4. CASE ~Finish(p)
    <3>1. /\ pc' = [pc EXCEPT ![p] = "load"] /\ ctx' = ctx /\ lock' = lock
      BY <2>1, <2>4 DEF Recovered, Doubt, Goto
    <3>2. AtLabel(p)'
      BY <1>1, <1>2, <1>3, <1>7, <3>1 DEF AtLabel, TypeOK, WithJournal, WithoutJournal
    <3>3. QED
      BY <1>1, <1>2, <2>2, <3>1, <3>2, MoveLabels DEF TypeOK
  <2>5. QED
    BY <2>3, <2>4
<1>8. QED
  BY <1>6, <1>7

\* A failed removal after an append still reports the batch as committed.
LEMMA RemovalFailsStep ==
    ASSUME IInv, NEW p \in Proc, RemovalFails(p)
    PROVE  Globals' /\ \A q \in Proc : AtLabel(q)'
<1>1. TypeOK /\ Globals /\ \A q \in Proc : AtLabel(q)
  BY DEF IInv, Globals
<1>2. pc[p] \in {"unlink", "dirsync"} /\ UNCHANGED disk
  BY DEF RemovalFails
<1>3. Finish(p)
  BY DEF RemovalFails, Acknowledge, RecoveryRaises, Refuse, Doubt
<1>4. \A q \in Proc : AtLabel(q)'
  BY <1>1, <1>2, <1>3, FinishLabels
<1>5. CASE ctx[p] = "commit"
  <2>1. ledger = OwnAppend(p) /\ ledgerDisk = {ledger} /\ ledger \in Contents
    BY <1>1, <1>5 DEF AtLabel, TypeOK
  <2>2. promised' = promised \cup {ledger}
    BY <1>5, <2>1 DEF RemovalFails, Acknowledge, OwnAppend
  <2>3. PromisedSurvives'
    BY <1>1, <1>2, <2>1, <2>2, PrefixOrder DEF Globals, PromisedSurvives, disk
  <2>4. \A j \in Installed : Resolved(j, ledger)
    <3>1. CASE pc[p] = "unlink"
      BY <1>1, <3>1 DEF AtLabel, Globals, OldResolved
    <3>2. CASE pc[p] = "dirsync"
      BY <1>1, <3>2 DEF AtLabel, WithoutJournal, Globals, OldResolved, Installed
    <3>3. QED
      BY <1>2, <3>1, <3>2
  <2>5. PromisesResolved'
    BY <1>1, <1>2, <2>2, <2>4 DEF Globals, PromisesResolved, Installed, Resolved, disk
  <2>6. PrefixesAgree' /\ NewestInstalled' /\ OldResolved' /\ WriteAhead' /\ Settled'
    BY <1>1, <1>2
       DEF Globals, PrefixesAgree, NewestInstalled, OldResolved, WriteAhead, Settled,
           Resolved, Installed, OnDisk, disk
  <2>7. QED
    BY <1>4, <2>3, <2>5, <2>6 DEF Globals
<1>6. CASE ctx[p] # "commit"
  <2>1. UNCHANGED promised
    BY <1>6 DEF RemovalFails, RecoveryRaises, Refuse, Doubt
  <2>2. QED
    BY <1>1, <1>2, <1>4, <2>1, GlobalsFrame
<1>7. QED
  BY <1>5, <1>6

\* What a read returns is on every disk and beyond the reach of every journal.
LEMMA ReadStep ==
    ASSUME IInv, NEW p \in Proc, Read(p)
    PROVE  Globals' /\ \A q \in Proc : AtLabel(q)'
<1>1. TypeOK /\ Globals /\ \A q \in Proc : AtLabel(q)
  BY DEF IInv, Globals
<1>2. pc[p] = "load" /\ Finish(p) /\ promised' = promised \cup {ledger} /\ UNCHANGED disk
  BY DEF Read
<1>3. journal = NoJournal
  BY <1>1, <1>2 DEF AtLabel, WithoutJournal
<1>4. PromisedSurvives'
  BY <1>1, <1>2, <1>3, PrefixOrder DEF Globals, PromisedSurvives, Settled, TypeOK, disk
<1>5. PromisesResolved'
  <2>1. \A j \in Installed : Resolved(j, ledger)
    BY <1>1, <1>3 DEF Globals, OldResolved, Installed
  <2>2. QED
    BY <1>1, <1>2, <2>1 DEF Globals, PromisesResolved, Installed, Resolved, disk
<1>6. PrefixesAgree' /\ NewestInstalled' /\ OldResolved' /\ WriteAhead' /\ Settled'
  BY <1>1, <1>2
     DEF Globals, PrefixesAgree, NewestInstalled, OldResolved, WriteAhead, Settled,
         Resolved, Installed, OnDisk, disk
<1>7. QED
  BY <1>1, <1>2, <1>4, <1>5, <1>6, FinishLabels DEF Globals

\* A new journal records a ledger that is on every disk.
LEMMA InstallStep ==
    ASSUME IInv, NEW p \in Proc, InstallJournal(p)
    PROVE  Globals' /\ \A q \in Proc : AtLabel(q)'
<1>1. TypeOK /\ Globals /\ \A q \in Proc : AtLabel(q)
  BY DEF IInv, Globals
<1>2. /\ pc[p] = "journal" /\ pc'[p] = "jsync" /\ ctx' = ctx /\ lock' = lock
      /\ \A q \in Proc \ {p} : pc'[q] = pc[q]
      /\ journal = NoJournal /\ journal' = OwnJournal(p)
      /\ journalDisk' = journalDisk \cup {journal'}
      /\ UNCHANGED <<ledger, ledgerDisk, promised, batch, raw>>
  BY <1>1 DEF InstallJournal, Goto, history, TypeOK, OwnJournal
<1>3. /\ lock = p /\ batch[p] \in Batch /\ ledger = raw[p] /\ ctx[p] # "commit"
      /\ ledger \in Contents /\ ledgerDisk \subseteq Contents
  BY <1>1, <1>2 DEF AtLabel, TypeOK
<1>4. /\ journal' # NoJournal /\ journal'.prefix = ledger
      /\ Installed' = Installed \cup {journal'} /\ OnDisk' = OnDisk
  <2>1. journal' # NoJournal
    BY <1>2, <1>3, JournalTypes DEF OwnJournal
  <2>2. journal'.prefix = ledger
    BY <1>2, <1>3 DEF OwnJournal
  <2>3. QED
    BY <1>2, <2>1, <2>2 DEF Installed, OnDisk
<1>5. PromisedSurvives' /\ WriteAhead' /\ Settled'
  BY <1>1, <1>2, <1>4 DEF Globals, PromisedSurvives, WriteAhead, Settled
<1>6. PromisesResolved'
  BY <1>1, <1>2, <1>4 DEF Globals, PromisesResolved, PromisedSurvives, Resolved, OnDisk
<1>7. PrefixesAgree'
  <2>1. \A c \in OnDisk : IsPrefix(journal'.prefix, c)
    BY <1>1, <1>2, <1>3, <1>4, PrefixOrder DEF Globals, Settled, OnDisk
  <2>2. QED
    BY <1>1, <1>4, <2>1 DEF Globals, PrefixesAgree
<1>8. NewestInstalled'
  <2>1. \A j \in Installed : IsPrefix(j.prefix, ledger)
    BY <1>1 DEF Globals, PrefixesAgree, OnDisk
  <2>2. QED
    BY <1>3, <1>4, <2>1, PrefixOrder DEF NewestInstalled
<1>9. OldResolved'
  BY <1>1, <1>2, <1>4 DEF Globals, OldResolved, Installed, Resolved
<1>10. AtLabel(p)'
  <2>1. (batch[p] # NoBatch /\ ledger = raw[p] /\ journal = OwnJournal(p))'
    BY <1>2, <1>3, NameAssumption DEF OwnJournal
  <2>2. QED
    BY <1>2, <1>3, <1>4, <2>1 DEF AtLabel, WithJournal, WithoutJournal
<1>11. QED
  BY <1>1, <1>2, <1>5, <1>6, <1>7, <1>8, <1>9, <1>10, MoveLabels DEF Globals

\* The directory fsync leaves the disk with the new journal alone.
LEMMA SyncJournalStep ==
    ASSUME IInv, NEW p \in Proc, SyncJournal(p)
    PROVE  Globals' /\ \A q \in Proc : AtLabel(q)'
<1>1. TypeOK /\ Globals /\ \A q \in Proc : AtLabel(q)
  BY DEF IInv, Globals
<1>2. /\ pc[p] = "jsync" /\ pc'[p] = "write" /\ ctx' = ctx /\ lock' = lock
      /\ \A q \in Proc \ {p} : pc'[q] = pc[q]
      /\ journalDisk' = {journal}
      /\ UNCHANGED <<ledger, ledgerDisk, journal, promised, batch, raw>>
  BY <1>1 DEF SyncJournal, Goto, history, TypeOK
<1>3. /\ lock = p /\ journal # NoJournal /\ ctx[p] # "commit"
      /\ batch[p] \in Batch /\ ledger = raw[p] /\ journal = OwnJournal(p)
      /\ ledger \in Contents
  BY <1>1, <1>2 DEF AtLabel, WithJournal, TypeOK
<1>4. Installed' = {journal} /\ journal \in Installed /\ OnDisk' = OnDisk
  BY <1>2, <1>3 DEF Installed, OnDisk
<1>5. Globals'
  BY <1>1, <1>2, <1>3, <1>4
     DEF Globals, PromisedSurvives, PromisesResolved, PrefixesAgree, NewestInstalled,
         OldResolved, WriteAhead, Settled, Resolved
<1>6. AtLabel(p)'
  <2>1. IsPrefix(raw[p], ledger) /\ IsPrefix(ledger, OwnAppend(p))
    BY <1>3, PrefixOrder, ContentsClosed DEF OwnAppend
  <2>2. Len(ledger) - Len(raw[p]) < BatchLen
    <3>1. Len(ledger) \in Nat
      BY <1>3, SMT DEF Contents
    <3>2. QED
      BY <1>3, <3>1, BatchAssumption, SMT
  <2>3. (/\ batch[p] # NoBatch /\ journal = OwnJournal(p) /\ journalDisk = {journal}
         /\ IsPrefix(raw[p], ledger) /\ IsPrefix(ledger, OwnAppend(p))
         /\ Len(ledger) - Len(raw[p]) < BatchLen)'
    BY <1>2, <1>3, <2>1, <2>2, NameAssumption DEF OwnAppend, OwnJournal
  <2>4. QED
    BY <1>2, <1>3, <2>3 DEF AtLabel, WithJournal, WithoutJournal
<1>7. QED
  BY <1>1, <1>2, <1>5, <1>6, MoveLabels

\* A write extends the ledger under a journal that is safely on disk.
LEMMA WriteStep ==
    ASSUME IInv, NEW p \in Proc, WriteChunk(p)
    PROVE  Globals' /\ \A q \in Proc : AtLabel(q)'
<1> DEFINE done == Len(ledger) - Len(raw[p])
<1>1. TypeOK /\ Globals /\ \A q \in Proc : AtLabel(q)
  BY DEF IInv, Globals
<1>2. /\ pc[p] = "write" /\ ctx' = ctx /\ lock' = lock
      /\ pc' = [pc EXCEPT ![p] = IF done + 1 = BatchLen THEN "writesync" ELSE "write"]
      /\ ledger' = Append(ledger, [id |-> batch[p], at |-> done + 1])
      /\ ledgerDisk' = ledgerDisk \cup {ledger'}
      /\ UNCHANGED <<journal, journalDisk, promised, batch, raw>>
  BY DEF WriteChunk, Goto, history
<1>3. /\ lock = p /\ journal # NoJournal /\ ctx[p] # "commit" /\ batch[p] \in Batch
      /\ journal = OwnJournal(p) /\ journalDisk = {journal}
      /\ IsPrefix(raw[p], ledger) /\ IsPrefix(ledger, OwnAppend(p)) /\ done < BatchLen
      /\ ledger \in Contents /\ raw[p] \in Contents /\ promised \subseteq Contents
      /\ journal.prefix \in Contents
  BY <1>1, <1>2, JournalTypes DEF AtLabel, WithJournal, TypeOK
<1>4. /\ ledger' \in Contents /\ IsPrefix(ledger, ledger') /\ IsPrefix(ledger', OwnAppend(p))
      /\ Len(ledger') - Len(raw[p]) = done + 1
      /\ done + 1 = BatchLen => ledger' = OwnAppend(p)
  <2> DEFINE r == raw[p]
             b == batch[p]
             n == ledger'
  <2>1. /\ r \in Contents /\ b \in Batch /\ ledger \in Contents
        /\ IsPrefix(r, ledger) /\ IsPrefix(ledger, r \o Bytes(b))
        /\ Len(ledger) - Len(r) < BatchLen
        /\ n = Append(ledger, [id |-> b, at |-> (Len(ledger) - Len(r)) + 1])
    BY <1>2, <1>3 DEF OwnAppend
  <2> HIDE DEF r, b, n
  <2>2. /\ n \in Contents /\ IsPrefix(ledger, n) /\ IsPrefix(n, r \o Bytes(b))
        /\ Len(n) - Len(r) = (Len(ledger) - Len(r)) + 1
        /\ (Len(ledger) - Len(r)) + 1 = BatchLen => n = r \o Bytes(b)
    BY <2>1, WriteExtends
  <2>3. QED
    BY <2>2 DEF r, b, n, OwnAppend
<1>5. Installed = {journal} /\ Installed' = {journal} /\ OnDisk' \subseteq OnDisk \cup {ledger'}
  BY <1>2, <1>3 DEF Installed, OnDisk
<1> HIDE DEF done
<1>6. PromisedSurvives'
  <2>1. ASSUME NEW s \in promised PROVE IsPrefix(s, ledger')
    <3>1. IsPrefix(s, ledger) /\ s \in Contents
      BY <1>1, <1>3 DEF Globals, PromisedSurvives
    <3>2. QED
      BY <1>3, <1>4, <3>1, PrefixOrder
  <2>2. QED
    BY <1>1, <1>2, <2>1 DEF Globals, PromisedSurvives
<1>7. PrefixesAgree'
  <2>1. IsPrefix(journal.prefix, ledger)
    BY <1>1, <1>5 DEF Globals, PrefixesAgree, OnDisk
  <2>2. IsPrefix(journal.prefix, ledger')
    BY <1>3, <1>4, <2>1, PrefixOrder
  <2>3. QED
    BY <1>1, <1>2, <1>5, <2>2 DEF Globals, PrefixesAgree
<1>8. PromisesResolved' /\ NewestInstalled' /\ OldResolved' /\ WriteAhead' /\ Settled'
  BY <1>1, <1>2, <1>3, <1>5
     DEF Globals, PromisesResolved, NewestInstalled, OldResolved, WriteAhead, Settled, Resolved
<1>9. AtLabel(p)'
  <2>1. IsPrefix(raw[p], ledger')
    BY <1>3, <1>4, PrefixOrder
  <2>2. done + 1 # BatchLen => done + 1 < BatchLen
    <3>1. done \in Int
      BY <1>3, SMT DEF Contents, done
    <3>2. QED
      BY <1>3, <3>1, BatchAssumption, SMT
  <2>3. /\ batch'[p] # NoBatch
        /\ (journal = OwnJournal(p) /\ journalDisk = {journal})'
        /\ IsPrefix(raw'[p], ledger')
        /\ IsPrefix(ledger', OwnAppend(p)') /\ OwnAppend(p)' = OwnAppend(p)
        /\ Len(ledger') - Len(raw'[p]) = done + 1
    BY <1>2, <1>3, <1>4, <2>1, NameAssumption DEF OwnAppend, OwnJournal
  <2>4. pc'[p] = "writesync" => ledger' = OwnAppend(p)'
    BY <1>1, <1>2, <1>4, <2>3 DEF TypeOK
  <2>5. pc'[p] = "write" => Len(ledger') - Len(raw'[p]) < BatchLen
    BY <1>1, <1>2, <2>2, <2>3 DEF TypeOK
  <2>6. pc'[p] \in {"write", "writesync"}
    BY <1>1, <1>2 DEF TypeOK
  <2>7. QED
    BY <1>2, <1>3, <2>3, <2>4, <2>5, <2>6 DEF AtLabel, WithJournal, WithoutJournal
<1>10. \A q \in Proc \ {p} : pc'[q] = pc[q]
  BY <1>1, <1>2 DEF TypeOK
<1>11. QED
  BY <1>1, <1>2, <1>6, <1>7, <1>8, <1>9, <1>10, MoveLabels DEF Globals

-----------------------------------------------------------------------------
\* Faults and the inductive argument

\* The kernel keeps the files of a process that dies, and frees its lock.
LEMMA KillStep ==
    ASSUME IInv, NEW p \in Proc, Kill(p)
    PROVE  Globals' /\ \A q \in Proc : AtLabel(q)'
<1>1. TypeOK /\ Globals /\ \A q \in Proc : AtLabel(q)
  BY DEF IInv, Globals
<1>2. /\ pc'[p] = "idle" /\ ctx'[p] = "open" /\ UNCHANGED <<disk, promised>>
      /\ lock' = IF lock = p THEN NoProc ELSE lock
      /\ \A q \in Proc \ {p} : /\ pc'[q] = pc[q] /\ ctx'[q] = ctx[q]
                               /\ batch'[q] = batch[q] /\ raw'[q] = raw[q]
  BY <1>1 DEF Kill, TypeOK
<1>3. AtLabel(p)'
  BY <1>2, IdleAtLabel
<1>4. ASSUME NEW q \in Proc, q # p PROVE AtLabel(q)'
  <2>1. CASE lock = p
    BY <1>1, <1>2, <1>4, <2>1, OthersAtLabel
  <2>2. CASE lock # p
    BY <1>1, <1>2, <1>4, <2>2, SameAtLabel
  <2>3. QED
    BY <2>1, <2>2
<1>5. QED
  BY <1>1, <1>2, <1>3, <1>4, GlobalsFrame

\* After a power loss one content of each file is left, whichever they are.
LEMMA PowerLossStep ==
    ASSUME IInv, PowerLoss
    PROVE  Globals' /\ \A q \in Proc : AtLabel(q)'
<1>1. TypeOK /\ Globals
  BY DEF IInv, Globals
<1>2. /\ ledger' \in OnDisk /\ ledgerDisk' = {ledger'}
      /\ journalDisk' = {journal'} /\ promised' = promised
      /\ \A q \in Proc : pc'[q] = "idle" /\ ctx'[q] = "open"
      /\ journal' \in Installed \cup {NoJournal}
  BY DEF PowerLoss, OnDisk, Installed
<1>3. /\ OnDisk' = {ledger'} /\ Installed' = {journal'} \ {NoJournal}
      /\ Installed' \subseteq Installed
  BY <1>2 DEF OnDisk, Installed
<1>4. ledger' \in Contents /\ \A j \in Installed : j.prefix \in Contents
  BY <1>1, <1>2, JournalTypes DEF OnDisk, Installed, TypeOK
<1>5. IsPrefix(ledger', ledger') /\ \A j \in Installed : IsPrefix(j.prefix, j.prefix)
  BY <1>4, PrefixOrder
<1>6. PromisedSurvives' /\ PromisesResolved' /\ PrefixesAgree'
  BY <1>1, <1>2, <1>3
     DEF Globals, PromisedSurvives, PromisesResolved, PrefixesAgree, Resolved, OnDisk
<1>7. NewestInstalled' /\ OldResolved' /\ WriteAhead' /\ Settled'
  BY <1>2, <1>3, <1>5 DEF NewestInstalled, OldResolved, WriteAhead, Settled
<1>8. QED
  BY <1>2, <1>6, <1>7, IdleAtLabel DEF Globals

\* The empty ledger satisfies the invariant.
LEMMA InitIInv == Init => IInv
<1> SUFFICES ASSUME Init PROVE IInv
  OBVIOUS
<1>1. TypeOK
  BY ContentsClosed, FaultAssumption, SMT DEF Init, TypeOK, Labels
<1>2. Installed = {} /\ OnDisk = {<<>>} /\ IsPrefix(<<>>, <<>>)
  BY ContentsClosed, PrefixOrder DEF Init, Installed, OnDisk
<1>3. \A q \in Proc : AtLabel(q)
  BY DEF Init, AtLabel, WithJournal, WithoutJournal
<1>4. QED
  BY <1>1, <1>2, <1>3
     DEF Init, IInv, PromisedSurvives, PromisesResolved, PrefixesAgree, NewestInstalled,
         OldResolved, WriteAhead, Settled

\* Every step of the protocol, and every fault, preserves the invariant.
LEMMA Inductive == IInv /\ [Next]_vars => IInv'
<1> SUFFICES ASSUME IInv, [Next]_vars PROVE IInv'
  OBVIOUS
<1>1. TypeOK'
  BY TypeStep
<1>2. Globals' /\ \A q \in Proc : AtLabel(q)'
  <2>1. CASE UNCHANGED vars
    <3>1. Globals /\ \A q \in Proc : AtLabel(q)
      BY DEF IInv, Globals
    <3>2. UNCHANGED <<disk, lock, promised, pc, ctx, batch, raw>>
      BY <2>1 DEF vars, locals, history
    <3>3. QED
      BY <3>1, <3>2, GlobalsFrame, SameAtLabel
  <2>2. CASE PowerLoss
    BY <2>2, PowerLossStep
  <2>3. ASSUME NEW p \in Proc, Start(p) \/ Acquire(p)
        PROVE  Globals' /\ \A q \in Proc : AtLabel(q)'
    BY <2>3, StartStep
  <2>4. ASSUME NEW p \in Proc, Step(p)
        PROVE  Globals' /\ \A q \in Proc : AtLabel(q)'
    BY <2>4, QuietStep, TruncateStep, SyncStep, UnlinkStep, SyncDirectoryStep, ReadStep,
       InstallStep, SyncJournalStep, WriteStep DEF Step
  <2>5. ASSUME NEW p \in Proc, SystemFault(p)
        PROVE  Globals' /\ \A q \in Proc : AtLabel(q)'
    BY <2>5, QuietStep, RemovalFailsStep, KillStep DEF SystemFault
  <2>6. QED
    BY <2>1, <2>2, <2>3, <2>4, <2>5 DEF Next
<1>3. QED
  BY <1>1, <1>2 DEF IInv, Globals

-----------------------------------------------------------------------------
\* Theorems

\* The variables keep their types, under any number of processes and faults.
THEOREM TypeCorrect == Spec => []TypeOK
<1>1. IInv => TypeOK
  BY DEF IInv
<1>2. QED
  BY InitIInv, Inductive, <1>1, PTL DEF Spec

\* What a read returned or an append acknowledged is never lost, whatever the
\* processes do, whatever fails, and whichever contents of the two files a power
\* loss leaves.
THEOREM PromisesSurvive == Spec => []PromisedSurvives
<1>1. IInv => PromisedSurvives
  BY DEF IInv
<1>2. QED
  BY InitIInv, Inductive, <1>1, PTL DEF Spec

-----------------------------------------------------------------------------
\* What callers were told

\* Every content from which the ledger may be read again: what processes see,
\* what the disk may hold, and what a journal would roll back to.
Kept == OnDisk \cup {j.prefix : j \in Installed}

Holds(c, b) == \E i \in 1 .. Len(c) : c[i].id = b
Nowhere(b) == \A c \in Kept : ~Holds(c, b)

\* FollowsExpectedHead of one content
Follows(c) ==
    \A i \in 1 .. Len(c) :
        c[i].at = 1 /\ expected[c[i].id] # Omitted => HeadOf(SubSeq(c, 1, i - 1)) = expected[c[i].id]

\* The labels of an operation that has not written to the ledger
Unwritten(p) == ctx[p] = "open" /\ pc[p] \notin {"write", "writesync"}

\* A batch that is new or was refused has left no trace.
RefusedNowhere == \A b \in Batch : answer[b] \in {"new", "refused"} => Nowhere(b)

\* Nor has one that its process has not started to write.
UnwrittenNowhere == \A p \in Proc : batch[p] \in Batch /\ Unwritten(p) => Nowhere(batch[p])

\* A process waits for the answer about its batch, and it alone.
OwnBatch ==
    \A p \in Proc : batch[p] \in Batch =>
        /\ answer[batch[p]] = "pending"
        /\ \A q \in Proc \ {p} : batch[q] # batch[p]

\* Past recovery an operation is its own, and its batch was accepted at the
\* head of the ledger it extends.
AcceptedAt(p) ==
    /\ pc[p] \in {"idle", "wait", "load", "journal", "jsync", "write", "writesync"} => ctx[p] = "open"
    /\ pc[p] \in {"journal", "jsync", "write"} => expected[batch[p]] \in {Omitted, HeadOf(raw[p])}

HInv ==
    /\ RefusedNowhere
    /\ UnwrittenNowhere
    /\ OwnBatch
    /\ \A p \in Proc : AcceptedAt(p)
    /\ \A c \in Kept : Follows(c)

-----------------------------------------------------------------------------
\* What a step does to the contents

\* Only a write adds a content; every other step goes back to one there was.
LEMMA KeptShrinks ==
    ASSUME IInv, [Next]_vars, \A p \in Proc : ~WriteChunk(p)
    PROVE  Kept' \subseteq Kept
<1> USE DEF Kept, OnDisk, Installed, disk
<1>0. TypeOK /\ \A p \in Proc : AtLabel(p)
  BY DEF IInv
<1>1. CASE UNCHANGED <<ledger, ledgerDisk, journal, journalDisk>>
  BY <1>1
<1>2. CASE PowerLoss
  BY <1>2 DEF PowerLoss
<1>3. ASSUME NEW p \in Proc, Truncate(p) PROVE Kept' \subseteq Kept
  <2>1. journal # NoJournal
    BY <1>0, <1>3 DEF Truncate, AtLabel, WithJournal
  <2>2. ledger' = journal.prefix /\ ledgerDisk' = ledgerDisk \cup {ledger'}
        /\ UNCHANGED <<journal, journalDisk>>
    BY <1>3 DEF Truncate
  <2>3. QED
    BY <2>1, <2>2
<1>4. ASSUME NEW p \in Proc, SyncTruncated(p) \/ SyncComplete(p) \/ SyncAppend(p)
      PROVE  Kept' \subseteq Kept
  BY <1>4 DEF SyncTruncated, SyncComplete, SyncAppend, Synced
<1>5. ASSUME NEW p \in Proc, Unlink(p) \/ SyncDirectory(p) \/ SyncJournal(p)
      PROVE  Kept' \subseteq Kept
  BY <1>5 DEF Unlink, SyncDirectory, SyncJournal
<1>6. ASSUME NEW p \in Proc, InstallJournal(p) PROVE Kept' \subseteq Kept
  <2>1. raw[p] = ledger
    BY <1>0, <1>6 DEF InstallJournal, AtLabel
  <2>2. journal'.prefix = ledger /\ journalDisk' = journalDisk \cup {journal'}
        /\ UNCHANGED <<ledger, ledgerDisk>>
    BY <1>6, <2>1 DEF InstallJournal
  <2>3. QED
    BY <2>2
<1>7. ASSUME NEW p \in Proc, Start(p) \/ Acquire(p) \/ SystemFault(p)
      PROVE  UNCHANGED <<ledger, ledgerDisk, journal, journalDisk>>
  BY <1>7 DEF Start, StartRead, StartAppend, Acquire, SystemFault, RecoveryFails, RemovalFails,
              PrepareFails, AppendFails, Kill
<1>8. ASSUME NEW p \in Proc,
             \/ RecoverNothing(p) \/ Recover(p) \/ LoadCorrupt(p) \/ Read(p)
             \/ RefuseBatch(p) \/ AcceptBatch(p)
      PROVE  UNCHANGED <<ledger, ledgerDisk, journal, journalDisk>>
  BY <1>8 DEF RecoverNothing, Recover, LoadCorrupt, Read, RefuseBatch, AcceptBatch
<1>9. QED
  BY <1>1, <1>2, <1>3, <1>4, <1>5, <1>6, <1>7, <1>8 DEF Next, Step, vars

\* Contents, whichever way they are kept, are sequences of chunks.
LEMMA KeptTypes == TypeOK => Kept \subseteq Contents
BY JournalTypes DEF TypeOK, Kept, OnDisk, Installed

\* What was nowhere stays nowhere, and what followed its head goes on to.
LEMMA Shrinking ==
    ASSUME TypeOK, Kept' \subseteq Kept
    PROVE  /\ \A b \in Batch : Nowhere(b) => Nowhere(b)'
           /\ UNCHANGED expected => \A c \in Kept' : Follows(c) => Follows(c)'
BY DEF Nowhere, Follows, Holds, HeadOf

-----------------------------------------------------------------------------
\* Steps that write nothing

\* A process moves on, with the same batch.
LEMMA MoveStep ==
    ASSUME IInv, HInv, Kept' \subseteq Kept, NEW p \in Proc,
           UNCHANGED <<batch, answer, expected>>,
           \A q \in Proc \ {p} : pc'[q] = pc[q] /\ ctx'[q] = ctx[q] /\ raw'[q] = raw[q],
           Unwritten(p)' => Unwritten(p),
           AcceptedAt(p)'
    PROVE  HInv'
<1>1. TypeOK
  BY DEF IInv
<1>2. RefusedNowhere' /\ OwnBatch'
  BY <1>1, Shrinking DEF HInv, RefusedNowhere, OwnBatch
<1>3. UnwrittenNowhere'
  <2>1. ASSUME NEW q \in Proc, batch'[q] \in Batch, Unwritten(q)' PROVE Unwritten(q)
    BY <2>1 DEF Unwritten
  <2>2. QED
    BY <1>1, <2>1, Shrinking DEF HInv, UnwrittenNowhere
<1>4. \A q \in Proc : AcceptedAt(q)'
  BY DEF HInv, AcceptedAt
<1>5. \A c \in Kept' : Follows(c)'
  BY <1>1, Shrinking DEF HInv
<1>6. QED
  BY <1>2, <1>3, <1>4, <1>5 DEF HInv

\* A process ends its operation with answer a.
LEMMA EndStep ==
    ASSUME IInv, HInv, Kept' \subseteq Kept, NEW p \in Proc, NEW a, Finish(p), Tell(p, a),
           UNCHANGED expected,
           a = "refused" => Unwritten(p),
           a # "new"
    PROVE  HInv'
<1>1. TypeOK
  BY DEF IInv
<1>2. /\ \A q \in Proc \ {p} : pc'[q] = pc[q] /\ ctx'[q] = ctx[q] /\ raw'[q] = raw[q]
                               /\ batch'[q] = batch[q]
      /\ pc'[p] = "idle" /\ ctx'[p] = "open" /\ batch'[p] = NoBatch
  BY <1>1 DEF Finish, TypeOK
<1>3. /\ \A b \in Batch \ {batch[p]} : answer'[b] = answer[b]
      /\ batch[p] \in Batch => answer'[batch[p]] = a
  BY <1>1, NameAssumption DEF Tell, TypeOK
<1>4. RefusedNowhere'
  <2> SUFFICES ASSUME NEW b \in Batch, answer'[b] \in {"new", "refused"} PROVE Nowhere(b)'
    BY DEF RefusedNowhere
  <2>1. Nowhere(b)
    BY <1>3 DEF HInv, RefusedNowhere, UnwrittenNowhere
  <2>2. QED
    BY <1>1, <2>1, Shrinking
<1>5. UnwrittenNowhere'
  <2> SUFFICES ASSUME NEW q \in Proc, batch'[q] \in Batch, Unwritten(q)' PROVE Nowhere(batch[q])'
    BY DEF UnwrittenNowhere
  <2>1. q # p /\ Unwritten(q) /\ batch'[q] = batch[q]
    BY <1>2, NameAssumption DEF Unwritten
  <2>2. Nowhere(batch[q])
    BY <2>1 DEF HInv, UnwrittenNowhere
  <2>3. QED
    BY <1>1, <2>1, <2>2, Shrinking
<1>6. OwnBatch'
  BY <1>2, <1>3, NameAssumption DEF HInv, OwnBatch
<1>7. \A q \in Proc : AcceptedAt(q)'
  BY <1>2 DEF HInv, AcceptedAt
<1>8. \A c \in Kept' : Follows(c)'
  BY <1>1, Shrinking DEF HInv
<1>9. QED
  BY <1>4, <1>5, <1>6, <1>7, <1>8 DEF HInv

\* A command starts or gets the lock; the batch it starts with is new.
LEMMA BeginStep ==
    ASSUME IInv, HInv, Kept' \subseteq Kept, NEW p \in Proc, Start(p) \/ Acquire(p)
    PROVE  HInv'
<1>1. TypeOK
  BY DEF IInv
<1>2. CASE StartRead(p) \/ Acquire(p)
  <2>1. /\ UNCHANGED <<batch, answer, expected, ctx, raw>> /\ pc[p] \in {"idle", "wait"}
        /\ \A q \in Proc \ {p} : pc'[q] = pc[q]
        /\ pc'[p] \in {"wait", "recover"}
    BY <1>1, <1>2 DEF StartRead, Acquire, Goto, history, TypeOK
  <2>2. AcceptedAt(p)'
    BY <2>1 DEF HInv, AcceptedAt
  <2>3. QED
    BY <2>1, <2>2, MoveStep DEF Unwritten
<1>3. ASSUME NEW b \in Batch, NEW e \in Batch \cup {NoBatch, Omitted}, StartAppend(p, b, e)
      PROVE  HInv'
  <2>1. /\ UNCHANGED <<ctx, raw>> /\ pc[p] = "idle" /\ answer[b] = "new"
        /\ pc' = [pc EXCEPT ![p] = "wait"]
        /\ batch' = [batch EXCEPT ![p] = b]
        /\ expected' = [expected EXCEPT ![b] = e]
        /\ answer' = [answer EXCEPT ![b] = "pending"]
    BY <1>3 DEF StartAppend, Goto
  <2>2. Nowhere(b) /\ \A q \in Proc : batch[q] # b
    BY <2>1 DEF HInv, RefusedNowhere, OwnBatch
  <2>3. RefusedNowhere'
    BY <1>1, <2>1, Shrinking DEF HInv, RefusedNowhere, TypeOK
  <2>4. UnwrittenNowhere'
    <3> SUFFICES ASSUME NEW q \in Proc, batch'[q] \in Batch, Unwritten(q)'
                 PROVE  Nowhere(batch[q])'
      BY DEF UnwrittenNowhere
    <3>1. CASE q = p
      BY <1>1, <2>1, <2>2, <3>1, Shrinking DEF TypeOK
    <3>2. CASE q # p
      <4>1. batch'[q] = batch[q] /\ Unwritten(q)
        BY <1>1, <2>1, <3>2 DEF TypeOK, Unwritten
      <4>2. Nowhere(batch[q])
        BY <4>1 DEF HInv, UnwrittenNowhere
      <4>3. QED
        BY <1>1, <4>1, <4>2, Shrinking
    <3>3. QED
      BY <3>1, <3>2
  <2>5. OwnBatch'
    BY <1>1, <2>1, <2>2 DEF HInv, OwnBatch, TypeOK
  <2>6. \A q \in Proc : AcceptedAt(q)'
    <3> SUFFICES ASSUME NEW q \in Proc PROVE AcceptedAt(q)'
      OBVIOUS
    <3>1. CASE q = p
      BY <1>1, <2>1, <3>1 DEF HInv, AcceptedAt, TypeOK
    <3>2. CASE q # p
      <4>1. pc'[q] = pc[q] /\ batch'[q] = batch[q] /\ expected'[batch[q]] = expected[batch[q]]
        BY <1>1, <2>1, <2>2, <3>2 DEF TypeOK
      <4>2. QED
        BY <2>1, <4>1 DEF HInv, AcceptedAt
    <3>3. QED
      BY <3>1, <3>2
  <2>7. \A c \in Kept' : Follows(c)'
    <3> SUFFICES ASSUME NEW c \in Kept', NEW i \in 1 .. Len(c), c[i].at = 1,
                        expected'[c[i].id] # Omitted
                 PROVE  HeadOf(SubSeq(c, 1, i - 1)) = expected'[c[i].id]
      BY DEF Follows, HeadOf
    <3>1. c \in Kept /\ Follows(c) /\ c[i].id # b
      BY <2>2 DEF HInv, Nowhere, Holds
    <3>2. expected'[c[i].id] = expected[c[i].id]
      BY <1>1, <2>1, <3>1 DEF TypeOK
    <3>3. QED
      BY <3>1, <3>2 DEF Follows
  <2>8. QED
    BY <2>3, <2>4, <2>5, <2>6, <2>7 DEF HInv
<1>4. QED
  BY <1>2, <1>3 DEF Start

\* A process goes on in recovery or towards its append, or begins to undo it.
LEMMA MovingSteps ==
    ASSUME IInv, HInv, Kept' \subseteq Kept, NEW p \in Proc,
           \/ Truncate(p) \/ SyncTruncated(p) \/ SyncComplete(p) \/ Unlink(p) \/ AcceptBatch(p)
           \/ InstallJournal(p) \/ SyncJournal(p) \/ SyncAppend(p) \/ AppendFails(p)
    PROVE  HInv'
<1>1. TypeOK /\ AcceptedAt(p)
  BY DEF IInv, HInv
<1>2. /\ UNCHANGED <<batch, answer, expected>>
      /\ \A q \in Proc \ {p} : pc'[q] = pc[q] /\ ctx'[q] = ctx[q] /\ raw'[q] = raw[q]
  BY <1>1 DEF Truncate, SyncTruncated, SyncComplete, Unlink, AcceptBatch, InstallJournal,
       SyncJournal, SyncAppend, AppendFails, Goto, history, TypeOK
<1>3. CASE AcceptBatch(p)
  <2>1. /\ pc[p] = "load" /\ pc'[p] = "journal" /\ UNCHANGED <<ledger, ctx>>
        /\ raw'[p] = ledger /\ expected[batch[p]] \in {Omitted, HeadOf(ledger)}
    BY <1>1, <1>3 DEF AcceptBatch, HeadMatches, Goto, disk, TypeOK
  <2>2. AcceptedAt(p)' /\ (Unwritten(p)' => Unwritten(p))
    BY <1>1, <1>2, <2>1 DEF AcceptedAt, Unwritten, HeadOf
  <2>3. QED
    BY <1>2, <2>2, MoveStep
<1>4. CASE ~AcceptBatch(p)
  <2>1. /\ raw'[p] = raw[p]
        /\ \/ pc[p] \in {"truncate", "truncsync", "sync", "unlink"} /\ ctx'[p] = ctx[p]
              /\ pc'[p] \in {"truncsync", "unlink", "dirsync"}
           \/ pc[p] = "journal" /\ pc'[p] = "jsync" /\ ctx'[p] = ctx[p]
           \/ pc[p] = "jsync" /\ pc'[p] = "write" /\ ctx'[p] = ctx[p]
           \/ pc'[p] \in {"unlink", "recover"} /\ ctx'[p] \in {"commit", "undo"}
    BY <1>1, <1>4 DEF Truncate, SyncTruncated, SyncComplete, Unlink, InstallJournal,
         SyncJournal, SyncAppend, AppendFails, Goto, TypeOK
  <2>2. AcceptedAt(p)' /\ (Unwritten(p)' => Unwritten(p))
    BY <1>1, <1>2, <2>1 DEF AcceptedAt, Unwritten, HeadOf
  <2>3. QED
    BY <1>2, <2>2, MoveStep
<1>5. QED
  BY <1>3, <1>4

\* A process whose recovery has more to do, or ends, or ends the operation.
LEMMA RecoveringSteps ==
    ASSUME IInv, HInv, Kept' \subseteq Kept, NEW p \in Proc,
           RecoverNothing(p) \/ Recover(p) \/ SyncDirectory(p)
    PROVE  HInv'
<1> USE DEF history
<1>1. TypeOK /\ AcceptedAt(p)
  BY DEF IInv, HInv
<1>2. ASSUME NEW v \in {"truncate", "sync", "unlink", "load"}, v = "load" => ctx[p] = "open",
             pc' = [pc EXCEPT ![p] = v], ctx' = ctx, batch' = batch, raw' = raw,
             answer' = answer, expected' = expected
      PROVE  HInv'
  <2>1. pc[p] \in {"recover", "dirsync"}
    BY DEF RecoverNothing, Recover, SyncDirectory
  <2>2. AcceptedAt(p)' /\ (Unwritten(p)' => Unwritten(p))
    BY <1>1, <1>2, <2>1 DEF AcceptedAt, Unwritten, TypeOK
  <2>3. \A q \in Proc \ {p} : pc'[q] = pc[q] /\ ctx'[q] = ctx[q] /\ raw'[q] = raw[q]
    BY <1>1, <1>2 DEF TypeOK
  <2>4. QED
    BY <1>2, <2>2, <2>3, MoveStep
<1>3. ASSUME Doubt(p) \/ Acknowledge(p) \/ (ctx[p] = "open" /\ Refuse(p)) PROVE HInv'
  <2>1. pc[p] \in {"recover", "dirsync"}
    BY DEF RecoverNothing, Recover, SyncDirectory
  <2>2. QED
    BY <1>3, <2>1, EndStep DEF Doubt, Acknowledge, Refuse, Unwritten
<1>4. CASE Recovered(p)
  <2>1. CASE ctx[p] = "open"
    <3>1. /\ pc' = [pc EXCEPT ![p] = "load"]
          /\ ctx' = ctx /\ batch' = batch /\ raw' = raw
          /\ answer' = answer /\ expected' = expected
      BY <1>4, <2>1 DEF Recovered, Goto
    <3>2. QED
      BY <1>2, <2>1, <3>1
  <2>2. CASE ctx[p] # "open"
    BY <1>3, <1>4, <2>2 DEF Recovered
  <2>3. QED
    BY <2>1, <2>2
<1>5. CASE Recover(p)
  <2>1. Verdict(ledger, journal) \in {"unlink", "truncate", "sync", "corrupt"}
    BY DEF Verdict
  <2>2. CASE Verdict(ledger, journal) = "corrupt"
    BY <1>3, <1>5, <2>2 DEF Recover, RecoveryRaises
  <2>3. CASE Verdict(ledger, journal) # "corrupt"
    <3>1. /\ pc' = [pc EXCEPT ![p] = Verdict(ledger, journal)]
          /\ ctx' = ctx /\ batch' = batch /\ raw' = raw
          /\ answer' = answer /\ expected' = expected
      BY <1>5, <2>3 DEF Recover, Goto
    <3>2. QED
      BY <1>2, <2>1, <2>3, <3>1
  <2>4. QED
    BY <2>2, <2>3
<1>6. QED
  BY <1>3, <1>4, <1>5 DEF RecoverNothing, SyncDirectory

\* An operation ends: the batch is refused only if nothing of it was written.
LEMMA EndingSteps ==
    ASSUME IInv, HInv, Kept' \subseteq Kept, NEW p \in Proc,
           \/ LoadCorrupt(p) \/ Read(p) \/ RefuseBatch(p)
           \/ RecoveryFails(p) \/ RemovalFails(p) \/ PrepareFails(p)
    PROVE  HInv'
<1>1. TypeOK /\ AcceptedAt(p)
  BY DEF IInv, HInv
<1>2. CASE Read(p)
  <2>1. Finish(p) /\ batch[p] = NoBatch /\ UNCHANGED <<expected, answer>>
    BY <1>2 DEF Read
  <2>2. Tell(p, "unclear")
    BY <2>1 DEF Tell
  <2>3. QED
    BY <2>1, <2>2, EndStep
<1>3. CASE Doubt(p) \/ Acknowledge(p)
  BY <1>3, EndStep DEF Doubt, Acknowledge
<1>4. CASE Refuse(p) /\ (ctx[p] = "open" \/ pc[p] \in {"load", "journal", "jsync"})
           /\ pc[p] \notin {"write", "writesync"}
  <2>1. Unwritten(p)
    BY <1>1, <1>4 DEF AcceptedAt, Unwritten
  <2>2. QED
    BY <1>4, <2>1, EndStep DEF Refuse
<1>5. QED
  BY <1>2, <1>3, <1>4
     DEF LoadCorrupt, RefuseBatch, RecoveryFails, RemovalFails, PrepareFails, RecoveryRaises

\* A process dies: what becomes of its batch is unclear.
LEMMA KillHistory ==
    ASSUME IInv, HInv, Kept' \subseteq Kept, NEW p \in Proc, Kill(p)
    PROVE  HInv'
<1>1. TypeOK
  BY DEF IInv
<1>2. /\ \A q \in Proc \ {p} : pc'[q] = pc[q] /\ ctx'[q] = ctx[q] /\ raw'[q] = raw[q]
                               /\ batch'[q] = batch[q]
      /\ pc'[p] = "idle" /\ ctx'[p] = "open" /\ batch'[p] = NoBatch
      /\ UNCHANGED expected
  BY <1>1 DEF Kill, TypeOK
<1>3. /\ \A b \in Batch \ {batch[p]} : answer'[b] = answer[b]
      /\ batch[p] \in Batch => answer'[batch[p]] = "unclear"
  BY <1>1, NameAssumption DEF Kill, Tell, TypeOK
<1>4. RefusedNowhere'
  BY <1>1, <1>3, Shrinking DEF HInv, RefusedNowhere
<1>5. UnwrittenNowhere'
  <2> SUFFICES ASSUME NEW q \in Proc, batch'[q] \in Batch, Unwritten(q)' PROVE Nowhere(batch[q])'
    BY DEF UnwrittenNowhere
  <2>1. q # p /\ Unwritten(q) /\ batch'[q] = batch[q]
    BY <1>2, NameAssumption DEF Unwritten
  <2>2. Nowhere(batch[q])
    BY <2>1 DEF HInv, UnwrittenNowhere
  <2>3. QED
    BY <1>1, <2>1, <2>2, Shrinking
<1>6. OwnBatch'
  BY <1>2, <1>3, NameAssumption DEF HInv, OwnBatch
<1>7. \A q \in Proc : AcceptedAt(q)'
  BY <1>2 DEF HInv, AcceptedAt
<1>8. \A c \in Kept' : Follows(c)'
  BY <1>1, <1>2, Shrinking DEF HInv
<1>9. QED
  BY <1>4, <1>5, <1>6, <1>7, <1>8 DEF HInv

\* The power fails: no process is left, and the disk held nothing that was nowhere.
LEMMA PowerHistory ==
    ASSUME IInv, HInv, Kept' \subseteq Kept, PowerLoss
    PROVE  HInv'
<1>1. TypeOK
  BY DEF IInv
<1>2. /\ pc' = [p \in Proc |-> "idle"] /\ ctx' = [p \in Proc |-> "open"]
      /\ batch' = [p \in Proc |-> NoBatch]
      /\ answer' = [b \in Batch |-> IF answer[b] = "pending" THEN "unclear" ELSE answer[b]]
      /\ UNCHANGED expected
  BY DEF PowerLoss
<1>3. RefusedNowhere'
  BY <1>1, <1>2, Shrinking DEF HInv, RefusedNowhere
<1>4. UnwrittenNowhere' /\ OwnBatch' /\ \A q \in Proc : AcceptedAt(q)'
  BY <1>2, NameAssumption DEF UnwrittenNowhere, OwnBatch, AcceptedAt
<1>5. \A c \in Kept' : Follows(c)'
  BY <1>1, <1>2, Shrinking DEF HInv
<1>6. QED
  BY <1>3, <1>4, <1>5 DEF HInv

-----------------------------------------------------------------------------
\* The step that writes

\* One chunk more: what was nowhere stays nowhere unless it is the chunk's batch,
\* and every earlier chunk still follows what it followed.
LEMMA AppendedChunk ==
    ASSUME NEW c \in Contents, NEW x \in Chunk, NEW n, n = Append(c, x)
    PROVE  /\ \A b \in Batch : b # x.id /\ ~Holds(c, b) => ~Holds(n, b)
           /\ Follows(c) /\ (x.at = 1 => expected[x.id] \in {Omitted, HeadOf(c)}) => Follows(n)
<1>1. /\ Len(c) \in Nat /\ Len(n) = Len(c) + 1 /\ n[Len(n)] = x
      /\ \A i \in 1 .. Len(c) : n[i] = c[i]
  BY SMT DEF Contents
<1>2. ASSUME NEW i \in 1 .. Len(n) PROVE SubSeq(n, 1, i - 1) = SubSeq(c, 1, i - 1)
  BY <1>1, <1>2, SMT DEF Contents
<1>3. SubSeq(c, 1, Len(c)) = c
  BY SMT DEF Contents
<1>4. \A i \in 1 .. Len(n) : i \in 1 .. Len(c) \/ (i = Len(n) /\ i - 1 = Len(c))
  BY <1>1, SMT
<1>5. ASSUME NEW b \in Batch, b # x.id, ~Holds(c, b) PROVE ~Holds(n, b)
  BY <1>1, <1>4, <1>5 DEF Holds
<1>6. ASSUME Follows(c), x.at = 1 => expected[x.id] \in {Omitted, HeadOf(c)}
      PROVE  Follows(n)
  <2> SUFFICES ASSUME NEW i \in 1 .. Len(n), n[i].at = 1, expected[n[i].id] # Omitted
               PROVE  HeadOf(SubSeq(n, 1, i - 1)) = expected[n[i].id]
    BY DEF Follows
  <2>1. CASE i \in 1 .. Len(c)
    <3>1. n[i] = c[i] /\ SubSeq(n, 1, i - 1) = SubSeq(c, 1, i - 1)
      BY <1>1, <1>2, <2>1
    <3>2. HeadOf(SubSeq(c, 1, i - 1)) = expected[c[i].id]
      BY <1>6, <2>1, <3>1 DEF Follows
    <3>3. QED
      BY <3>1, <3>2
  <2>2. CASE i = Len(n) /\ i - 1 = Len(c)
    <3>1. SubSeq(n, 1, i - 1) = c /\ n[i] = x
      BY <1>1, <1>2, <1>3, <2>2
    <3>2. QED
      BY <1>6, <3>1
  <2>3. QED
    BY <1>4, <2>1, <2>2
<1>7. QED
  BY <1>5, <1>6

\* A process writes a chunk of a batch that it was admitted with.
LEMMA WriteHistory ==
    ASSUME IInv, HInv, NEW p \in Proc, WriteChunk(p)
    PROVE  HInv'
<1> DEFINE x == [id |-> batch[p], at |-> (Len(ledger) - Len(raw[p])) + 1]
<1>1. TypeOK /\ AtLabel(p) /\ AcceptedAt(p) /\ pc[p] = "write"
  BY DEF IInv, HInv, WriteChunk
<1>2. /\ batch[p] \in Batch /\ raw[p] \in Contents /\ ledger \in Contents
      /\ IsPrefix(raw[p], ledger) /\ Len(ledger) - Len(raw[p]) < BatchLen
  BY <1>1 DEF AtLabel, TypeOK
<1>3. /\ ledger' = Append(ledger, x)
      /\ pc'[p] \in {"write", "writesync"}
      /\ \A q \in Proc \ {p} : pc'[q] = pc[q]
      /\ UNCHANGED <<ctx, batch, raw, answer, expected>>
  BY <1>1 DEF WriteChunk, Goto, history, TypeOK
<1>4. x \in Chunk
  <2>1. Len(raw[p]) \in Nat /\ Len(ledger) \in Nat /\ Len(raw[p]) <= Len(ledger)
    BY <1>2, PrefixPointwise, SMT DEF Contents
  <2>2. (Len(ledger) - Len(raw[p])) + 1 \in 1 .. BatchLen
    BY <1>2, <2>1, BatchAssumption, SMT
  <2>3. QED
    BY <1>2, <2>2 DEF Chunk
<1>5. x.at = 1 => ledger = raw[p]
  <2>1. /\ Len(raw[p]) \in Nat /\ Len(ledger) \in Nat
        /\ \A i \in 1 .. Len(raw[p]) : raw[p][i] = ledger[i]
    BY <1>2, PrefixPointwise, SMT DEF Contents
  <2>2. x.at = 1 => Len(ledger) = Len(raw[p])
    BY <2>1, SMT
  <2>3. Len(ledger) = Len(raw[p]) => ledger = raw[p]
    BY <1>2, <2>1, SMT DEF Contents
  <2>4. QED
    BY <2>2, <2>3
<1>6. x.id = batch[p] /\ expected[x.id] \in {Omitted, HeadOf(raw[p])}
  BY <1>1 DEF AcceptedAt
<1> HIDE DEF x
<1>7. Kept' \subseteq Kept \cup {ledger'} /\ ledger \in Kept
  BY DEF WriteChunk, Kept, OnDisk, Installed
<1>8. Follows(ledger') /\ \A b \in Batch : b # batch[p] /\ Nowhere(b) => Nowhere(b)'
  <2>1. Follows(ledger)
    BY <1>7 DEF HInv
  <2>2. Follows(ledger')
    BY <1>2, <1>3, <1>4, <1>5, <1>6, <2>1, AppendedChunk
  <2>3. ASSUME NEW b \in Batch, b # batch[p], Nowhere(b) PROVE Nowhere(b)'
    <3>1. ~Holds(ledger', b)
      BY <1>2, <1>3, <1>4, <1>6, <1>7, <2>3, AppendedChunk DEF Nowhere
    <3>2. QED
      BY <1>7, <2>3, <3>1 DEF Nowhere, Holds
  <2>4. QED
    BY <2>2, <2>3
<1>9. RefusedNowhere'
  BY <1>2, <1>3, <1>8 DEF HInv, RefusedNowhere, OwnBatch
<1>10. UnwrittenNowhere'
  <2> SUFFICES ASSUME NEW q \in Proc, batch'[q] \in Batch, Unwritten(q)' PROVE Nowhere(batch[q])'
    BY DEF UnwrittenNowhere
  <2>1. q # p /\ Unwritten(q) /\ batch'[q] = batch[q]
    BY <1>3 DEF Unwritten
  <2>2. batch[q] # batch[p] /\ Nowhere(batch[q])
    BY <1>2, <2>1 DEF HInv, UnwrittenNowhere, OwnBatch
  <2>3. QED
    BY <1>8, <2>1, <2>2
<1>11. OwnBatch' /\ \A q \in Proc : AcceptedAt(q)'
  <2>1. AcceptedAt(p)'
    BY <1>1, <1>3 DEF AcceptedAt, HeadOf
  <2>2. QED
    BY <1>3, <2>1 DEF HInv, OwnBatch, AcceptedAt, HeadOf
<1>12. \A c \in Kept' : Follows(c)'
  <2>1. \A c \in Kept' : Follows(c)
    BY <1>7, <1>8 DEF HInv
  <2>2. QED
    BY <1>3, <2>1 DEF Follows, HeadOf
<1>13. QED
  BY <1>9, <1>10, <1>11, <1>12 DEF HInv

-----------------------------------------------------------------------------
\* Theorems

\* Every step of the protocol, and every fault, preserves the history.
LEMMA HistoryStep == IInv /\ HInv /\ [Next]_vars => HInv'
<1> SUFFICES ASSUME IInv, HInv, [Next]_vars PROVE HInv'
  OBVIOUS
<1>1. ASSUME NEW p \in Proc, WriteChunk(p) PROVE HInv'
  BY <1>1, WriteHistory
<1>2. ASSUME \A p \in Proc : ~WriteChunk(p) PROVE HInv'
  <2>1. Kept' \subseteq Kept
    BY <1>2, KeptShrinks
  <2>2. CASE UNCHANGED vars
    <3>1. /\ answer' = answer /\ batch' = batch /\ pc' = pc /\ ctx' = ctx /\ raw' = raw
          /\ expected' = expected
      BY <2>2 DEF vars, locals, history
    <3>2. \A b : Nowhere(b) => Nowhere(b)'
      BY <2>1 DEF Nowhere, Holds
    <3>3. \A c \in Kept' : Follows(c)'
      BY <2>1, <3>1 DEF HInv, Follows, HeadOf
    <3>4. RefusedNowhere' /\ UnwrittenNowhere'
      BY <3>1, <3>2 DEF HInv, RefusedNowhere, UnwrittenNowhere, Unwritten, Nowhere, Holds
    <3>5. OwnBatch' /\ \A p \in Proc : AcceptedAt(p)'
      BY <3>1 DEF HInv, OwnBatch, AcceptedAt, HeadOf
    <3>6. QED
      BY <3>3, <3>4, <3>5 DEF HInv
  <2>3. CASE PowerLoss
    BY <2>1, <2>3, PowerHistory
  <2>4. ASSUME NEW p \in Proc, Start(p) \/ Acquire(p) PROVE HInv'
    BY <2>1, <2>4, BeginStep
  <2>5. ASSUME NEW p \in Proc, Step(p) PROVE HInv'
    BY <1>2, <2>1, <2>5, MovingSteps, RecoveringSteps, EndingSteps DEF Step
  <2>6. ASSUME NEW p \in Proc, SystemFault(p) PROVE HInv'
    BY <2>1, <2>6, MovingSteps, EndingSteps, KillHistory DEF SystemFault
  <2>7. QED
    BY <2>2, <2>3, <2>4, <2>5, <2>6 DEF Next
<1>3. QED
  BY <1>1, <1>2

\* At the start the ledger is empty and no batch was submitted.
LEMMA InitHInv == Init => HInv
<1> SUFFICES ASSUME Init PROVE HInv
  OBVIOUS
<1>1. Kept = {<<>>}
  BY DEF Init, Kept, OnDisk, Installed
<1>2. \A b \in Batch : Nowhere(b)
  BY <1>1, SMT DEF Nowhere, Holds
<1>3. \A c \in Kept : Follows(c)
  BY <1>1, SMT DEF Follows
<1>4. QED
  BY <1>2, <1>3, NameAssumption
     DEF Init, HInv, RefusedNowhere, UnwrittenNowhere, OwnBatch, AcceptedAt

\* A batch that append_batch refused never shows up in the ledger, neither now nor
\* after any later recovery or power loss, whatever the refusal left behind.
THEOREM RefusalIsFinal == Spec => []RefusedNeverAppears
<1>1. IInv /\ HInv => RefusedNeverAppears
  BY DEF HInv, RefusedNowhere, Nowhere, Holds, Kept, OnDisk, RefusedNeverAppears
<1>2. QED
  BY InitIInv, Inductive, InitHInv, HistoryStep, <1>1, PTL DEF Spec

\* A batch that was submitted with an expected head directly follows that head,
\* whichever process completed the append.
THEOREM HeadsAreKept == Spec => []FollowsExpectedHead
<1>1. IInv /\ HInv => FollowsExpectedHead
  BY DEF HInv, Follows, Kept, OnDisk, FollowsExpectedHead
<1>2. QED
  BY InitIInv, Inductive, InitHInv, HistoryStep, <1>1, PTL DEF Spec

=============================================================================
