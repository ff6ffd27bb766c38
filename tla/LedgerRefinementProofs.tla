----------------------- MODULE LedgerRefinementProofs -----------------------
(***************************************************************************)
(* LedgerStore implements AtomicLog, and its files can be resolved at      *)
(* every instant, for all processes, batches, batch lengths and numbers of *)
(* faults, unless a rollback dies before its fsync (fault kind "torn").    *)
(***************************************************************************)
EXTENDS LedgerStoreProofs, LedgerRefinement

-----------------------------------------------------------------------------
\* Whole contents and their batches

\* Arithmetic of lengths that are multiples of the batch length.
LEMMA Multiples ==
    ASSUME NEW L \in Nat \ {0}
    PROVE  /\ \A k \in Nat : (k * L) \div L = k /\ (k + 1) * L = k * L + L
           /\ \A n \in Nat : \A i \in 1 .. (n \div L) : i * L \in 1 .. n
           /\ \A k \in Nat : \A i \in 1 .. L : (k * L + i - 1) % L = i - 1
<1>1. ASSUME NEW k \in Nat PROVE (k * L) \div L = k /\ (k + 1) * L = k * L + L
  OBVIOUS
<1>2. ASSUME NEW n \in Nat, NEW i \in 1 .. (n \div L) PROVE i * L \in 1 .. n
  OBVIOUS
<1>3. ASSUME NEW k \in Nat, NEW i \in 1 .. L PROVE (k * L + i - 1) % L = i - 1
  OBVIOUS
<1>4. QED
  BY <1>1, <1>2, <1>3

\* A whole content has a number of batches.
LEMMA WholeLength ==
    ASSUME NEW c \in Contents, WholeBatches(c)
    PROVE  \E k \in Nat : Len(c) = k * BatchLen
<1>1. BatchLen \in Nat \ {0} /\ Len(c) \in Nat
  BY BatchAssumption DEF Contents
<1>2. CASE Len(c) = 0
  BY <1>1, <1>2
<1>3. CASE Len(c) # 0
  <2> DEFINE m == Len(c) - 1
  <2>1. m \in Nat /\ Len(c) \in 1 .. Len(c) /\ c # <<>>
    BY <1>1, <1>3 DEF Contents
  <2>2. m % BatchLen = BatchLen - 1
    BY <1>1, <2>1 DEF WholeBatches
  <2>3. m \div BatchLen \in Nat /\ m = BatchLen * (m \div BatchLen) + (m % BatchLen)
    BY <1>1, <2>1
  <2>4. Len(c) = ((m \div BatchLen) + 1) * BatchLen
    <3> DEFINE q == m \div BatchLen
    <3>1. q \in Nat /\ Len(c) = BatchLen * q + BatchLen
      BY <1>1, <2>1, <2>2, <2>3
    <3> HIDE DEF q
    <3>2. (q + 1) * BatchLen = BatchLen * q + BatchLen
      BY <1>1, <3>1
    <3>3. QED
      BY <3>1, <3>2 DEF q
  <2>5. QED
    BY <2>3, <2>4
<1>4. QED
  BY <1>2, <1>3

\* The bytes of a batch, and what an append of them leads to.
LEMMA AppendedBytes ==
    ASSUME NEW c \in Contents, NEW b \in Batch
    PROVE  /\ c \o Bytes(b) \in Contents
           /\ Len(c) \in Nat /\ Len(c \o Bytes(b)) = Len(c) + BatchLen
           /\ \A i \in 1 .. Len(c) : (c \o Bytes(b))[i] = c[i]
           /\ \A i \in 1 .. BatchLen : (c \o Bytes(b))[Len(c) + i] = [id |-> b, at |-> i]
<1>1. /\ Bytes(b) \in Contents /\ Len(Bytes(b)) = BatchLen
      /\ \A i \in 1 .. BatchLen : Bytes(b)[i] = [id |-> b, at |-> i]
  BY BatchAssumption, ContentsClosed DEF Bytes
<1>2. c \o Bytes(b) \in Contents
  BY ContentsClosed
<1>3. c \in Seq(Chunk) /\ Bytes(b) \in Seq(Chunk) /\ Len(c) \in Nat
  BY <1>1 DEF Contents
<1> HIDE DEF Bytes
<1>4. /\ Len(c \o Bytes(b)) = Len(c) + BatchLen
      /\ \A i \in 1 .. Len(c) + BatchLen :
            (c \o Bytes(b))[i] = IF i <= Len(c) THEN c[i] ELSE Bytes(b)[i - Len(c)]
  BY <1>1, <1>3, ConcatProperties
<1>5. ASSUME NEW i \in 1 .. BatchLen PROVE (c \o Bytes(b))[Len(c) + i] = [id |-> b, at |-> i]
  <2>1. /\ Len(c) + i \in 1 .. Len(c) + BatchLen /\ ~(Len(c) + i <= Len(c))
        /\ (Len(c) + i) - Len(c) = i
    BY <1>3, BatchAssumption
  <2>2. QED
    BY <1>1, <1>4, <2>1
<1>6. ASSUME NEW i \in 1 .. Len(c) PROVE (c \o Bytes(b))[i] = c[i]
  BY <1>3, <1>4, BatchAssumption
<1>7. QED
  BY <1>2, <1>3, <1>4, <1>5, <1>6

\* A batch added to whole batches.
LEMMA WholeAppend ==
    ASSUME NEW c \in Contents, WholeBatches(c), NEW b \in Batch
    PROVE  WholeBatches(c \o Bytes(b))
<1> DEFINE n == c \o Bytes(b)
<1>1. BatchLen \in Nat \ {0}
  BY BatchAssumption
<1>2. PICK k \in Nat : Len(c) = k * BatchLen
  BY WholeLength
<1>3. /\ Len(n) = Len(c) + BatchLen /\ Len(c) \in Nat
      /\ \A i \in 1 .. Len(c) : n[i] = c[i]
      /\ \A i \in 1 .. BatchLen : n[Len(c) + i] = [id |-> b, at |-> i]
  BY AppendedBytes
<1>4. \A i \in 1 .. Len(n) : i \in 1 .. Len(c) \/ \E m \in 1 .. BatchLen : i = Len(c) + m
  <2> SUFFICES ASSUME NEW i \in 1 .. Len(n), ~(i \in 1 .. Len(c))
               PROVE  \E m \in 1 .. BatchLen : i = Len(c) + m
    OBVIOUS
  <2>1. i - Len(c) \in 1 .. BatchLen /\ i = Len(c) + (i - Len(c))
    BY <1>1, <1>3
  <2>2. QED
    BY <2>1
<1> HIDE DEF n
<1>5. ASSUME NEW i \in 1 .. Len(n) PROVE n[i].at = 1 + ((i - 1) % BatchLen)
  <2>1. CASE i \in 1 .. Len(c)
    BY <1>3, <2>1 DEF WholeBatches
  <2>2. ASSUME NEW m \in 1 .. BatchLen, i = Len(c) + m PROVE n[i].at = 1 + ((i - 1) % BatchLen)
    <3>1. (k * BatchLen + m - 1) % BatchLen = m - 1
      BY <1>1, Multiples
    <3>2. i - 1 = (Len(c) + m) - 1 /\ (Len(c) + m) - 1 = k * BatchLen + m - 1
      <4>1. i - 1 = (Len(c) + m) - 1
        BY <2>2
      <4>2. (Len(c) + m) - 1 = k * BatchLen + m - 1
        BY <1>2
      <4>3. QED
        BY <4>1, <4>2
    <3>3. n[i].at = m
      <4>1. n[i] = [id |-> b, at |-> m]
        BY <1>3, <2>2
      <4>2. QED
        BY <4>1
    <3>4. 1 + (m - 1) = m
      OBVIOUS
    <3>5. QED
      BY <3>1, <3>2, <3>3, <3>4
  <2>3. QED
    BY <1>4, <2>1, <2>2
<1>6. ASSUME NEW i \in 1 .. Len(n) - 1, n[i].at # BatchLen PROVE n[i + 1].id = n[i].id
  <2>1. CASE i \in 1 .. Len(c) /\ i # Len(c)
    <3>1. i \in 1 .. Len(c) - 1 /\ i + 1 \in 1 .. Len(c)
      BY <1>3, <2>1
    <3>2. QED
      BY <1>3, <1>6, <2>1, <3>1 DEF WholeBatches
  <2>2. CASE i \in 1 .. Len(c) /\ i = Len(c)
    <3>1. c # <<>> /\ n[i] = c[i]
      BY <1>3, <2>2 DEF Contents
    <3>2. QED
      BY <1>6, <2>2, <3>1 DEF WholeBatches
  <2>3. ASSUME NEW m \in 1 .. BatchLen, i = Len(c) + m PROVE n[i + 1].id = n[i].id
    <3>1. n[i] = [id |-> b, at |-> m]
      BY <1>3, <2>3
    <3>2. m # BatchLen
      BY <1>6, <3>1
    <3>3. m + 1 \in 1 .. BatchLen /\ i + 1 = Len(c) + (m + 1)
      BY <1>1, <1>3, <2>3, <3>2
    <3>4. n[i + 1] = [id |-> b, at |-> m + 1]
      BY <1>3, <3>3
    <3>5. QED
      BY <3>1, <3>4
  <2>4. i \in 1 .. Len(n)
    BY <1>1, <1>3
  <2>5. QED
    BY <1>4, <2>1, <2>2, <2>3, <2>4
<1>7. n[Len(n)].at = BatchLen
  <2>1. BatchLen \in 1 .. BatchLen /\ n[Len(n)] = n[Len(c) + BatchLen]
    BY <1>1, <1>3
  <2>2. n[Len(c) + BatchLen] = [id |-> b, at |-> BatchLen]
    BY <1>3, <2>1
  <2>3. QED
    BY <2>1, <2>2
<1>8. QED
  BY <1>5, <1>6, <1>7 DEF WholeBatches, n

\* The empty ledger is whole and has no batches.
LEMMA EmptyWhole == WholeBatches(<<>>) /\ BatchesOf(<<>>) = <<>>
<1>1. 0 \div BatchLen = 0
  BY BatchAssumption
<1>2. QED
  BY <1>1 DEF WholeBatches, BatchesOf

\* The batches of a whole content: one for each BatchLen chunks.
LEMMA BatchesType ==
    ASSUME NEW c \in Contents
    PROVE  /\ BatchesOf(c) \in Seq(Batch)
           /\ Len(BatchesOf(c)) = Len(c) \div BatchLen /\ Len(c) \div BatchLen \in Nat
           /\ \A i \in 1 .. Len(c) \div BatchLen :
                 i * BatchLen \in 1 .. Len(c) /\ BatchesOf(c)[i] = c[i * BatchLen].id
<1>1. BatchLen \in Nat \ {0} /\ Len(c) \in Nat
  BY BatchAssumption DEF Contents
<1>2. Len(c) \div BatchLen \in Nat
  BY <1>1
<1>3. ASSUME NEW i \in 1 .. Len(c) \div BatchLen
      PROVE  i * BatchLen \in 1 .. Len(c) /\ c[i * BatchLen].id \in Batch
  <2>1. i * BatchLen \in 1 .. Len(c)
    BY <1>1, Multiples
  <2>2. c[i * BatchLen] \in Chunk
    BY <2>1 DEF Contents
  <2>3. QED
    BY <2>1, <2>2 DEF Chunk
<1>4. QED
  BY <1>2, <1>3 DEF BatchesOf

\* Its last batch is its head.
LEMMA LastBatch ==
    ASSUME NEW c \in Contents, WholeBatches(c)
    PROVE  HeadOf(c) = Log!Last0(BatchesOf(c))
<1>1. BatchLen \in Nat \ {0}
  BY BatchAssumption
<1>2. PICK k \in Nat : Len(c) = k * BatchLen
  BY WholeLength
<1>3. Len(BatchesOf(c)) = k /\ BatchesOf(c) \in Seq(Batch)
  BY <1>1, <1>2, Multiples, BatchesType
<1>4. CASE k = 0
  <2>1. c = <<>> /\ BatchesOf(c) = <<>>
    BY <1>1, <1>2, <1>3, <1>4 DEF Contents
  <2>2. QED
    BY <2>1 DEF HeadOf, Log!Last0
<1>5. CASE k # 0
  <2>1. k \in 1 .. Len(c) \div BatchLen /\ BatchesOf(c) # <<>>
    BY <1>1, <1>2, <1>3, <1>5, BatchesType
  <2>2. BatchesOf(c)[k] = c[Len(c)].id
    BY <1>2, <2>1, BatchesType
  <2>3. c # <<>>
    BY <1>1, <1>2, <1>3, <2>1, EmptyWhole
  <2>4. QED
    BY <1>3, <2>1, <2>2, <2>3 DEF HeadOf, Log!Last0
<1>6. QED
  BY <1>4, <1>5

\* A batch added to a whole content is one batch more.
LEMMA OneMore ==
    ASSUME NEW c \in Contents, WholeBatches(c), NEW b \in Batch
    PROVE  BatchesOf(c \o Bytes(b)) = Append(BatchesOf(c), b)
<1> DEFINE n == c \o Bytes(b)
           s == BatchesOf(n)
           t == Append(BatchesOf(c), b)
<1>1. BatchLen \in Nat \ {0}
  BY BatchAssumption
<1>2. PICK k \in Nat : Len(c) = k * BatchLen
  BY WholeLength
<1>3. /\ n \in Contents /\ Len(n) = (k + 1) * BatchLen
      /\ \A i \in 1 .. Len(c) : n[i] = c[i]
      /\ n[Len(c) + BatchLen] = [id |-> b, at |-> BatchLen]
  <2>1. (k + 1) * BatchLen = Len(c) + BatchLen /\ BatchLen \in 1 .. BatchLen
    BY <1>1, <1>2, Multiples
  <2>2. QED
    BY <2>1, AppendedBytes
<1> HIDE DEF n
<1>4. Len(c) \div BatchLen = k /\ Len(n) \div BatchLen = k + 1
  <2>1. k + 1 \in Nat
    OBVIOUS
  <2>2. QED
    BY <1>1, <1>2, <1>3, <2>1, Multiples
<1>5. s \in Seq(Batch) /\ Len(s) = k + 1 /\ t \in Seq(Batch) /\ Len(t) = k + 1
  BY <1>3, <1>4, BatchesType
<1>6. ASSUME NEW i \in 1 .. k PROVE s[i] = t[i]
  <2>1. i * BatchLen \in 1 .. Len(c) /\ BatchesOf(c)[i] = c[i * BatchLen].id
    BY <1>4, BatchesType
  <2>2. i \in 1 .. k + 1
    OBVIOUS
  <2>3. s[i] = n[i * BatchLen].id
    BY <1>3, <1>4, <2>2, BatchesType
  <2>4. t[i] = BatchesOf(c)[i]
    BY <1>4, BatchesType
  <2>5. QED
    BY <1>3, <2>1, <2>3, <2>4
<1>7. s[k + 1] = t[k + 1]
  <2>1. t[k + 1] = b
    BY <1>4, BatchesType
  <2>2. s[k + 1] = n[(k + 1) * BatchLen].id /\ (k + 1) * BatchLen = Len(c) + BatchLen
    <3>1. k + 1 \in 1 .. k + 1
      OBVIOUS
    <3>2. QED
      BY <1>1, <1>2, <1>3, <1>4, <3>1, BatchesType, Multiples
  <2>3. QED
    BY <1>3, <2>1, <2>2
<1>8. \A i \in 1 .. k + 1 : i \in 1 .. k \/ i = k + 1
  OBVIOUS
<1> HIDE DEF s, t
<1>9. s = t
  BY <1>5, <1>6, <1>7, <1>8
<1>10. QED
  BY <1>9 DEF s, t, n

\* A batch in the log is a batch in the content.
LEMMA LoggedIsHeld ==
    ASSUME NEW c \in Contents, NEW b, NEW i \in 1 .. Len(BatchesOf(c)), BatchesOf(c)[i] = b
    PROVE  Holds(c, b)
BY BatchesType DEF Holds

-----------------------------------------------------------------------------
\* What the files hold when no rollback dies before its fsync

Final(j) == j.prefix \o j.pending
Within(j, c) == IsPrefix(j.prefix, c) /\ IsPrefix(c, Final(j))
Settles(j, c) == c = j.prefix \/ c = Final(j)

\* Without a journal the ledger is whole and on disk.
BareIsWhole == journal = NoJournal => ledgerDisk = {ledger} /\ WholeBatches(ledger)

\* Whatever the disk may hold of the ledger lies between what the journal says it
\* was and what it will be; only one of the two files is ahead of its disk; and
\* a rollback is on disk once its process has gone on.
JournalFits ==
    journal # NoJournal =>
        /\ \A c \in ledgerDisk : Within(journal, c)
        /\ ledgerDisk = {ledger} \/ journalDisk = {journal}
        /\ ledger = journal.prefix => ledgerDisk = {ledger} \/ \E p \in Proc : pc[p] = "truncsync"

\* Journals start from whole ledgers, and those that only the disk holds are settled.
JournalsWhole ==
    /\ \A j \in Installed : WholeBatches(j.prefix)
    /\ \A j \in Installed \ {journal} : Settles(j, ledger)

\* A journal is removed after its verdict is on disk.
UnlinkSettled ==
    \A p \in Proc : pc[p] = "unlink" => ledgerDisk = {ledger} /\ Settles(journal, ledger)

RInv == ledger \in ledgerDisk /\ BareIsWhole /\ JournalFits /\ JournalsWhole /\ UnlinkSettled

\* The parts of a journal.
LEMMA JournalParts ==
    ASSUME TypeOK, NEW j \in Installed
    PROVE  /\ j \in Journals /\ j.prefix \in Contents /\ Final(j) \in Contents
           /\ IsPrefix(j.prefix, j.prefix) /\ IsPrefix(j.prefix, Final(j)) /\ IsPrefix(Final(j), Final(j))
           /\ \E b \in Batch : j.pending = Bytes(b) /\ Final(j) = j.prefix \o Bytes(b)
<1>1. j \in Journals /\ j.prefix \in Contents /\ j.pending \in Contents /\ Final(j) \in Contents
  BY JournalTypes DEF TypeOK, Installed, Final
<1>2. \E b \in Batch : j.pending = Bytes(b)
  BY <1>1 DEF Journals
<1>3. QED
  BY <1>1, <1>2, PrefixOrder DEF Final

\* What a journal settles to is whole and lies within it.
LEMMA SettledWhole ==
    ASSUME TypeOK, RInv, NEW j \in Installed, NEW c, Settles(j, c)
    PROVE  WholeBatches(c) /\ Within(j, c)
<1>1. WholeBatches(j.prefix)
  BY DEF RInv, JournalsWhole
<1>2. WholeBatches(Final(j))
  BY <1>1, JournalParts, WholeAppend
<1>3. QED
  BY <1>1, <1>2, JournalParts DEF Settles, Within

\* Of the contents within a journal, the complete one is the final one.
LEMMA CompleteIsFinal ==
    ASSUME TypeOK, NEW j \in Installed, NEW c \in Contents, Within(j, c)
    PROVE  /\ Complete(c, j) <=> c = Final(j)
           /\ c = j.prefix \/ Partial(c, j) \/ c = Final(j)
BY JournalParts, PrefixOrder DEF Within, Complete, Partial, Final

\* Steps that change no file, lead to no removal and leave no rollback unsynced.
LEMMA QuietRefines ==
    ASSUME RInv, UNCHANGED disk,
           \A q \in Proc : pc'[q] = "unlink" => pc[q] = "unlink",
           \A q \in Proc : pc[q] = "truncsync" => pc'[q] = "truncsync"
    PROVE  RInv'
BY DEF RInv, BareIsWhole, JournalFits, JournalsWhole, UnlinkSettled, disk, Installed, Within, Settles,
       Final, WholeBatches

\* The holder of the lock leaves the files alone, or ends, without unsynced rollback.
LEMMA QuietSteps ==
    ASSUME "torn" \notin Faults, IInv, RInv, NEW p \in Proc,
           \/ Start(p) \/ Acquire(p) \/ RecoverNothing(p)
           \/ LoadCorrupt(p) \/ Read(p) \/ RefuseBatch(p) \/ AcceptBatch(p)
           \/ RecoveryFails(p) \/ RemovalFails(p) \/ PrepareFails(p) \/ AppendFails(p) \/ Kill(p)
    PROVE  RInv'
<1>1. TypeOK
  BY DEF IInv
<1>2. UNCHANGED disk
  BY DEF Start, StartRead, StartAppend, Acquire, RecoverNothing, LoadCorrupt, Read, RefuseBatch,
         AcceptBatch, RecoveryFails, RemovalFails, PrepareFails, AppendFails, Kill, disk
<1>3. pc[p] # "truncsync"
  BY DEF Start, StartRead, StartAppend, Acquire, RecoverNothing, LoadCorrupt, Read, RefuseBatch,
         AcceptBatch, RecoveryFails, RemovalFails, PrepareFails, AppendFails, Kill, Fault
<1>4. \E l : pc' = [pc EXCEPT ![p] = l] /\ l # "unlink"
  BY DEF Start, StartRead, StartAppend, Acquire, RecoverNothing, LoadCorrupt, Read, RefuseBatch,
         AcceptBatch, RecoveryFails, RemovalFails, PrepareFails, AppendFails, Kill, Goto, Finish,
         Refuse, Doubt, Acknowledge, Recovered, RecoveryRaises
<1>5. QED
  BY <1>1, <1>2, <1>3, <1>4, QuietRefines DEF TypeOK

\* A verdict is reached.
LEMMA RecoverRefines ==
    ASSUME IInv, RInv, NEW p \in Proc, Recover(p)
    PROVE  RInv'
<1>1. TypeOK /\ AtLabel(p) /\ pc[p] = "recover" /\ journal # NoJournal /\ UNCHANGED disk
  BY DEF IInv, Recover
<1>2. \A q \in Proc : pc[q] # "truncsync"
  BY <1>1 DEF IInv, AtLabel
<1>3. \E l : pc' = [pc EXCEPT ![p] = l] /\ (l = "unlink" => Untouched(ledger, journal))
  BY DEF Recover, Verdict, Goto, RecoveryRaises, Refuse, Doubt, Finish
<1>4. ledger = journal.prefix => ledgerDisk = {ledger}
  BY <1>1, <1>2 DEF RInv, JournalFits
<1>5. UnlinkSettled'
  BY <1>1, <1>3, <1>4 DEF TypeOK, UnlinkSettled, RInv, Untouched, Settles, disk, Final
<1>6. /\ UNCHANGED <<ledger, ledgerDisk, journal, journalDisk>>
      /\ ledger = journal.prefix => ledgerDisk = {ledger}
  BY <1>1, <1>4 DEF disk
<1>7. BareIsWhole' /\ JournalFits' /\ JournalsWhole'
  BY <1>6 DEF RInv, BareIsWhole, JournalFits, JournalsWhole, Installed, Within, Settles, Final,
              WholeBatches
<1>8. QED
  BY <1>5, <1>6, <1>7 DEF RInv

\* The partial append is cut off, as far as processes see.
LEMMA TruncateRefines ==
    ASSUME IInv, RInv, NEW p \in Proc, Truncate(p)
    PROVE  RInv'
<1>1. TypeOK /\ AtLabel(p) /\ pc[p] = "truncate"
  BY DEF IInv, Truncate
<1>2. journal # NoJournal /\ ledger # journal.prefix /\ journalDisk = {journal}
  BY <1>1 DEF IInv, AtLabel, WithJournal, Partial, WriteAhead
<1>3. Installed = {journal} /\ Installed' = {journal}
  BY <1>2 DEF Installed, Truncate
<1>4. /\ ledger' = journal.prefix /\ ledgerDisk' = ledgerDisk \cup {journal.prefix}
      /\ UNCHANGED <<journal, journalDisk>> /\ pc' = [pc EXCEPT ![p] = "truncsync"]
  BY DEF Truncate, Goto
<1>5. pc'[p] = "truncsync" /\ \A q \in Proc : pc'[q] # "unlink"
  BY <1>1, <1>4 DEF IInv, AtLabel, TypeOK
<1>6. \A c \in ledgerDisk' : Within(journal, c)
  BY <1>2, <1>3, <1>4, JournalParts, <1>1 DEF RInv, JournalFits, Within
<1>7. QED
  BY <1>2, <1>3, <1>4, <1>5, <1>6
     DEF RInv, BareIsWhole, JournalFits, JournalsWhole, UnlinkSettled, Within, Final, WholeBatches

\* The fsync of a rollback, of a recovered append and of an append.
LEMMA SyncRefines ==
    ASSUME IInv, RInv, NEW p \in Proc, SyncTruncated(p) \/ SyncComplete(p) \/ SyncAppend(p)
    PROVE  RInv'
<1>1. TypeOK /\ AtLabel(p) /\ pc[p] \in {"truncsync", "sync", "writesync"}
  BY DEF IInv, SyncTruncated, SyncComplete, SyncAppend
<1>2. journal # NoJournal /\ journal \in Installed
  BY <1>1 DEF AtLabel, WithJournal, Installed
<1>3. /\ UNCHANGED <<ledger, journal, journalDisk>> /\ ledgerDisk' = {ledger}
      /\ Installed' = Installed
  BY DEF SyncTruncated, SyncComplete, SyncAppend, Synced, Installed
<1>4. Settles(journal, ledger)
  <2>1. CASE pc[p] = "truncsync"
    BY <1>1, <2>1 DEF AtLabel, Settles
  <2>2. CASE pc[p] = "sync"
    <3>1. Complete(ledger, journal) /\ Within(journal, ledger) /\ ledger \in Contents
      BY <1>1, <1>2, <2>2 DEF AtLabel, RInv, JournalFits, TypeOK
    <3>2. QED
      BY <1>1, <1>2, <3>1, CompleteIsFinal DEF Settles
  <2>3. CASE pc[p] = "writesync"
    <3>1. journal = OwnJournal(p) /\ ledger = OwnAppend(p)
      BY <1>1, <2>3 DEF AtLabel
    <3>2. QED
      BY <3>1 DEF OwnJournal, OwnAppend, Settles, Final
  <2>4. QED
    BY <1>1, <2>1, <2>2, <2>3
<1>5. JournalFits'
  BY <1>2, <1>3 DEF RInv, JournalFits, Within, Final
<1>6. JournalsWhole'
  BY <1>3 DEF RInv, JournalsWhole, Settles, Final, WholeBatches
<1>7. UnlinkSettled'
  BY <1>3, <1>4 DEF UnlinkSettled, Settles, Final
<1>8. QED
  BY <1>2, <1>3, <1>5, <1>6, <1>7 DEF RInv, BareIsWhole

\* The journal goes, of a ledger that it settled.
LEMMA UnlinkRefines ==
    ASSUME IInv, RInv, NEW p \in Proc, Unlink(p)
    PROVE  RInv'
<1>1. TypeOK /\ AtLabel(p) /\ pc[p] = "unlink"
  BY DEF IInv, Unlink
<1>2. journal \in Installed /\ ledgerDisk = {ledger} /\ Settles(journal, ledger)
  BY <1>1 DEF AtLabel, WithJournal, Installed, RInv, UnlinkSettled
<1>3. /\ UNCHANGED <<ledger, ledgerDisk>> /\ journal' = NoJournal
      /\ Installed' \subseteq Installed /\ pc' = [pc EXCEPT ![p] = "dirsync"]
  BY DEF Unlink, Installed, Goto
<1>4. WholeBatches(ledger)
  BY <1>1, <1>2, SettledWhole
<1>5. \A q \in Proc : pc'[q] # "unlink"
  BY <1>1, <1>3 DEF IInv, AtLabel, TypeOK
<1>6. JournalsWhole'
  BY <1>2, <1>3 DEF RInv, JournalsWhole, Settles, Final, WholeBatches
<1>7. QED
  BY <1>2, <1>3, <1>4, <1>5, <1>6 DEF RInv, BareIsWhole, JournalFits, UnlinkSettled, WholeBatches

\* The directory is synced: after the journal went, or after it was put in place.
LEMMA DirectoryRefines ==
    ASSUME IInv, RInv, NEW p \in Proc, SyncDirectory(p) \/ SyncJournal(p)
    PROVE  RInv'
<1>1. TypeOK /\ AtLabel(p) /\ pc[p] \in {"dirsync", "jsync"}
  BY DEF IInv, SyncDirectory, SyncJournal
<1>2. /\ UNCHANGED <<ledger, ledgerDisk, journal>> /\ journalDisk' = {journal}
      /\ Installed' \subseteq Installed
  BY DEF SyncDirectory, SyncJournal, Installed
<1>3. \E l : pc' = [pc EXCEPT ![p] = l] /\ l # "unlink"
  BY DEF SyncDirectory, SyncJournal, Goto, Finish, Acknowledge, Recovered, Doubt
<1>4. \A q \in Proc : pc'[q] # "unlink"
  BY <1>1, <1>3 DEF IInv, AtLabel, TypeOK
<1>5. \A q \in Proc : pc[q] # "truncsync"
  BY <1>1 DEF IInv, AtLabel
<1>6. JournalFits'
  BY <1>2, <1>5 DEF RInv, JournalFits, Within, Final
<1>7. QED
  BY <1>2, <1>4, <1>6
     DEF RInv, BareIsWhole, JournalsWhole, UnlinkSettled, Settles, Final, WholeBatches

\* A new journal starts from the whole ledger.
LEMMA InstallRefines ==
    ASSUME IInv, RInv, NEW p \in Proc, InstallJournal(p)
    PROVE  RInv'
<1>1. TypeOK /\ AtLabel(p) /\ pc[p] = "journal" /\ journal = NoJournal
  BY DEF IInv, InstallJournal
<1>2. ledger = raw[p] /\ ledgerDisk = {ledger} /\ WholeBatches(ledger) /\ batch[p] \in Batch
      /\ ledger \in Contents
  BY <1>1 DEF AtLabel, RInv, BareIsWhole, TypeOK
<1>3. /\ UNCHANGED <<ledger, ledgerDisk>> /\ journal' = OwnJournal(p)
      /\ journalDisk' = journalDisk \cup {journal'} /\ pc' = [pc EXCEPT ![p] = "jsync"]
  BY DEF InstallJournal, OwnJournal, Goto
<1>4. journal'.prefix = ledger /\ Final(journal)' = ledger \o Bytes(batch[p])
  BY <1>2, <1>3 DEF OwnJournal, Final
<1>5. Within(journal, ledger)'
  BY <1>2, <1>3, <1>4, ContentsClosed, PrefixOrder DEF Within, Final
<1>6. /\ Installed' \subseteq Installed \cup {journal'} /\ Installed' \ {journal'} \subseteq Installed \ {journal}
      /\ \A q \in Proc : pc'[q] # "unlink"
  BY <1>1, <1>3 DEF Installed, IInv, AtLabel, TypeOK
<1>7. JournalFits'
  BY <1>2, <1>3, <1>5 DEF JournalFits, Within, Final
<1>8. JournalsWhole'
  <2>1. \A j \in Installed' : WholeBatches(j.prefix)
    BY <1>2, <1>4, <1>6 DEF RInv, JournalsWhole
  <2>2. \A j \in Installed' \ {journal'} : Settles(j, ledger)
    BY <1>6 DEF RInv, JournalsWhole
  <2>3. QED
    BY <1>3, <2>1, <2>2 DEF JournalsWhole, Settles, Final, WholeBatches
<1>9. UnlinkSettled' /\ BareIsWhole'
  BY <1>2, <1>3, <1>6 DEF UnlinkSettled, BareIsWhole, WholeBatches
<1>10. QED
  BY <1>2, <1>3, <1>7, <1>8, <1>9 DEF RInv

\* One chunk more is still within the journal.
LEMMA WriteRefines ==
    ASSUME IInv, RInv, NEW p \in Proc, WriteChunk(p)
    PROVE  RInv'
<1>1. TypeOK /\ AtLabel(p) /\ pc[p] = "write"
  BY DEF IInv, WriteChunk
<1>2. /\ batch[p] \in Batch /\ journal = OwnJournal(p) /\ journalDisk = {journal}
      /\ IsPrefix(raw[p], ledger) /\ IsPrefix(ledger, OwnAppend(p))
      /\ Len(ledger) - Len(raw[p]) < BatchLen /\ journal # NoJournal
      /\ raw[p] \in Contents /\ ledger \in Contents
  BY <1>1 DEF AtLabel, TypeOK, WithJournal
<1>3. /\ ledger' = Append(ledger, [id |-> batch[p], at |-> (Len(ledger) - Len(raw[p])) + 1])
      /\ ledgerDisk' = ledgerDisk \cup {ledger'} /\ UNCHANGED <<journal, journalDisk>>
      /\ pc'[p] # "unlink" /\ \A q \in Proc \ {p} : pc'[q] = pc[q]
  BY <1>1 DEF WriteChunk, Goto, TypeOK
<1>4. /\ ledger' \in Contents /\ IsPrefix(ledger, ledger') /\ IsPrefix(ledger', OwnAppend(p))
      /\ Len(ledger') - Len(raw[p]) = (Len(ledger) - Len(raw[p])) + 1
  BY <1>2, <1>3, WriteExtends DEF OwnAppend
<1>5. ledger' # raw[p]
  <2>1. Len(raw[p]) \in Nat /\ Len(ledger) \in Nat /\ Len(raw[p]) <= Len(ledger)
    BY <1>2, PrefixPointwise DEF Contents
  <2>2. QED
    BY <1>4, <2>1
<1>6. Within(journal, ledger') /\ ledger' # journal.prefix
  <2>1. journal.prefix = raw[p] /\ Final(journal) = OwnAppend(p)
    BY <1>2 DEF OwnJournal, OwnAppend, Final
  <2>2. IsPrefix(raw[p], ledger')
    BY <1>2, <1>4, PrefixOrder
  <2>3. QED
    BY <1>4, <1>5, <2>1, <2>2 DEF Within
<1>7. Installed = {journal} /\ Installed' = {journal}
  BY <1>2, <1>3 DEF Installed
<1>8. \A q \in Proc : pc'[q] # "unlink"
  BY <1>1, <1>3 DEF IInv, AtLabel
<1>9. JournalFits'
  BY <1>2, <1>3, <1>6 DEF RInv, JournalFits, Within, Final
<1>10. JournalsWhole'
  BY <1>2, <1>3, <1>7 DEF RInv, JournalsWhole, WholeBatches
<1>11. QED
  BY <1>2, <1>3, <1>8, <1>9, <1>10 DEF RInv, BareIsWhole, UnlinkSettled

\* The two files come back from disk.
LEMMA PowerRefines ==
    ASSUME IInv, RInv, PowerLoss
    PROVE  RInv'
<1>1. TypeOK
  BY DEF IInv
<1>2. /\ ledger' \in ledgerDisk /\ ledgerDisk' = {ledger'}
      /\ journal' \in journalDisk /\ journalDisk' = {journal'}
      /\ \A q \in Proc : pc'[q] = "idle"
  BY DEF PowerLoss
<1>3. Installed' = {journal'} \ {NoJournal} /\ Installed' \subseteq Installed
  BY <1>2 DEF Installed
<1>4. journal' = NoJournal => WholeBatches(ledger')
  <2> SUFFICES ASSUME journal' = NoJournal PROVE WholeBatches(ledger')
    OBVIOUS
  <2>1. CASE journal = NoJournal
    BY <1>2, <2>1 DEF RInv, BareIsWhole
  <2>2. CASE journal # NoJournal
    <3>1. journalDisk # {journal}
      BY <1>2, <2>2
    <3>2. ledger' = ledger /\ ledger = journal.prefix /\ journal \in Installed
      BY <1>2, <2>2, <3>1 DEF RInv, JournalFits, IInv, WriteAhead, Installed
    <3>3. QED
      BY <3>2 DEF RInv, JournalsWhole
  <2>3. QED
    BY <2>1, <2>2
<1>5. journal' # NoJournal => Within(journal', ledger')
  <2> SUFFICES ASSUME journal' # NoJournal PROVE Within(journal', ledger')
    OBVIOUS
  <2>1. CASE journal' = journal
    BY <1>2, <2>1 DEF RInv, JournalFits
  <2>2. CASE journal' # journal
    <3>1. journal' \in Installed \ {journal}
      BY <1>2, <2>2 DEF Installed
    <3>2. ledgerDisk = {ledger}
      BY <1>2, <2>2 DEF RInv, BareIsWhole, JournalFits
    <3>3. ledger' = ledger /\ Settles(journal', ledger)
      BY <1>2, <3>1, <3>2 DEF RInv, JournalsWhole
    <3>4. QED
      BY <1>1, <3>1, <3>3, SettledWhole
  <2>3. QED
    BY <2>1, <2>2
<1>6. JournalsWhole'
  BY <1>3 DEF RInv, JournalsWhole, WholeBatches
<1>7. QED
  BY <1>2, <1>4, <1>5, <1>6 DEF RInv, BareIsWhole, JournalFits, UnlinkSettled, WholeBatches, Within, Final

\* Every step preserves what the files hold.
LEMMA FilesInductive == "torn" \notin Faults /\ IInv /\ RInv /\ [Next]_vars => RInv'
<1> SUFFICES ASSUME "torn" \notin Faults, IInv, RInv, [Next]_vars PROVE RInv'
  OBVIOUS
<1>1. CASE UNCHANGED vars
  BY <1>1, QuietRefines DEF vars, locals
<1>2. CASE PowerLoss
  BY <1>2, PowerRefines
<1>3. ASSUME NEW p \in Proc, Start(p) \/ Acquire(p) PROVE RInv'
  BY <1>3, QuietSteps
<1>4. ASSUME NEW p \in Proc, Step(p) PROVE RInv'
  BY <1>4, QuietSteps, RecoverRefines, TruncateRefines, SyncRefines, UnlinkRefines,
     DirectoryRefines, InstallRefines, WriteRefines DEF Step
<1>5. ASSUME NEW p \in Proc, SystemFault(p) PROVE RInv'
  BY <1>5, QuietSteps DEF SystemFault
<1>6. QED
  BY <1>1, <1>2, <1>3, <1>4, <1>5 DEF Next

\* The empty files are whole.
LEMMA InitRInv == Init => RInv
BY EmptyWhole DEF Init, RInv, BareIsWhole, JournalFits, JournalsWhole, UnlinkSettled, Installed

-----------------------------------------------------------------------------
\* Recoverable at every instant

\* What is known of the files leaves no verdict but the three of recovery.
LEMMA FilesRecoverable == IInv /\ RInv => LedgerRecoverable
<1> SUFFICES ASSUME IInv, RInv PROVE LedgerRecoverable
  OBVIOUS
<1>1. CASE journal = NoJournal
  BY <1>1 DEF RInv, BareIsWhole, LedgerRecoverable
<1>2. CASE journal # NoJournal
  <2>1. TypeOK /\ journal \in Installed /\ ledger \in Contents /\ Within(journal, ledger)
    BY <1>2 DEF IInv, TypeOK, Installed, RInv, JournalFits
  <2>2. /\ Complete(ledger, journal) <=> ledger = Final(journal)
        /\ Untouched(ledger, journal) \/ Partial(ledger, journal) \/ ledger = Final(journal)
    BY <2>1, CompleteIsFinal DEF Untouched
  <2>3. WholeBatches(journal.prefix)
    BY <2>1 DEF RInv, JournalsWhole
  <2>4. ledger = Final(journal) => WholeBatches(ledger)
    BY <2>1, SettledWhole DEF Settles
  <2>5. Verdict(ledger, journal) \in {"unlink", "truncate", "sync"}
    BY <2>2 DEF Verdict
  <2>6. Verdict(ledger, journal) = "sync" => WholeBatches(ledger)
    BY <2>2, <2>4 DEF Verdict
  <2>7. QED
    BY <1>2, <2>3, <2>5, <2>6 DEF LedgerRecoverable
<1>3. QED
  BY <1>1, <1>2

\* At every instant, and after every kill and loss of power, the two files are in a
\* state that the next operation resolves to whole batches, unless a process dies,
\* or its fsync fails, between the ftruncate of a rollback and that fsync.
THEOREM AlwaysRecoverable ==
    ASSUME "torn" \notin Faults
    PROVE  Spec => []LedgerRecoverable
<1>1. IInv /\ RInv /\ [Next]_vars => RInv'
  BY FilesInductive
<1>2. QED
  BY InitIInv, Inductive, InitRInv, FilesRecoverable, <1>1, PTL DEF Spec

-----------------------------------------------------------------------------
\* The abstract state that the files stand for

\* No batch is in doubt: the disk holds what processes see, and the journal, if
\* there is one, has nothing left to decide.
Clear == ledgerDisk = {ledger} /\ (journal = NoJournal \/ Settles(journal, ledger))

\* What AtomicLog sees when no batch is in doubt, and when one is.
ClearView ==
    /\ AbstractLog = BatchesOf(ledger) /\ AbstractDoubt = NoBatch
    /\ WholeBatches(ledger)

DoubtView ==
    /\ journal \in Installed /\ journalDisk = {journal}
    /\ WholeBatches(journal.prefix)
    /\ AbstractLog = BatchesOf(journal.prefix)
    /\ AbstractDoubt \in Batch /\ journal.pending = Bytes(AbstractDoubt)
    /\ BatchesOf(Final(journal)) = Append(AbstractLog, AbstractDoubt)

View == (Clear => ClearView) /\ (~Clear => DoubtView)

\* The last chunk of a batch names it.
LEMMA HeadOfBytes == \A b \in Batch : HeadOf(Bytes(b)) = b
<1> SUFFICES ASSUME NEW b \in Batch PROVE HeadOf(Bytes(b)) = b
  OBVIOUS
<1>1. Len(Bytes(b)) = BatchLen /\ Bytes(b)[BatchLen].id = b /\ BatchLen # 0
  BY BatchAssumption DEF Bytes
<1>2. Bytes(b) # <<>>
  BY <1>1
<1>3. QED
  BY <1>1, <1>2 DEF HeadOf

\* So does the last chunk of a content that ends with it.
LEMMA HeadOfAppended == \A c \in Contents, b \in Batch : HeadOf(c \o Bytes(b)) = b
<1> SUFFICES ASSUME NEW c \in Contents, NEW b \in Batch PROVE HeadOf(c \o Bytes(b)) = b
  OBVIOUS
<1> DEFINE n == c \o Bytes(b)
<1>1. /\ Len(c) \in Nat /\ Len(n) = Len(c) + BatchLen
      /\ \A i \in 1 .. BatchLen : n[Len(c) + i] = [id |-> b, at |-> i]
  BY AppendedBytes
<1> HIDE DEF n
<1>2. BatchLen \in 1 .. BatchLen /\ Len(n) # 0
  BY <1>1, BatchAssumption
<1>3. n[Len(n)].id = b /\ n # <<>>
  <2>1. n[Len(c) + BatchLen] = [id |-> b, at |-> BatchLen]
    BY <1>1, <1>2
  <2>2. n[Len(n)] = [id |-> b, at |-> BatchLen]
    BY <1>1, <2>1
  <2>3. n # <<>>
    BY <1>2
  <2>4. QED
    BY <2>2, <2>3
<1>4. QED
  BY <1>3 DEF HeadOf, n

\* The files stand for an undecided batch exactly when they are not clear.
LEMMA UndecidedIsNotClear == IInv /\ RInv => (Undecided <=> ~Clear)
<1> SUFFICES ASSUME IInv, RInv PROVE Undecided <=> ~Clear
  OBVIOUS
<1>1. TypeOK /\ ledger \in ledgerDisk /\ ledgerDisk \subseteq Contents
  BY DEF IInv, RInv, TypeOK
<1>2. CASE journal = NoJournal
  BY <1>2 DEF RInv, BareIsWhole, Clear, Undecided
<1>3. CASE journal # NoJournal
  <2>1. journal \in Installed /\ \A c \in ledgerDisk : Within(journal, c)
    BY <1>3 DEF Installed, RInv, JournalFits
  <2>2. \A c \in ledgerDisk : Complete(c, journal) <=> c = Final(journal)
    BY <1>1, <2>1, CompleteIsFinal
  <2>3. Undecided <=> (ledgerDisk # {journal.prefix} /\ ledgerDisk # {Final(journal)})
    BY <1>1, <1>3, <2>2 DEF Undecided
  <2>4. QED
    BY <1>1, <1>3, <2>3 DEF Clear, Settles
<1>4. QED
  BY <1>2, <1>3

\* What the two views are.
LEMMA ViewOfFiles == IInv /\ RInv => View
<1> SUFFICES ASSUME IInv, RInv PROVE View
  OBVIOUS
<1>1. TypeOK /\ ledger \in ledgerDisk /\ (Undecided <=> ~Clear)
  BY UndecidedIsNotClear DEF IInv, RInv
<1>2. ASSUME Clear PROVE ClearView
  <2>1. WholeBatches(ledger)
    <3>1. CASE journal = NoJournal
      BY <3>1 DEF RInv, BareIsWhole
    <3>2. CASE journal # NoJournal
      BY <1>1, <1>2, <3>2, SettledWhole DEF Clear, Installed
    <3>3. QED
      BY <3>1, <3>2
  <2>2. QED
    BY <1>1, <1>2, <2>1 DEF ClearView, AbstractLog, AbstractDoubt
<1>3. ASSUME ~Clear PROVE DoubtView
  <2>1. journal # NoJournal /\ journal \in Installed
    BY <1>1, <1>3 DEF Undecided, Installed
  <2>2. journalDisk = {journal}
    <3>1. ledgerDisk = {ledger} => ledger # journal.prefix
      BY <1>3, <2>1 DEF Clear, Settles
    <3>2. QED
      BY <2>1, <3>1 DEF RInv, JournalFits, IInv, WriteAhead
  <2>3. WholeBatches(journal.prefix) /\ journal.prefix \in Contents
    BY <1>1, <2>1, JournalParts DEF RInv, JournalsWhole
  <2>4. PICK b \in Batch : journal.pending = Bytes(b) /\ Final(journal) = journal.prefix \o Bytes(b)
    BY <1>1, <2>1, JournalParts
  <2>5. AbstractLog = BatchesOf(journal.prefix) /\ AbstractDoubt = b
    BY <1>1, <1>3, <2>4, HeadOfBytes DEF AbstractLog, AbstractDoubt
  <2>6. BatchesOf(Final(journal)) = Append(AbstractLog, b)
    BY <2>3, <2>4, <2>5, OneMore
  <2>7. QED
    BY <2>1, <2>2, <2>3, <2>4, <2>5, <2>6 DEF DoubtView
<1>4. QED
  BY <1>2, <1>3 DEF View

\* The batch in doubt has left chunks on a disk the next power loss may leave.
LEMMA DoubtIsHeld ==
    ASSUME IInv, RInv, ~Clear
    PROVE  ~Nowhere(AbstractDoubt)
<1>1. TypeOK /\ DoubtView /\ Undecided
  BY ViewOfFiles, UndecidedIsNotClear DEF View, IInv
<1>2. PICK c \in ledgerDisk : c # journal.prefix
  BY <1>1 DEF Undecided
<1> DEFINE q == journal.prefix
           b == AbstractDoubt
<1>3. c \in Contents /\ q \in Contents /\ b \in Batch /\ Final(journal) = q \o Bytes(b)
  BY <1>1, <1>2, JournalParts DEF DoubtView, TypeOK, Final
<1>4. IsPrefix(q, c) /\ IsPrefix(c, q \o Bytes(b))
  BY <1>1, <1>2, <1>3 DEF RInv, JournalFits, Undecided, Within
<1> HIDE DEF q, b
<1>5. Len(q) \in Nat /\ Len(c) \in Nat /\ Len(q) <= Len(c)
  BY <1>3, <1>4, PrefixPointwise DEF Contents
<1>6. Len(q) # Len(c)
  <2> SUFFICES ASSUME Len(q) = Len(c) PROVE FALSE
    OBVIOUS
  <2>1. IsPrefix(c, q)
    BY <1>3, <1>4, <1>5, PrefixPointwise
  <2>2. QED
    BY <1>2, <1>3, <1>4, <2>1, PrefixOrder DEF q
<1>7. Len(q) + 1 \in 1 .. Len(c) /\ 1 \in 1 .. BatchLen
  BY <1>5, <1>6, BatchAssumption
<1>8. (q \o Bytes(b))[Len(q) + 1] = [id |-> b, at |-> 1] /\ q \o Bytes(b) \in Contents
  BY <1>3, <1>7, AppendedBytes
<1>9. c[Len(q) + 1].id = b
  <2>1. c[Len(q) + 1] = (q \o Bytes(b))[Len(q) + 1]
    BY <1>3, <1>4, <1>7, <1>8, PrefixPointwise
  <2>2. QED
    BY <1>8, <2>1
<1>10. QED
  BY <1>2, <1>7, <1>9 DEF Nowhere, Holds, Kept, OnDisk, b

-----------------------------------------------------------------------------
\* A batch is not in the ledger that it was accepted for

FreshBatch ==
    \A p \in Proc : pc[p] \in {"journal", "jsync", "write"} => ~Holds(raw[p], batch[p])

\* raw is set when the batch is accepted, before anything of it is written.
LEMMA FreshStep == IInv /\ HInv /\ FreshBatch /\ [Next]_vars => FreshBatch'
<1> SUFFICES ASSUME IInv, HInv, FreshBatch, [Next]_vars PROVE FreshBatch'
  OBVIOUS
<1>1. TypeOK /\ UnwrittenNowhere /\ \A p \in Proc : AcceptedAt(p)
  BY DEF IInv, HInv
<1>2. ASSUME UNCHANGED vars \/ PowerLoss PROVE FreshBatch'
  BY <1>2 DEF vars, locals, PowerLoss, FreshBatch, Holds
<1>3. ASSUME NEW p \in Proc, AcceptBatch(p) PROVE FreshBatch'
  <2>1. batch[p] \in Batch /\ Unwritten(p) /\ ledger \in Kept
    BY <1>1, <1>3 DEF AcceptBatch, AcceptedAt, Unwritten, TypeOK, Kept, OnDisk
  <2>2. ~Holds(ledger, batch[p])
    BY <1>1, <2>1 DEF UnwrittenNowhere, Nowhere
  <2>3. raw'[p] = ledger /\ batch' = batch /\ \A q \in Proc \ {p} : raw'[q] = raw[q] /\ pc'[q] = pc[q]
    BY <1>1, <1>3 DEF AcceptBatch, Goto, TypeOK
  <2>4. QED
    BY <2>2, <2>3 DEF FreshBatch, Holds
<1>4. ASSUME NEW p \in Proc, \A q \in Proc \ {p} : raw'[q] = raw[q] /\ pc'[q] = pc[q] /\ batch'[q] = batch[q],
             pc'[p] \in {"journal", "jsync", "write"}
                => pc[p] \in {"journal", "jsync", "write"} /\ raw'[p] = raw[p] /\ batch'[p] = batch[p]
      PROVE  FreshBatch'
  BY <1>4 DEF FreshBatch, Holds
<1>5. ASSUME NEW p \in Proc, Finish(p) PROVE FreshBatch'
  BY <1>1, <1>4, <1>5 DEF Finish, TypeOK
<1>6. ASSUME NEW p \in Proc, Start(p) \/ Acquire(p) PROVE FreshBatch'
  BY <1>1, <1>4, <1>6 DEF Start, StartRead, StartAppend, Acquire, Goto, TypeOK
<1>7. ASSUME NEW p \in Proc, Step(p), ~AcceptBatch(p) PROVE FreshBatch'
  <2>1. ASSUME Truncate(p) \/ SyncTruncated(p) \/ SyncComplete(p) \/ Unlink(p) \/ InstallJournal(p)
                \/ SyncJournal(p) \/ WriteChunk(p) \/ SyncAppend(p)
        PROVE  FreshBatch'
    BY <1>1, <1>4, <2>1 DEF Truncate, SyncTruncated, SyncComplete, Unlink, InstallJournal, SyncJournal,
       WriteChunk, SyncAppend, Goto, TypeOK
  <2>2. ASSUME NEW l, l \in {"load", "unlink", "truncate", "sync"}, Goto(p, l), UNCHANGED <<batch, raw>>
        PROVE  FreshBatch'
    BY <1>1, <1>4, <2>2 DEF Goto, TypeOK
  <2>3. ASSUME RecoverNothing(p) \/ SyncDirectory(p) \/ Recover(p)
        PROVE  FreshBatch'
    BY <1>5, <2>2, <2>3 DEF RecoverNothing, SyncDirectory, Recover, Recovered, RecoveryRaises, Refuse,
       Doubt, Acknowledge, Verdict
  <2>4. QED
    BY <1>5, <1>7, <2>1, <2>3 DEF Step, LoadCorrupt, Read, RefuseBatch, Refuse
<1>8. ASSUME NEW p \in Proc, SystemFault(p) PROVE FreshBatch'
  <2>1. CASE AppendFails(p) \/ Kill(p)
    BY <1>1, <1>4, <2>1 DEF AppendFails, Kill, Goto, TypeOK
  <2>2. QED
    BY <1>5, <1>8, <2>1 DEF SystemFault, RecoveryFails, RemovalFails, PrepareFails, RecoveryRaises,
       Refuse, Doubt, Acknowledge
<1>9. QED
  BY <1>2, <1>3, <1>6, <1>7, <1>8 DEF Next

-----------------------------------------------------------------------------
\* What callers are told, as steps of the abstract log

AbstractStep == [Log!ANext]_(Log!avars)
SameView == AbstractLog' = AbstractLog /\ AbstractDoubt' = AbstractDoubt
Reports(S) == {BatchesOf(c) : c \in S}

\* The files stand for the same log and the same batch in doubt.
LEMMA SameFiles == UNCHANGED <<ledger, ledgerDisk, journal>> => SameView
BY DEF SameView, AbstractLog, AbstractDoubt, Undecided, Complete, HeadOf, BatchesOf

\* Nobody was told anything: a stutter, or the batch in doubt was decided.
LEMMA SilentStep ==
    ASSUME UNCHANGED history
    PROVE  /\ SameView => AbstractStep
           /\ Log!Commit \/ Log!RollBack => AbstractStep
<1>1. UNCHANGED <<expected, answer, Reports(promised)>>
  BY DEF history, Reports, BatchesOf
<1>2. SameView => AbstractStep
  BY <1>1 DEF SameView, AbstractStep, Log!avars, Reports
<1>3. Log!Commit \/ Log!RollBack => Log!Decide
  BY <1>1 DEF Log!Decide, Reports
<1>4. QED
  BY <1>2, <1>3 DEF AbstractStep, Log!ANext

\* Callers lost their answers, and the batch in doubt may have been decided.
LEMMA LostStep ==
    ASSUME NEW Lost \in SUBSET Batch, \A b \in Lost : answer[b] = "pending",
           answer' = [b \in Batch |-> IF b \in Lost THEN "unclear" ELSE answer[b]],
           UNCHANGED <<expected, promised>>,
           SameView \/ Log!Commit \/ Log!RollBack
    PROVE  AbstractStep
<1>1. UNCHANGED <<expected, Reports(promised)>>
  BY DEF Reports, BatchesOf
<1>2. Log!Fail(Lost)
  BY <1>1 DEF Log!Fail, SameView, Reports
<1>3. QED
  BY <1>2 DEF AbstractStep, Log!ANext

\* A process ends with an error that leaves its caller in doubt, or dies.
LEMMA DoubtStep ==
    ASSUME IInv, HInv, NEW p \in Proc, Tell(p, "unclear"), UNCHANGED <<expected, promised>>, SameView
    PROVE  AbstractStep
<1>1. TypeOK
  BY DEF IInv
<1>2. CASE batch[p] = NoBatch
  BY <1>2, SilentStep DEF Tell, history
<1>3. CASE batch[p] # NoBatch
  <2>1. {batch[p]} \in SUBSET Batch /\ answer[batch[p]] = "pending"
    BY <1>1, <1>3 DEF TypeOK, HInv, OwnBatch
  <2>2. answer' = [b \in Batch |-> IF b \in {batch[p]} THEN "unclear" ELSE answer[b]]
    BY <1>1, <1>3 DEF Tell, TypeOK
  <2>3. QED
    BY <2>1, <2>2, LostStep
<1>4. QED
  BY <1>2, <1>3

\* A batch that is nowhere is neither in the log nor in doubt.
LEMMA NowhereInLog ==
    ASSUME IInv, RInv, NEW b \in Batch, Nowhere(b)
    PROVE  ~Log!InLog(b) /\ AbstractDoubt # b
<1>1. TypeOK /\ View
  BY ViewOfFiles DEF IInv
<1>2. CASE Clear
  <2>1. AbstractLog = BatchesOf(ledger) /\ AbstractDoubt = NoBatch /\ ledger \in Kept
    BY <1>1, <1>2 DEF View, ClearView, Kept, OnDisk
  <2>2. ~Holds(ledger, b) /\ ledger \in Contents
    BY <1>1, <2>1 DEF Nowhere, TypeOK
  <2>3. QED
    BY <2>1, <2>2, LoggedIsHeld, NameAssumption DEF Log!InLog
<1>3. CASE ~Clear
  <2>1. AbstractLog = BatchesOf(journal.prefix) /\ journal \in Installed
    BY <1>1, <1>3 DEF View, DoubtView
  <2>2. journal.prefix \in Kept /\ journal.prefix \in Contents
    BY <1>1, <2>1, JournalParts DEF Kept
  <2>3. ~Holds(journal.prefix, b)
    BY <2>2 DEF Nowhere
  <2>4. AbstractDoubt # b
    BY <1>3, DoubtIsHeld
  <2>5. QED
    BY <2>1, <2>2, <2>3, <2>4, LoggedIsHeld DEF Log!InLog
<1>4. QED
  BY <1>2, <1>3

\* A process refuses its batch before anything of it is written.
LEMMA RefuseStep ==
    ASSUME IInv, HInv, RInv, NEW p \in Proc, Refuse(p), Unwritten(p), SameView
    PROVE  AbstractStep
<1>1. TypeOK /\ UNCHANGED <<expected, promised>> /\ Tell(p, "refused")
  BY DEF IInv, Refuse
<1>2. CASE batch[p] = NoBatch
  BY <1>1, <1>2, SilentStep DEF Tell, history
<1>3. CASE batch[p] # NoBatch
  <2>1. batch[p] \in Batch /\ answer[batch[p]] = "pending" /\ Nowhere(batch[p])
    BY <1>1, <1>3 DEF TypeOK, HInv, OwnBatch, UnwrittenNowhere
  <2>2. answer' = [answer EXCEPT ![batch[p]] = "refused"] /\ UNCHANGED Reports(promised)
    BY <1>1, <1>3 DEF Tell, Reports, BatchesOf
  <2>3. Log!Refuse(batch[p])
    BY <1>1, <2>1, <2>2, NowhereInLog DEF Log!Refuse, SameView, Reports
  <2>4. QED
    BY <2>1, <2>3 DEF AbstractStep, Log!ANext
<1>4. QED
  BY <1>2, <1>3

\* A process acknowledges its batch, which is the last of the log.
LEMMA AcknowledgeStep ==
    ASSUME IInv, HInv, RInv, NEW p \in Proc, Acknowledge(p), ctx[p] = "commit", SameView
    PROVE  AbstractStep
<1>1. TypeOK /\ AtLabel(p) /\ View
  BY ViewOfFiles DEF IInv
<1>2. /\ pc[p] \in {"unlink", "dirsync"} /\ batch[p] \in Batch /\ raw[p] \in Contents
      /\ ledger = OwnAppend(p) /\ ledgerDisk = {ledger} /\ ledger \in Contents
  BY <1>1 DEF AtLabel, TypeOK
<1>3. Clear
  <2>1. CASE pc[p] = "unlink"
    BY <2>1 DEF RInv, UnlinkSettled, Clear
  <2>2. CASE pc[p] = "dirsync"
    BY <1>1, <1>2, <2>2 DEF AtLabel, WithoutJournal, Clear
  <2>3. QED
    BY <1>2, <2>1, <2>2
<1>4. AbstractLog = BatchesOf(ledger) /\ WholeBatches(ledger)
  BY <1>1, <1>3 DEF View, ClearView
<1>5. HeadOf(ledger) = batch[p]
  BY <1>2, HeadOfAppended DEF OwnAppend
<1>6. AbstractLog # <<>> /\ AbstractLog[Len(AbstractLog)] = batch[p]
  <2>1. Log!Last0(AbstractLog) = batch[p]
    BY <1>2, <1>4, <1>5, LastBatch
  <2>2. QED
    BY <1>2, <2>1, NameAssumption DEF Log!Last0
<1>7. /\ answer[batch[p]] = "pending" /\ answer' = [answer EXCEPT ![batch[p]] = "acked"]
      /\ expected' = expected /\ promised' = promised \cup {ledger}
  BY <1>1, <1>2, NameAssumption DEF Acknowledge, Tell, HInv, OwnBatch, OwnAppend
<1>8. Reports(promised)' = Reports(promised) \cup {AbstractLog}
  BY <1>4, <1>7 DEF Reports, BatchesOf
<1>9. Log!Acknowledge(batch[p])
  BY <1>6, <1>7, <1>8 DEF Log!Acknowledge, SameView, Reports
<1>10. QED
  BY <1>2, <1>9 DEF AbstractStep, Log!ANext

-----------------------------------------------------------------------------
\* What the files stand for, before and after a step

Known == IInv /\ RInv

\* The files stand for one of the two views.
LEMMA KnownView == Known => View
BY ViewOfFiles DEF Known

\* The view of the next state, in terms of its files.
LEMMA NextView ==
    ASSUME Known'
    PROVE  /\ Clear' => AbstractLog' = BatchesOf(ledger') /\ AbstractDoubt' = NoBatch
           /\ ~Clear' => /\ AbstractLog' = BatchesOf(journal'.prefix) /\ AbstractDoubt' \in Batch
                         /\ journal'.pending = Bytes(AbstractDoubt')
<1>1. View'
  BY KnownView, PTL
<1>2. QED
  BY <1>1 DEF View, ClearView, DoubtView, BatchesOf, Bytes

\* No batch is in doubt before or after, and the ledger is the same.
LEMMA StillClear ==
    ASSUME Known, Known', Clear, Clear', ledger' = ledger
    PROVE  SameView
BY ViewOfFiles, NextView DEF Known, View, ClearView, SameView

\* The same batch is in doubt before and after.
LEMMA StillInDoubt ==
    ASSUME Known, Known', ~Clear, ~Clear', journal' = journal
    PROVE  SameView
<1>1. DoubtView
  BY ViewOfFiles DEF Known, View
<1>2. AbstractLog' = AbstractLog
  BY <1>1, NextView DEF DoubtView
<1>3. AbstractDoubt' \in Batch /\ Bytes(AbstractDoubt') = Bytes(AbstractDoubt)
  BY <1>1, NextView DEF DoubtView
<1>4. AbstractDoubt' = AbstractDoubt
  BY <1>1, <1>3, HeadOfBytes DEF DoubtView
<1>5. QED
  BY <1>2, <1>4 DEF SameView

\* The batch in doubt is decided: it is in the log, or it is gone.
LEMMA NowDecided ==
    ASSUME Known, Known', ~Clear, Clear', Settles(journal, ledger')
    PROVE  Log!Commit \/ Log!RollBack
<1>1. DoubtView
  BY ViewOfFiles DEF Known, View
<1>2. AbstractLog' = BatchesOf(ledger') /\ AbstractDoubt' = NoBatch /\ AbstractDoubt # NoBatch
  BY <1>1, NextView, NameAssumption DEF DoubtView
<1>3. CASE ledger' = journal.prefix
  BY <1>1, <1>2, <1>3 DEF DoubtView, Log!RollBack
<1>4. CASE ledger' = Final(journal)
  BY <1>1, <1>2, <1>4 DEF DoubtView, Log!Commit
<1>5. QED
  BY <1>3, <1>4 DEF Settles

\* A first chunk puts a batch in doubt.
LEMMA NowInDoubt ==
    ASSUME Known, Known', Clear, ~Clear', NEW b \in Batch,
           journal'.prefix = ledger, journal'.pending = Bytes(b),
           UNCHANGED history, answer[b] = "pending", ~Log!InLog(b),
           expected[b] \in {Omitted, HeadOf(ledger)}
    PROVE  AbstractStep
<1>1. ClearView /\ ledger \in Contents
  BY ViewOfFiles DEF Known, View, IInv, TypeOK
<1>2. AbstractLog' = AbstractLog /\ AbstractDoubt' \in Batch /\ Bytes(AbstractDoubt') = Bytes(b)
  BY <1>1, NextView DEF ClearView
<1>3. AbstractDoubt' = b
  BY <1>2, HeadOfBytes
<1>4. expected[b] \in {Omitted, Log!Last0(AbstractLog)}
  BY <1>1, LastBatch DEF ClearView
<1>5. UNCHANGED <<expected, answer, Reports(promised)>>
  BY DEF history, Reports, BatchesOf
<1>6. Log!Begin(b)
  BY <1>1, <1>2, <1>3, <1>4, <1>5 DEF ClearView, Log!Begin, Reports
<1>7. QED
  BY <1>6 DEF AbstractStep, Log!ANext

-----------------------------------------------------------------------------
\* The steps that change files

\* Cutting a partial append off decides nothing yet.
LEMMA TruncateView ==
    ASSUME Known, Known', NEW p \in Proc, Truncate(p)
    PROVE  SameView
<1>1. AtLabel(p) /\ pc[p] = "truncate" /\ ledger \in ledgerDisk
  BY DEF Known, IInv, RInv, Truncate
<1>2. journal # NoJournal /\ ledger # journal.prefix /\ ledger # Final(journal)
  BY <1>1 DEF AtLabel, WithJournal, Partial, Final
<1>3. ledger' = journal.prefix /\ ledger \in ledgerDisk' /\ journal' = journal
  BY <1>1 DEF Truncate
<1>4. ~Clear /\ ~Clear'
  BY <1>2, <1>3 DEF Clear, Settles
<1>5. QED
  BY <1>3, <1>4, StillInDoubt

\* The fsync of a rollback, of a recovered append and of an append decides.
LEMMA SyncDecides ==
    ASSUME Known, Known', NEW p \in Proc, SyncTruncated(p) \/ SyncComplete(p) \/ SyncAppend(p)
    PROVE  AbstractStep
<1>1. ledger' = ledger /\ ledgerDisk' = {ledger} /\ journal' = journal /\ UNCHANGED history
  BY DEF SyncTruncated, SyncComplete, SyncAppend, Synced
<1>2. Settles(journal, ledger)
  <2>1. pc'[p] = "unlink"
    BY DEF SyncTruncated, SyncComplete, SyncAppend, Goto, Known, IInv, TypeOK
  <2>2. Settles(journal, ledger)'
    BY <2>1 DEF Known, RInv, UnlinkSettled
  <2>3. QED
    BY <1>1, <2>2 DEF Settles, Final
<1>3. Clear' /\ Settles(journal, ledger')
  BY <1>1, <1>2 DEF Clear, Settles, Final
<1>4. QED
  BY <1>1, <1>3, StillClear, NowDecided, SilentStep

\* The journal comes and goes while the ledger is settled.
LEMMA JournalView ==
    ASSUME Known, Known', NEW p \in Proc, Unlink(p) \/ InstallJournal(p)
    PROVE  SameView
<1>1. ledger' = ledger /\ ledgerDisk' = ledgerDisk
  BY DEF Unlink, InstallJournal
<1>2. Clear
  BY DEF Unlink, InstallJournal, Known, RInv, BareIsWhole, UnlinkSettled, Clear
<1>3. Clear'
  <2>1. CASE Unlink(p)
    BY <1>1, <1>2, <2>1 DEF Unlink, Clear
  <2>2. CASE InstallJournal(p)
    <3>1. raw[p] = ledger
      BY <2>2 DEF InstallJournal, Known, IInv, AtLabel
    <3>2. Settles(journal, ledger)'
      BY <1>1, <2>2, <3>1 DEF InstallJournal, Settles
    <3>3. QED
      BY <1>1, <1>2, <3>2 DEF Clear
  <2>3. QED
    BY <2>1, <2>2
<1>4. QED
  BY <1>1, <1>2, <1>3, StillClear

\* The first chunk of a batch begins its append; the others change nothing.
LEMMA WriteBegins ==
    ASSUME Known, Known', HInv, FreshBatch, NEW p \in Proc, WriteChunk(p)
    PROVE  AbstractStep
<1>1. TypeOK /\ AtLabel(p) /\ pc[p] = "write" /\ ledger \in ledgerDisk
  BY DEF Known, IInv, RInv, WriteChunk
<1>2. /\ batch[p] \in Batch /\ journal = OwnJournal(p) /\ journal # NoJournal
      /\ IsPrefix(raw[p], ledger) /\ Len(ledger) - Len(raw[p]) < BatchLen
      /\ raw[p] \in Contents /\ ledger \in Contents
  BY <1>1 DEF AtLabel, TypeOK, WithJournal
<1>3. /\ Len(raw[p]) \in Nat /\ Len(ledger) \in Nat /\ Len(raw[p]) <= Len(ledger)
      /\ Len(OwnAppend(p)) = Len(raw[p]) + BatchLen /\ BatchLen \in Nat
  BY <1>2, PrefixPointwise, AppendedBytes, BatchAssumption DEF OwnAppend
<1>4. /\ ledger' = Append(ledger, [id |-> batch[p], at |-> (Len(ledger) - Len(raw[p])) + 1])
      /\ ledgerDisk' = ledgerDisk \cup {ledger'} /\ journal' = journal /\ UNCHANGED history
  BY DEF WriteChunk
<1>5. Len(ledger') = Len(ledger) + 1
  BY <1>2, <1>4 DEF Contents
<1>6. journal.prefix = raw[p] /\ journal.pending = Bytes(batch[p]) /\ Final(journal) = OwnAppend(p)
  BY <1>2 DEF OwnJournal, OwnAppend, Final
<1>7. ~Clear'
  <2>1. ledger \in ledgerDisk' /\ ledger # ledger'
    BY <1>1, <1>3, <1>4, <1>5
  <2>2. QED
    BY <2>1 DEF Clear
<1>8. CASE ~Clear
  BY <1>4, <1>7, <1>8, StillInDoubt, SilentStep
<1>9. CASE Clear
  <2>1. ledger # OwnAppend(p)
    BY <1>2, <1>3
  <2>2. ledger = raw[p]
    BY <1>2, <1>6, <1>9, <2>1 DEF Clear, Settles
  <2>3. answer[batch[p]] = "pending" /\ expected[batch[p]] \in {Omitted, HeadOf(ledger)}
    BY <1>1, <1>2, <2>2 DEF HInv, OwnBatch, AcceptedAt
  <2>4. ~Log!InLog(batch[p])
    <3>1. AbstractLog = BatchesOf(ledger)
      BY <1>9, ViewOfFiles DEF Known, View, ClearView
    <3>2. ~Holds(ledger, batch[p])
      BY <1>1, <2>2 DEF FreshBatch
    <3>3. QED
      BY <1>2, <3>1, <3>2, LoggedIsHeld DEF Log!InLog
  <2>5. QED
    BY <1>2, <1>4, <1>6, <1>7, <1>9, <2>2, <2>3, <2>4, NowInDoubt
<1>10. QED
  BY <1>8, <1>9

\* A loss of power takes every process, and decides the batch in doubt unless the
\* disk was left with a part of it.
LEMMA PowerDecides ==
    ASSUME Known, Known', PowerLoss
    PROVE  AbstractStep
<1>1. /\ ledger' \in ledgerDisk /\ ledgerDisk' = {ledger'} /\ journal' \in journalDisk
      /\ answer' = [b \in Batch |-> IF answer[b] = "pending" THEN "unclear" ELSE answer[b]]
      /\ UNCHANGED <<expected, promised>>
  BY DEF PowerLoss
<1>2. SameView \/ Log!Commit \/ Log!RollBack
  <2>1. CASE Clear
    <3>1. ledger' = ledger /\ ledgerDisk' = {ledger'}
      BY <1>1, <2>1 DEF Clear
    <3>2. journal' = NoJournal \/ Settles(journal', ledger')
      BY <1>1, <2>1, <3>1 DEF Clear, Known, RInv, JournalsWhole, Installed
    <3>3. Clear'
      BY <3>1, <3>2 DEF Clear, Settles, Final
    <3>4. QED
      BY <2>1, <3>1, <3>3, StillClear
  <2>2. CASE ~Clear
    <3>1. journal' = journal /\ journal # NoJournal
      BY <1>1, <2>2, ViewOfFiles DEF Known, View, DoubtView, Installed
    <3>2. CASE Clear'
      BY <2>2, <3>1, <3>2, NowDecided DEF Clear, Settles, Final
    <3>3. CASE ~Clear'
      BY <2>2, <3>1, <3>3, StillInDoubt
    <3>4. QED
      BY <3>2, <3>3
  <2>3. QED
    BY <2>1, <2>2
<1>3. \E Lost \in SUBSET Batch : Lost = {b \in Batch : answer[b] = "pending"}
  OBVIOUS
<1>4. PICK Lost \in SUBSET Batch : Lost = {b \in Batch : answer[b] = "pending"}
  BY <1>3
<1>5. answer' = [b \in Batch |-> IF b \in Lost THEN "unclear" ELSE answer[b]]
  BY <1>1, <1>4
<1>6. \A b \in Lost : answer[b] = "pending"
  BY <1>4
<1>7. QED
  BY <1>1, <1>2, <1>5, <1>6, LostStep

-----------------------------------------------------------------------------
\* Every step implements a step of the atomic log, or a stutter

\* How an operation ends, or goes on, without a change of what the files stand for.
LEMMA Endings ==
    ASSUME Known, HInv, NEW p \in Proc, SameView
    PROVE  /\ UNCHANGED history => AbstractStep
           /\ Doubt(p) => AbstractStep
           /\ Refuse(p) /\ Unwritten(p) => AbstractStep
           /\ Acknowledge(p) /\ ctx[p] = "commit" => AbstractStep
           /\ RecoveryRaises(p) /\ pc[p] \notin {"write", "writesync"} => AbstractStep
<1>1. UNCHANGED history => AbstractStep
  BY SilentStep
<1>2. Doubt(p) => AbstractStep
  BY DoubtStep DEF Doubt, Known
<1>3. Refuse(p) /\ Unwritten(p) => AbstractStep
  BY RefuseStep DEF Known
<1>4. Acknowledge(p) /\ ctx[p] = "commit" => AbstractStep
  BY AcknowledgeStep DEF Known
<1>5. RecoveryRaises(p) /\ pc[p] \notin {"write", "writesync"} => AbstractStep
  BY <1>2, <1>3 DEF RecoveryRaises, Unwritten
<1>6. QED
  BY <1>1, <1>2, <1>3, <1>4, <1>5

\* Commands start and wait for the lock.
LEMMA StartImplements ==
    ASSUME Known, NEW p \in Proc, Start(p) \/ Acquire(p)
    PROVE  AbstractStep
<1>1. CASE StartRead(p) \/ Acquire(p)
  BY <1>1, SameFiles, SilentStep DEF StartRead, Acquire, disk
<1>2. ASSUME NEW b \in Batch, NEW e \in Batch \cup {NoBatch, Omitted}, StartAppend(p, b, e)
      PROVE  AbstractStep
  <2>1. SameView /\ UNCHANGED Reports(promised)
    BY <1>2, SameFiles DEF StartAppend, disk, Reports, BatchesOf
  <2>2. Log!Submit(b, e)
    BY <1>2, <2>1 DEF StartAppend, Log!Submit, SameView, Reports
  <2>3. QED
    BY <2>2 DEF AbstractStep, Log!ANext
<1>3. QED
  BY <1>1, <1>2 DEF Start

\* A read reports the log, and no batch is in doubt then.
LEMMA ReadImplements ==
    ASSUME Known, NEW p \in Proc, Read(p)
    PROVE  AbstractStep
<1>1. SameView /\ UNCHANGED <<expected, answer>> /\ promised' = promised \cup {ledger}
  BY SameFiles DEF Read, disk
<1>2. AbstractLog = BatchesOf(ledger) /\ AbstractDoubt = NoBatch
  <2>1. Clear
    BY DEF Read, Known, IInv, AtLabel, WithoutJournal, RInv, BareIsWhole, Clear
  <2>2. QED
    BY <2>1, KnownView DEF View, ClearView
<1>3. Reports(promised)' = Reports(promised) \cup {AbstractLog}
  BY <1>1, <1>2 DEF Reports, BatchesOf
<1>4. Log!Report
  BY <1>1, <1>2, <1>3 DEF Log!Report, SameView, Reports
<1>5. QED
  BY <1>4 DEF AbstractStep, Log!ANext

\* What a process does on its own while it holds the lock.
LEMMA WorkImplements ==
    ASSUME Known, Known', HInv, FreshBatch, NEW p \in Proc, Step(p)
    PROVE  AbstractStep
<1>1. AcceptedAt(p)
  BY DEF HInv
<1>2. CASE RecoverNothing(p) \/ SyncDirectory(p)
  <2>1. SameView
    BY <1>2, SameFiles DEF RecoverNothing, SyncDirectory, disk
  <2>2. Recovered(p) => AbstractStep
    BY <2>1, Endings DEF Recovered, history
  <2>3. QED
    BY <1>2, <2>1, <2>2, Endings DEF RecoverNothing, SyncDirectory
<1>3. CASE Recover(p)
  <2>1. SameView
    BY <1>3, SameFiles DEF Recover, disk
  <2>2. pc[p] = "recover" /\ (RecoveryRaises(p) \/ UNCHANGED history)
    BY <1>3 DEF Recover, history
  <2>3. QED
    BY <2>1, <2>2, Endings
<1>4. CASE LoadCorrupt(p) \/ RefuseBatch(p)
  <2>1. SameView /\ Refuse(p) /\ pc[p] = "load"
    BY <1>4, SameFiles DEF LoadCorrupt, RefuseBatch, disk
  <2>2. QED
    BY <1>1, <2>1, Endings DEF AcceptedAt, Unwritten
<1>5. CASE AcceptBatch(p) \/ SyncJournal(p)
  BY <1>5, SameFiles, SilentStep DEF AcceptBatch, SyncJournal, disk
<1>6. CASE Truncate(p) \/ Unlink(p) \/ InstallJournal(p)
  BY <1>6, TruncateView, JournalView, SilentStep DEF Truncate, Unlink, InstallJournal
<1>7. QED
  BY <1>2, <1>3, <1>4, <1>5, <1>6, ReadImplements, SyncDecides, WriteBegins DEF Step

\* An OSError, an interrupt or the death of a process.
LEMMA FaultImplements ==
    ASSUME Known, HInv, NEW p \in Proc, SystemFault(p)
    PROVE  AbstractStep
<1>1. SameView /\ AcceptedAt(p)
  BY SameFiles
     DEF SystemFault, RecoveryFails, RemovalFails, PrepareFails, AppendFails, Kill, disk, HInv
<1>2. CASE RecoveryFails(p)
  BY <1>1, <1>2, Endings DEF RecoveryFails
<1>3. CASE RemovalFails(p)
  BY <1>1, <1>3, Endings DEF RemovalFails
<1>4. CASE PrepareFails(p)
  BY <1>1, <1>4, Endings DEF PrepareFails, AcceptedAt, Unwritten
<1>5. CASE AppendFails(p)
  BY <1>1, <1>5, SilentStep DEF AppendFails
<1>6. CASE Kill(p)
  BY <1>1, <1>6, DoubtStep DEF Kill, Known
<1>7. QED
  BY <1>2, <1>3, <1>4, <1>5, <1>6 DEF SystemFault

\* Every step of the protocol is a step of the atomic log or a stutter.
LEMMA EveryStep ==
    IInv /\ RInv /\ HInv /\ FreshBatch /\ [Next]_vars /\ (IInv /\ RInv)' => AbstractStep
<1> SUFFICES ASSUME Known, Known', HInv, FreshBatch, [Next]_vars PROVE AbstractStep
  BY DEF Known
<1>1. CASE UNCHANGED vars
  BY <1>1, SameFiles, SilentStep DEF vars, disk
<1>2. CASE PowerLoss
  BY <1>2, PowerDecides
<1>3. ASSUME NEW p \in Proc, Start(p) \/ Acquire(p) \/ Step(p) \/ SystemFault(p) PROVE AbstractStep
  BY <1>3, StartImplements, WorkImplements, FaultImplements
<1>4. QED
  BY <1>1, <1>2, <1>3 DEF Next

\* The empty ledger is the empty log.
LEMMA InitImplements == Init => Log!AInit /\ FreshBatch
<1> SUFFICES ASSUME Init PROVE Log!AInit /\ FreshBatch
  OBVIOUS
<1>1. AbstractLog = <<>> /\ AbstractDoubt = NoBatch
  BY EmptyWhole DEF Init, AbstractLog, AbstractDoubt, Undecided
<1>2. {BatchesOf(s) : s \in promised} = {}
  BY DEF Init
<1>3. QED
  BY <1>1, <1>2 DEF Init, Log!AInit, FreshBatch

\* The storage protocol of files, journal, fsyncs and locks, with kills, I/O errors
\* and losses of power, implements the atomic log that falsiq/ledger.py promises:
\* batches enter it whole, in order and at the head they expected, a caller is told
\* only what the log will keep to, and a fault decides at most the batch in doubt.
THEOREM StorageImplementsLog ==
    ASSUME "torn" \notin Faults
    PROVE  Spec => ImplementsAtomicLog
<1>1. IInv /\ RInv /\ [Next]_vars => RInv'
  BY FilesInductive
<1>2. IInv /\ RInv /\ HInv /\ FreshBatch /\ [Next]_vars /\ (IInv /\ RInv)' => [Log!ANext]_(Log!avars)
  BY EveryStep DEF AbstractStep
<1>3. QED
  BY InitIInv, Inductive, InitRInv, InitHInv, HistoryStep, InitImplements, FreshStep, <1>1, <1>2, PTL
     DEF Spec, ImplementsAtomicLog, Log!ASpec

=============================================================================
