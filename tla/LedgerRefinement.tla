-------------------------- MODULE LedgerRefinement --------------------------
(***************************************************************************)
(* LedgerStore implements AtomicLog.  The commit point of a batch is the   *)
(* moment the disk can hold nothing less than all of it: the fsync of the  *)
(* append, the fsync of a recovery that found the bytes complete, or the   *)
(* power loss that left all of them.                                       *)
(***************************************************************************)
EXTENDS MCLedgerStore

\* Some disk content has bytes of the journalled batch, and some lacks the rest
Undecided ==
    /\ journal # NoJournal
    /\ \E c \in ledgerDisk : c # journal.prefix
    /\ \E c \in ledgerDisk : ~Complete(c, journal)

BatchesOf(c) == [i \in 1 .. Len(c) \div BatchLen |-> c[i * BatchLen].id]

AbstractLog == BatchesOf(IF Undecided THEN journal.prefix ELSE ledger)
AbstractDoubt == IF Undecided THEN HeadOf(journal.pending) ELSE NoBatch

Log == INSTANCE AtomicLog WITH
    log <- AbstractLog,
    doubt <- AbstractDoubt,
    reported <- {BatchesOf(s) : s \in promised}

\* Every behaviour of the storage protocol is a behaviour of the atomic log:
\* batches enter whole and in order, reads return exactly the log, and crashes
\* decide at most the one batch in doubt.
ImplementsAtomicLog == Log!ASpec

=============================================================================
