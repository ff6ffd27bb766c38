----------------------------- MODULE AtomicLog -----------------------------
(***************************************************************************)
(* What falsiq/ledger.py promises its callers, without files, journal or   *)
(* locks: one log of batches that only grows, one batch at a time, each    *)
(* batch entering it whole and right after the head it expected.  A caller *)
(* is told "acked" only of a batch in the log and "refused" only of a      *)
(* batch that never enters it; an error or a crash in between leaves the   *)
(* caller in doubt, and the batch may still enter the log or vanish.       *)
(***************************************************************************)
EXTENDS Sequences, Naturals

CONSTANTS Batch, NoBatch, Omitted

VARIABLES
    log,        \* the batches of the ledger, in order
    doubt,      \* the batch whose append has begun and is not decided
    expected,   \* the head each batch was submitted with
    answer,     \* what the caller of append_batch was told
    reported    \* the logs that reads and acknowledgements have shown

avars == <<log, doubt, expected, answer, reported>>

Last0(s) == IF s = <<>> THEN NoBatch ELSE s[Len(s)]
InLog(b) == \E i \in 1 .. Len(log) : log[i] = b

AInit ==
    /\ log = <<>>
    /\ doubt = NoBatch
    /\ expected = [b \in Batch |-> Omitted]
    /\ answer = [b \in Batch |-> "new"]
    /\ reported = {}

Submit(b, e) ==
    /\ answer[b] = "new"
    /\ answer' = [answer EXCEPT ![b] = "pending"]
    /\ expected' = [expected EXCEPT ![b] = e]
    /\ UNCHANGED <<log, doubt, reported>>

Begin(b) ==
    /\ answer[b] = "pending"
    /\ doubt = NoBatch
    /\ ~InLog(b)
    /\ expected[b] \in {Omitted, Last0(log)}
    /\ doubt' = b
    /\ UNCHANGED <<log, expected, answer, reported>>

Commit ==
    /\ doubt # NoBatch
    /\ log' = Append(log, doubt)
    /\ doubt' = NoBatch

RollBack ==
    /\ doubt # NoBatch
    /\ doubt' = NoBatch
    /\ log' = log

Decide == (Commit \/ RollBack) /\ UNCHANGED <<expected, answer, reported>>

\* A failure of one caller, or of all of them at once, which may also decide
\* the batch in doubt
Fail(Lost) ==
    /\ \A b \in Lost : answer[b] = "pending"
    /\ answer' = [b \in Batch |-> IF b \in Lost THEN "unclear" ELSE answer[b]]
    /\ Commit \/ RollBack \/ UNCHANGED <<log, doubt>>
    /\ UNCHANGED <<expected, reported>>

Refuse(b) ==
    /\ answer[b] = "pending"
    /\ ~InLog(b) /\ doubt # b
    /\ answer' = [answer EXCEPT ![b] = "refused"]
    /\ UNCHANGED <<log, doubt, expected, reported>>

Acknowledge(b) ==
    /\ answer[b] = "pending"
    /\ log # <<>> /\ log[Len(log)] = b
    /\ answer' = [answer EXCEPT ![b] = "acked"]
    /\ reported' = reported \cup {log}
    /\ UNCHANGED <<log, doubt, expected>>

\* A read waits until no batch is in doubt
Report ==
    /\ doubt = NoBatch
    /\ reported' = reported \cup {log}
    /\ UNCHANGED <<log, doubt, expected, answer>>

ANext ==
    \/ Decide \/ Report
    \/ \E Lost \in SUBSET Batch : Fail(Lost)
    \/ \E b \in Batch :
          \/ \E e \in Batch \cup {NoBatch, Omitted} : Submit(b, e)
          \/ Begin(b) \/ Refuse(b) \/ Acknowledge(b)

ASpec == AInit /\ [][ANext]_avars

=============================================================================
