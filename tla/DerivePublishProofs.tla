------------------------ MODULE DerivePublishProofs ------------------------
(***************************************************************************)
(* Four theorems about DerivePublish, for any number of processes, any     *)
(* responses and any faults.                                               *)
(*                                                                         *)
(* TypeCorrect: the types.  First(S) is an output only when S has one, so  *)
(* the types rest on what a publication has left to do (OngoingAt).        *)
(*                                                                         *)
(* CommittedStays: a derivation in the ledger keeps its artifacts.  A      *)
(* rollback starts when a publication fails, which is before the append,   *)
(* or when the commit status says that the fact is absent.  The invariant  *)
(* says what the ledger holds of a process since it read (HistoryAt):      *)
(* nothing until its append, and at most its own fact, next to what it     *)
(* read, when the append ended without an answer.                          *)
(*                                                                         *)
(* SubmissionRepairs: a submission that ended well left what it committed. *)
(* Only the holder of the derive lock changes artifacts or appends a       *)
(* derivation, so what it published stays and its fact stays the latest    *)
(* derivation until it unlocks (HeldAt).                                   *)
(*                                                                         *)
(* RestingFilesCommitted: the files at rest are the committed ones.  The   *)
(* holder of the lock can always restore them (Restorable): an output that *)
(* it moved away is in its backups, one that it published where none was   *)
(* is recorded in placed, and any other is untouched.  With its fact in    *)
(* the ledger they are its own (RestAt).                                   *)
(***************************************************************************)
EXTENDS DerivePublish, TLAPS

\* A submission between its read and its end
Submitting == {"lock", "backup", "install", "append", "status", "undo", "drop", "keep"}

\* It has a response, a ledger it read, and something left to publish
OngoingAt(p) ==
    /\ pc[p] \in Submitting => reply[p] \in Responses /\ seen[p] \in 1 .. MaxLedger - 1
    /\ pc[p] \in {"idle", "lock"} => placed[p] = {}
    /\ pc[p] \in {"backup", "install"} => placed[p] \subseteq Wanted(p) /\ placed[p] # Wanted(p)

By(fact, p) == IsDerivation(fact) /\ fact.by = p

\* Process p has not appended since it read the ledger
Unpublished(p) == \A i \in seen[p] + 1 .. Len(ledger) : ~By(ledger[i], p)

\* If it has, then its fact comes right after what it read
AtMostFact(p) ==
    \A i \in seen[p] + 1 .. Len(ledger) :
        By(ledger[i], p) => i = seen[p] + 1 /\ ledger[i] = Fact(p)

NotYet == {"lock", "backup", "install", "append", "undo"}

HistoryAt(p) ==
    /\ pc[p] \in NotYet => Unpublished(p)
    /\ pc[p] = "status" => AtMostFact(p)

Story == \A p \in Proc : OngoingAt(p) /\ HistoryAt(p)

IInv == TypeOK /\ Story

-----------------------------------------------------------------------------
\* What a process makes of the ledger depends on what it read only

\* A ledger that grows keeps what was read from it
LEMMA ReadStays ==
    ASSUME NEW s \in Seq(Facts), NEW t \in Seq(Facts), NEW n \in 0 .. Len(s),
           t = s \/ \E e \in Facts : t = Append(s, e)
    PROVE  SubSeq(t, 1, n) = SubSeq(s, 1, n)
OBVIOUS

\* What is read of a ledger is a ledger of that length
LEMMA ReadTyped ==
    ASSUME NEW s \in Seq(Facts), NEW n \in 0 .. Len(s)
    PROVE  SubSeq(s, 1, n) \in Seq(Facts) /\ Len(SubSeq(s, 1, n)) = n
OBVIOUS

\* First picks one of the outputs it is given
LEMMA FirstIn ==
    ASSUME NEW S \in SUBSET Outputs, S # {}
    PROVE  First(S) \in S
<1> DEFINE Before(f) == \A g \in S : f = "brief" \/ f = g \/ g = "tests"
<1>1. \E f \in S : Before(f)
  <2>1. CASE "brief" \in S
    BY <2>1
  <2>2. CASE "brief" \notin S /\ "json" \in S
    BY <2>2 DEF Outputs
  <2>3. CASE S = {"tests"}
    BY <2>3
  <2> QED
    BY <2>1, <2>2, <2>3 DEF Outputs
<1> QED
  BY <1>1, Zenon DEF First

\* The artifacts of a response are contents of files
LEMMA ArtifactsTyped ==
    ASSUME NEW s \in Seq(Facts), Len(s) \in 1 .. MaxLedger, NEW r \in Responses
    PROVE  Artifacts(s, r) \in [Outputs -> Contents]
BY DEF Artifacts, Contents

\* The fact of a submission, and the outputs it publishes
LEMMA FactTyped ==
    ASSUME TypeOK, NEW p \in Proc, reply[p] \in Responses, seen[p] \in 1 .. MaxLedger
    PROVE  /\ Mine(p) \in [Outputs -> Contents]
           /\ Fact(p) \in Facts
           /\ "tests" \in Wanted(p)
           /\ Wanted(p) \subseteq Outputs
<1>1. seen[p] \in 0 .. Len(ledger)
  BY DEF TypeOK
<1>2. Mine(p) \in [Outputs -> Contents]
  BY <1>1, ReadTyped, ArtifactsTyped DEF Mine, Read, TypeOK
<1>3. Fact(p) \in Facts
  BY <1>2 DEF Fact, Facts
<1>4. "tests" \in Wanted(p)
  BY PublishAssumption DEF Wanted, Mine, Artifacts, Outputs
<1> QED
  BY <1>2, <1>3, <1>4 DEF Wanted

-----------------------------------------------------------------------------
\* One step

\* The ledger grows by at most one fact, which is not of process p
GrowsWithout(p) ==
    ledger' = ledger \/ \E e \in Facts : ledger' = Append(ledger, e) /\ ~By(e, p)

Grows == ledger' = ledger \/ \E e \in Facts : ledger' = Append(ledger, e)

StandsStill(p) ==
    /\ pc'[p] = pc[p] /\ seen'[p] = seen[p] /\ reply'[p] = reply[p] /\ placed'[p] = placed[p]

\* What a process wants to publish does not depend on what others append
LEMMA MineStays ==
    ASSUME TypeOK, TypeOK', Grows, NEW p \in Proc,
           seen'[p] = seen[p], reply'[p] = reply[p]
    PROVE  Mine(p)' = Mine(p) /\ Wanted(p)' = Wanted(p) /\ Fact(p)' = Fact(p)
<1>1. seen[p] \in 0 .. Len(ledger) /\ ledger \in Seq(Facts) /\ ledger' \in Seq(Facts)
  BY DEF TypeOK
<1>2. Read(p)' = Read(p)
  BY <1>1, ReadStays DEF Read, Grows
<1>3. Mine(p)' = Mine(p)
  BY <1>2 DEF Mine
<1> QED
  BY <1>3 DEF Wanted, Fact

\* A process that stands still keeps its part of the invariant
LEMMA Bystander ==
    ASSUME TypeOK, TypeOK', NEW p \in Proc, OngoingAt(p), HistoryAt(p), StandsStill(p),
           GrowsWithout(p)
    PROVE  OngoingAt(p)' /\ HistoryAt(p)'
<1>1. Wanted(p)' = Wanted(p) /\ Fact(p)' = Fact(p)
  BY MineStays DEF GrowsWithout, Grows, StandsStill
<1>2. OngoingAt(p)'
  BY <1>1 DEF OngoingAt, StandsStill
<1>3. ASSUME NEW i \in seen[p] + 1 .. Len(ledger'), By(ledger'[i], p)
      PROVE  i \in seen[p] + 1 .. Len(ledger) /\ ledger'[i] = ledger[i]
  BY <1>3 DEF GrowsWithout, TypeOK
<1>4. Unpublished(p) => Unpublished(p)'
  BY <1>3 DEF Unpublished, StandsStill
<1>5. AtMostFact(p) => AtMostFact(p)'
  BY <1>1, <1>3 DEF AtMostFact, StandsStill
<1> QED
  BY <1>2, <1>4, <1>5 DEF HistoryAt, StandsStill


-----------------------------------------------------------------------------
\* The types

\* A backup is added or put back
LEMMA BackupsChange ==
    ASSUME NEW b \in Backups, NEW f \in Outputs
    PROVE  /\ DOMAIN b \in SUBSET Outputs
           /\ \A g \in DOMAIN b : b[g] \in Contents
           /\ \A c \in Contents : [g \in DOMAIN b \cup {f} |-> IF g = f THEN c ELSE b[g]] \in Backups
           /\ [g \in DOMAIN b \ {f} |-> b[g]] \in Backups
<1>1. PICK S \in SUBSET Outputs : b \in [S -> Contents]
  BY DEF Backups
<1>2. ASSUME NEW c \in Contents
      PROVE  [g \in DOMAIN b \cup {f} |-> IF g = f THEN c ELSE b[g]] \in Backups
  <2>1. [g \in DOMAIN b \cup {f} |-> IF g = f THEN c ELSE b[g]] \in [S \cup {f} -> Contents]
    BY <1>1
  <2> QED
    BY <2>1 DEF Backups
<1>3. [g \in DOMAIN b \ {f} |-> b[g]] \in Backups
  <2>1. [g \in DOMAIN b \ {f} |-> b[g]] \in [S \ {f} -> Contents]
    BY <1>1
  <2> QED
    BY <2>1 DEF Backups
<1> QED
  BY <1>1, <1>2, <1>3

\* A publication starts without backups
LEMMA NoBackups == <<>> \in Backups
<1>1. <<>> \in [{} -> Contents]
  OBVIOUS
<1> QED
  BY <1>1 DEF Backups

\* A missing and an edited file are contents too
LEMMA AbsentTyped == Absent \in Contents /\ Edited \in Contents
BY DEF Contents

\* A fault is counted within its bound
LEMMA FaultTyped ==
    ASSUME TypeOK, NEW kind, Fault(kind)
    PROVE  faults' \in [handled : 0 .. MaxFaults, worse : 0 .. MaxFaults]
BY PublishAssumption DEF Fault, TypeOK

\* A process leaves with nothing
LEMMA LeaveTyped ==
    ASSUME TypeOK, NEW p \in Proc, Leave(p), ledger' = ledger
    PROVE  /\ pc' \in [Proc -> Labels]
           /\ seen' \in [Proc -> 0 .. Len(ledger')]
           /\ reply' \in [Proc -> Responses \cup {Absent}]
           /\ placed' \in [Proc -> SUBSET Outputs]
           /\ moved' \in [Proc -> Backups]
BY NoBackups DEF TypeOK, Leave, Labels

\* The next output to publish
LEMMA NextTyped ==
    ASSUME TypeOK, NEW p \in Proc, OngoingAt(p), pc[p] \in {"backup", "install"}
    PROVE  /\ Next1(p) \in Wanted(p) \ placed[p]
           /\ Next1(p) \in Outputs
           /\ Mine(p)[Next1(p)] \in Contents
<1>1. reply[p] \in Responses /\ seen[p] \in 1 .. MaxLedger
  BY PublishAssumption DEF OngoingAt, Submitting
<1>2. Wanted(p) \ placed[p] # {} /\ Wanted(p) \ placed[p] \in SUBSET Outputs
  BY <1>1, FactTyped DEF OngoingAt
<1>3. Next1(p) \in Wanted(p) \ placed[p]
  BY <1>2, FirstIn DEF Next1
<1> QED
  BY <1>1, <1>2, <1>3, FactTyped

\* The fact that a submission appends keeps the ledger within its types
LEMMA NewFactTyped ==
    ASSUME TypeOK, NEW p \in Proc, OngoingAt(p), pc[p] = "append",
           seen[p] = Len(ledger), ledger' = Append(ledger, Fact(p))
    PROVE  /\ Fact(p) \in Facts
           /\ ledger' \in Seq(Facts)
           /\ Len(ledger') = Len(ledger) + 1
           /\ Len(ledger') \in 1 .. MaxLedger
<1>1. reply[p] \in Responses /\ seen[p] \in 1 .. MaxLedger - 1
  BY DEF OngoingAt, Submitting
<1>2. Fact(p) \in Facts
  BY <1>1, FactTyped, PublishAssumption
<1> QED
  BY <1>1, <1>2, PublishAssumption DEF TypeOK

\* Every step keeps the types
LEMMA TypesKept ==
    ASSUME TypeOK, \A p \in Proc : OngoingAt(p), [Next]_vars
    PROVE  TypeOK'
<1>1. ASSUME NEW p \in Proc, Submit(p) PROVE TypeOK'
  BY <1>1 DEF Submit, Goto, TypeOK, Labels, locals
<1>2. ASSUME NEW p \in Proc, Lock(p) PROVE TypeOK'
  BY <1>2 DEF Lock, Goto, TypeOK, Labels
<1>3. ASSUME NEW p \in Proc, Backup(p) PROVE TypeOK'
  <2>1. Next1(p) \in Outputs
    BY <1>3, NextTyped DEF Backup
  <2>2. files' \in [Outputs -> Contents]
    BY <1>3, <2>1, AbsentTyped DEF Backup, TypeOK
  <2>3. moved' \in [Proc -> Backups]
    <3> DEFINE b == moved[p]
               more == [g \in DOMAIN b \cup {Next1(p)} |->
                           IF g = Next1(p) THEN files[Next1(p)] ELSE b[g]]
    <3>1. b \in Backups /\ files[Next1(p)] \in Contents
      BY <2>1 DEF TypeOK
    <3>2. more \in Backups
      BY <2>1, <3>1, BackupsChange
    <3>3. moved' = moved \/ moved' = [moved EXCEPT ![p] = more]
      BY <1>3 DEF Backup
    <3> QED
      BY <3>2, <3>3 DEF TypeOK
  <2> QED
    BY <1>3, <2>2, <2>3 DEF Backup, Goto, TypeOK, Labels
<1>4. ASSUME NEW p \in Proc, Install(p) PROVE TypeOK'
  <2>1. Next1(p) \in Outputs /\ Mine(p)[Next1(p)] \in Contents
    BY <1>4, NextTyped DEF Install
  <2>2. files' \in [Outputs -> Contents]
    BY <1>4, <2>1 DEF Install, TypeOK
  <2>3. placed' \in [Proc -> SUBSET Outputs]
    BY <1>4, <2>1 DEF Install, TypeOK
  <2> QED
    BY <1>4, <2>2, <2>3 DEF Install, Goto, TypeOK, Labels
<1>5. ASSUME NEW p \in Proc, PublishFails(p) PROVE TypeOK'
  BY <1>5, FaultTyped DEF PublishFails, Goto, TypeOK, Labels
<1>6. ASSUME NEW p \in Proc, Interrupted(p) PROVE TypeOK'
  <2>1. Next1(p) \in Outputs /\ Mine(p)[Next1(p)] \in Contents
    BY <1>6, NextTyped DEF Interrupted
  <2>2. files' \in [Outputs -> Contents]
    BY <1>6, <2>1, AbsentTyped DEF Interrupted, TypeOK
  <2> QED
    BY <1>6, <2>2, FaultTyped DEF Interrupted, Goto, TypeOK, Labels
<1>7. ASSUME NEW p \in Proc, AppendFact(p) PROVE TypeOK'
  <2>1. CASE UNCHANGED ledger
    BY <1>7, <2>1 DEF AppendFact, Goto, TypeOK, Labels
  <2>2. CASE seen[p] = Len(ledger) /\ ledger' = Append(ledger, Fact(p))
    <3>1. /\ ledger' \in Seq(Facts)
          /\ Len(ledger') = Len(ledger) + 1
          /\ Len(ledger') \in 1 .. MaxLedger
      BY <1>7, <2>2, NewFactTyped DEF AppendFact
    <3>2. seen' \in [Proc -> 0 .. Len(ledger')]
      BY <1>7, <3>1 DEF AppendFact, TypeOK
    <3>3. pc' \in [Proc -> Labels]
      BY <1>7 DEF AppendFact, Goto, TypeOK, Labels
    <3> QED
      BY <1>7, <3>1, <3>2, <3>3 DEF AppendFact, TypeOK
  <2> QED
    BY <1>7, <2>1, <2>2 DEF AppendFact
<1>8. ASSUME NEW p \in Proc, AppendRaises(p) PROVE TypeOK'
  <2>1. CASE UNCHANGED ledger
    BY <1>8, <2>1, FaultTyped DEF AppendRaises, Goto, TypeOK, Labels
  <2>2. CASE seen[p] = Len(ledger) /\ ledger' = Append(ledger, Fact(p))
    BY <1>8, <2>2, NewFactTyped, FaultTyped DEF AppendRaises, Goto, TypeOK, Labels
  <2> QED
    BY <1>8, <2>1, <2>2 DEF AppendRaises
<1>9. ASSUME NEW p \in Proc, Status(p) PROVE TypeOK'
  BY <1>9 DEF Status, Goto, TypeOK, Labels
<1>10. ASSUME NEW p \in Proc, StatusUnknown(p) PROVE TypeOK'
  BY <1>10, FaultTyped DEF StatusUnknown, Goto, TypeOK, Labels
<1>11. ASSUME NEW p \in Proc, Withdraw(p) PROVE TypeOK'
  <2>1. First(placed[p]) \in Outputs
    BY <1>11, FirstIn DEF Withdraw, TypeOK
  <2>2. files' \in [Outputs -> Contents]
    BY <1>11, <2>1, AbsentTyped DEF Withdraw, TypeOK
  <2> QED
    BY <1>11, <2>2 DEF Withdraw, TypeOK
<1>12. ASSUME NEW p \in Proc, Restore(p) PROVE TypeOK'
  <2> DEFINE f == First(DOMAIN moved[p])
  <2>1. moved[p] \in Backups
    BY DEF TypeOK
  <2>2. f \in DOMAIN moved[p] /\ DOMAIN moved[p] \subseteq Outputs
    <3>1. "tests" \in Outputs
      BY DEF Outputs
    <3>2. DOMAIN moved[p] \in SUBSET Outputs
      BY <2>1, <3>1, BackupsChange
    <3> QED
      BY <1>12, <3>2, FirstIn DEF Restore
  <2>3. files' \in [Outputs -> Contents]
    BY <1>12, <2>1, <2>2, BackupsChange DEF Restore, TypeOK
  <2>4. moved' \in [Proc -> Backups]
    BY <1>12, <2>1, <2>2, BackupsChange DEF Restore, TypeOK
  <2> QED
    BY <1>12, <2>3, <2>4 DEF Restore, TypeOK
<1>13. ASSUME NEW p \in Proc, EndUndo(p) PROVE TypeOK'
  BY <1>13, LeaveTyped, FaultTyped DEF EndUndo, Unlock, TypeOK
<1>14. ASSUME NEW p \in Proc, Drop(p) PROVE TypeOK'
  BY <1>14, LeaveTyped DEF Drop, Unlock, TypeOK
<1>15. ASSUME NEW p \in Proc, Kill(p) PROVE TypeOK'
  BY <1>15, LeaveTyped, FaultTyped DEF Kill, Unlock, TypeOK
<1>16. ASSUME NEW p \in Proc, Guard(p) PROVE TypeOK'
  <2>3. UNCHANGED <<ledger, files, lock, reply, placed, moved, faults>>
    BY <1>16 DEF Guard
  <2>1. CASE Current(ledger)
    <3>1. pc' \in [Proc -> Labels]
      BY <1>16, <2>1 DEF Guard, Goto, TypeOK, Labels
    <3>2. seen' \in [Proc -> 0 .. Len(ledger)]
      <4>1. Len(ledger) \in 0 .. Len(ledger)
        BY DEF TypeOK
      <4>2. seen' = [seen EXCEPT ![p] = Len(ledger)]
        BY <1>16, <2>1 DEF Guard
      <4> QED
        BY <4>1, <4>2 DEF TypeOK
    <3> QED
      BY <2>3, <3>1, <3>2 DEF TypeOK
  <2>2. CASE ~Current(ledger)
    BY <1>16, <2>2, <2>3 DEF Guard, TypeOK
  <2> QED
    BY <2>1, <2>2
<1>17. ASSUME NEW p \in Proc, Check(p) PROVE TypeOK'
  BY <1>17, LeaveTyped DEF Check, Checked, Goto, TypeOK, Labels
<1>18. ASSUME NEW p \in Proc, PrintBrief(p) PROVE TypeOK'
  BY <1>18, LeaveTyped DEF PrintBrief, TypeOK
<1>19. CASE AppendOther
  <2>1. PICK fact \in Plain : ledger' = Append(ledger, fact)
    BY <1>19 DEF AppendOther
  <2>2. fact \in Facts
    BY DEF Facts
  <2>3. ledger' \in Seq(Facts) /\ Len(ledger') = Len(ledger) + 1 /\ Len(ledger') \in 1 .. MaxLedger
    BY <1>19, <2>1, <2>2, PublishAssumption DEF AppendOther, TypeOK
  <2> QED
    BY <1>19, <2>3 DEF AppendOther, locals, TypeOK
<1>20. CASE Edit
  BY <1>20, FaultTyped, AbsentTyped DEF Edit, locals, TypeOK
<1>21. CASE UNCHANGED vars
  BY <1>21 DEF vars, locals, TypeOK
<1> QED
  BY <1>1, <1>2, <1>3, <1>4, <1>5, <1>6, <1>7, <1>8, <1>9, <1>10, <1>11,
     <1>12, <1>13, <1>14, <1>15, <1>16, <1>17, <1>18, <1>19, <1>20, <1>21
  DEF Next, Publish, Admit, RollBack

-----------------------------------------------------------------------------
\* The invariant

\* What the acting process must establish, and that nobody else is disturbed
LEMMA OneActs ==
    ASSUME TypeOK, TypeOK', \A q \in Proc : OngoingAt(q) /\ HistoryAt(q),
           NEW p \in Proc, OngoingAt(p)', HistoryAt(p)',
           \A q \in Proc \ {p} : StandsStill(q),
           ledger' = ledger \/ \E e \in Facts : ledger' = Append(ledger, e) /\
                                  \A q \in Proc \ {p} : ~By(e, q)
    PROVE  \A q \in Proc : OngoingAt(q)' /\ HistoryAt(q)'
<1>1. ASSUME NEW q \in Proc \ {p}
      PROVE  OngoingAt(q)' /\ HistoryAt(q)'
  BY Bystander DEF GrowsWithout
<1> QED
  BY <1>1

\* A process that left has nothing to answer for
LEMMA Gone ==
    ASSUME TypeOK, NEW p \in Proc, Leave(p)
    PROVE  /\ OngoingAt(p)' /\ HistoryAt(p)'
           /\ \A q \in Proc \ {p} : StandsStill(q)
<1>1. pc'[p] = "idle"
  BY DEF Leave, TypeOK
<1> QED
  BY <1>1 DEF Leave, TypeOK, OngoingAt, HistoryAt, StandsStill, Submitting, NotYet

\* A process that only moves on keeps what the next label needs
LEMMA Goes ==
    ASSUME TypeOK, NEW p \in Proc, NEW l, Goto(p, l), UNCHANGED <<ledger, seen, reply, placed>>
    PROVE  /\ pc'[p] = l
           /\ seen'[p] = seen[p] /\ reply'[p] = reply[p] /\ placed'[p] = placed[p]
           /\ \A q \in Proc \ {p} : StandsStill(q)
           /\ Unpublished(p) => Unpublished(p)'
           /\ AtMostFact(p) => AtMostFact(p)'
           /\ Wanted(p)' = Wanted(p)
           /\ Fact(p)' = Fact(p)
<1>1. pc'[p] = l /\ seen'[p] = seen[p] /\ reply'[p] = reply[p] /\ placed'[p] = placed[p]
  BY DEF Goto, TypeOK
<1>2. \A q \in Proc \ {p} : StandsStill(q)
  BY DEF Goto, TypeOK, StandsStill
<1>3. Wanted(p)' = Wanted(p) /\ Fact(p)' = Fact(p)
  BY <1>1 DEF Wanted, Fact, Mine, Read
<1>4. Unpublished(p) => Unpublished(p)'
  BY <1>1 DEF Unpublished
<1>5. AtMostFact(p) => AtMostFact(p)'
  BY <1>1, <1>3 DEF AtMostFact
<1> QED
  BY <1>1, <1>2, <1>3, <1>4, <1>5

\* Nothing that a submission remembers, and no fact, changes
LEMMA Idle ==
    ASSUME TypeOK, TypeOK', \A q \in Proc : OngoingAt(q) /\ HistoryAt(q),
           UNCHANGED <<ledger, pc, seen, reply, placed>>
    PROVE  \A q \in Proc : OngoingAt(q)' /\ HistoryAt(q)'
<1>1. ASSUME NEW q \in Proc
      PROVE  OngoingAt(q)' /\ HistoryAt(q)'
  BY <1>1, Bystander DEF StandsStill, GrowsWithout
<1> QED
  BY <1>1

\* Every step keeps the rest of the invariant
LEMMA StoryKept ==
    ASSUME TypeOK, TypeOK', \A q \in Proc : OngoingAt(q) /\ HistoryAt(q), [Next]_vars
    PROVE  Story'
<1>1. ASSUME NEW p \in Proc, Submit(p) PROVE Story'
  <2>1. /\ pc'[p] = "lock" /\ seen'[p] = Len(ledger) /\ reply'[p] \in Responses
        /\ placed'[p] = {} /\ ledger' = ledger
        /\ \A q \in Proc \ {p} : StandsStill(q)
    BY <1>1 DEF Submit, Goto, TypeOK, IInv, OngoingAt, StandsStill
  <2>2. OngoingAt(p)'
    BY <1>1, <2>1, PublishAssumption DEF OngoingAt, Submit, TypeOK, Submitting
  <2>3. HistoryAt(p)'
    BY <2>1 DEF HistoryAt, Unpublished, TypeOK
  <2> QED
    BY <2>1, <2>2, <2>3, OneActs DEF Story
<1>2. ASSUME NEW p \in Proc, Lock(p) PROVE Story'
  <2>1. Goto(p, "backup") /\ UNCHANGED <<ledger, seen, reply, placed>> /\ pc[p] = "lock"
    BY <1>2 DEF Lock
  <2>2. "tests" \in Wanted(p)
    BY <2>1, FactTyped, PublishAssumption DEF OngoingAt, Submitting
  <2>3. OngoingAt(p)'
    BY <2>1, <2>2, Goes DEF OngoingAt, Submitting
  <2>4. HistoryAt(p)'
    BY <2>1, Goes DEF HistoryAt, NotYet
  <2> QED
    BY <2>1, <2>3, <2>4, Goes, OneActs DEF Story
<1>3. ASSUME NEW p \in Proc, Backup(p) PROVE Story'
  <2>1. Goto(p, "install") /\ UNCHANGED <<ledger, seen, reply, placed>> /\ pc[p] = "backup"
    BY <1>3 DEF Backup
  <2>3. OngoingAt(p)'
    BY <2>1, Goes DEF OngoingAt, Submitting
  <2>4. HistoryAt(p)'
    BY <2>1, Goes DEF HistoryAt, NotYet
  <2> QED
    BY <2>1, <2>3, <2>4, Goes, OneActs DEF Story
<1>4. ASSUME NEW p \in Proc, Install(p) PROVE Story'
  <2> DEFINE more == placed[p] \cup {Next1(p)}
  <2>1. /\ pc[p] = "install" /\ pc'[p] = IF more = Wanted(p) THEN "append" ELSE "backup"
        /\ placed'[p] = more
        /\ seen'[p] = seen[p] /\ reply'[p] = reply[p] /\ ledger' = ledger
        /\ \A q \in Proc \ {p} : StandsStill(q)
    BY <1>4 DEF Install, Goto, TypeOK, StandsStill
  <2>2. Wanted(p)' = Wanted(p) /\ Fact(p)' = Fact(p)
    BY <2>1, MineStays DEF Grows
  <2>3. Next1(p) \in Wanted(p)
    BY <2>1, NextTyped
  <2>4. OngoingAt(p)'
    BY <2>1, <2>2, <2>3 DEF OngoingAt, Submitting
  <2>5. HistoryAt(p)'
    BY <2>1 DEF HistoryAt, NotYet, Unpublished
  <2> QED
    BY <2>1, <2>4, <2>5, OneActs DEF Story
<1>5. ASSUME NEW p \in Proc, PublishFails(p) PROVE Story'
  <2>1. /\ Goto(p, "undo") /\ UNCHANGED <<ledger, seen, reply, placed>>
        /\ pc[p] \in {"backup", "install", "append"}
    BY <1>5 DEF PublishFails
  <2>2. OngoingAt(p)'
    BY <2>1, Goes DEF OngoingAt, Submitting
  <2>3. HistoryAt(p)'
    BY <2>1, Goes DEF HistoryAt, NotYet
  <2> QED
    BY <2>1, <2>2, <2>3, Goes, OneActs DEF Story
<1>6. ASSUME NEW p \in Proc, Interrupted(p) PROVE Story'
  <2>1. /\ Goto(p, "undo") /\ UNCHANGED <<ledger, seen, reply, placed>>
        /\ pc[p] \in {"backup", "install", "append"}
    BY <1>6 DEF Interrupted
  <2>2. OngoingAt(p)'
    BY <2>1, Goes DEF OngoingAt, Submitting
  <2>3. HistoryAt(p)'
    BY <2>1, Goes DEF HistoryAt, NotYet
  <2> QED
    BY <2>1, <2>2, <2>3, Goes, OneActs DEF Story
<1>7. ASSUME NEW p \in Proc, AppendFact(p) PROVE Story'
  <2>1. pc[p] = "append" /\ UNCHANGED <<seen, reply, placed>>
    BY <1>7 DEF AppendFact
  <2>2. CASE ledger' = ledger /\ Goto(p, "status")
    <3>1. OngoingAt(p)'
      BY <2>1, <2>2, Goes DEF OngoingAt, Submitting
    <3>2. HistoryAt(p)'
      BY <2>1, <2>2, Goes DEF HistoryAt, NotYet, Unpublished, AtMostFact
    <3> QED
      BY <2>1, <2>2, <3>1, <3>2, Goes, OneActs DEF Story
  <2>3. CASE seen[p] = Len(ledger) /\ ledger' = Append(ledger, Fact(p)) /\ Goto(p, "drop")
    <3>1. /\ pc'[p] = "drop" /\ reply'[p] = reply[p] /\ seen'[p] = seen[p]
          /\ \A q \in Proc \ {p} : StandsStill(q)
      BY <2>1, <2>3 DEF Goto, TypeOK, StandsStill
    <3>2. OngoingAt(p)'
      BY <2>1, <3>1 DEF OngoingAt, Submitting
    <3>3. HistoryAt(p)'
      BY <3>1 DEF HistoryAt, NotYet
    <3>4. Fact(p) \in Facts /\ \A q \in Proc \ {p} : ~By(Fact(p), q)
      BY <2>1, <2>3, NewFactTyped DEF By, Fact
    <3> QED
      BY <2>3, <3>1, <3>2, <3>3, <3>4, OneActs DEF Story
  <2> QED
    BY <1>7, <2>2, <2>3 DEF AppendFact
<1>8. ASSUME NEW p \in Proc, AppendRaises(p) PROVE Story'
  <2>1. pc[p] = "append" /\ UNCHANGED <<seen, reply, placed>> /\ Goto(p, "status")
    BY <1>8 DEF AppendRaises
  <2>2. CASE ledger' = ledger
    <3>1. OngoingAt(p)'
      BY <2>1, <2>2, Goes DEF OngoingAt, Submitting
    <3>2. HistoryAt(p)'
      BY <2>1, <2>2, Goes DEF HistoryAt, NotYet, Unpublished, AtMostFact
    <3> QED
      BY <2>1, <2>2, <3>1, <3>2, Goes, OneActs DEF Story
  <2>3. CASE seen[p] = Len(ledger) /\ ledger' = Append(ledger, Fact(p))
    <3>1. /\ pc'[p] = "status" /\ reply'[p] = reply[p] /\ seen'[p] = seen[p]
          /\ \A q \in Proc \ {p} : StandsStill(q)
      BY <2>1 DEF Goto, TypeOK, StandsStill
    <3>2. OngoingAt(p)'
      BY <2>1, <3>1 DEF OngoingAt, Submitting
    <3>3. Fact(p) \in Facts /\ \A q \in Proc \ {p} : ~By(Fact(p), q)
      BY <2>1, <2>3, NewFactTyped DEF By, Fact
    <3>4. Fact(p)' = Fact(p)
      BY <2>3, <3>1, <3>3, MineStays DEF Grows
    <3>5. HistoryAt(p)'
      <4>1. ASSUME NEW i \in seen'[p] + 1 .. Len(ledger')
            PROVE  i = seen'[p] + 1 /\ ledger'[i] = Fact(p)'
        BY <4>1, <2>3, <3>1, <3>3, <3>4 DEF TypeOK
      <4> QED
        BY <3>1, <4>1 DEF HistoryAt, AtMostFact, NotYet
    <3> QED
      BY <2>3, <3>1, <3>2, <3>3, <3>5, OneActs DEF Story
  <2> QED
    BY <1>8, <2>2, <2>3 DEF AppendRaises
<1>9. ASSUME NEW p \in Proc, Status(p) PROVE Story'
  <2>1. UNCHANGED <<ledger, seen, reply, placed>> /\ pc[p] = "status"
    BY <1>9 DEF Status
  <2>2. CASE Goto(p, "keep")
    <3>1. OngoingAt(p)' /\ HistoryAt(p)'
      BY <2>1, <2>2, Goes DEF OngoingAt, Submitting, HistoryAt, NotYet
    <3> QED
      BY <2>1, <2>2, <3>1, Goes, OneActs DEF Story
  <2>3. CASE ~IsCommitted(p) /\ Goto(p, "undo")
    <3>1. OngoingAt(p)'
      BY <2>1, <2>3, Goes DEF OngoingAt, Submitting
    <3>2. Unpublished(p)
      BY <2>1, <2>3 DEF HistoryAt, Unpublished, AtMostFact, IsCommitted, TypeOK
    <3>3. HistoryAt(p)'
      BY <2>3, <2>1, <3>2, Goes DEF HistoryAt
    <3> QED
      BY <2>1, <2>3, <3>1, <3>3, Goes, OneActs DEF Story
  <2> QED
    BY <1>9, <2>2, <2>3 DEF Status
<1>10. ASSUME NEW p \in Proc, StatusUnknown(p) PROVE Story'
  <2>1. UNCHANGED <<ledger, seen, reply, placed>> /\ pc[p] = "status" /\ Goto(p, "keep")
    BY <1>10 DEF StatusUnknown
  <2>2. OngoingAt(p)' /\ HistoryAt(p)'
    BY <2>1, Goes DEF OngoingAt, Submitting, HistoryAt, NotYet
  <2> QED
    BY <2>1, <2>2, Goes, OneActs DEF Story
<1>11. ASSUME NEW p \in Proc, Withdraw(p) PROVE Story'
  <2>1. /\ pc[p] = "undo" /\ UNCHANGED <<ledger, pc, seen, reply>>
        /\ \A q \in Proc \ {p} : StandsStill(q)
    BY <1>11 DEF Withdraw, TypeOK, StandsStill
  <2>2. OngoingAt(p)' /\ HistoryAt(p)'
    BY <2>1 DEF OngoingAt, Submitting, HistoryAt, Unpublished
  <2> QED
    BY <2>1, <2>2, OneActs DEF Story
<1>12. ASSUME NEW p \in Proc, Restore(p) PROVE Story'
  <2>1. /\ pc[p] = "undo" /\ UNCHANGED <<ledger, pc, seen, reply, placed>>
        /\ \A q \in Proc \ {p} : StandsStill(q)
    BY <1>12 DEF Restore, StandsStill
  <2>2. OngoingAt(p)' /\ HistoryAt(p)'
    BY <2>1 DEF OngoingAt, Submitting, HistoryAt, Unpublished
  <2> QED
    BY <2>1, <2>2, OneActs DEF Story
<1>13. ASSUME NEW p \in Proc, EndUndo(p) PROVE Story'
  BY <1>13, Gone, OneActs DEF Story, EndUndo
<1>14. ASSUME NEW p \in Proc, Drop(p) PROVE Story'
  BY <1>14, Gone, OneActs DEF Story, Drop
<1>15. ASSUME NEW p \in Proc, Kill(p) PROVE Story'
  BY <1>15, Gone, OneActs DEF Story, Kill
<1>16. ASSUME NEW p \in Proc, Guard(p) PROVE Story'
  <2>1. CASE Goto(p, "brief")
    <3>1. /\ pc'[p] = "brief" /\ ledger' = ledger
          /\ \A q \in Proc \ {p} : StandsStill(q)
      BY <1>16, <2>1 DEF Guard, Goto, TypeOK, StandsStill
    <3>2. OngoingAt(p)' /\ HistoryAt(p)'
      BY <3>1 DEF OngoingAt, Submitting, HistoryAt, NotYet
    <3> QED
      BY <3>1, <3>2, OneActs DEF Story
  <2>2. CASE UNCHANGED <<pc, seen>>
    BY <1>16, <2>2, Idle DEF Story, Guard
  <2> QED
    BY <1>16, <2>1, <2>2 DEF Guard
<1>17. ASSUME NEW p \in Proc, Check(p) PROVE Story'
  <2>1. CASE Leave(p)
    BY <1>17, <2>1, Gone, OneActs DEF Story, Check
  <2>2. CASE /\ UNCHANGED <<seen, reply, placed>>
             /\ \E l \in {"tests", "print"} : Goto(p, l)
    <3>1. PICK l \in {"tests", "print"} : Goto(p, l)
      BY <2>2
    <3>2. OngoingAt(p)' /\ HistoryAt(p)'
      BY <1>17, <2>2, <3>1, Goes DEF Check, OngoingAt, Submitting, HistoryAt, NotYet
    <3> QED
      BY <1>17, <2>2, <3>1, <3>2, Goes, OneActs DEF Story, Check
  <2> QED
    BY <1>17, <2>1, <2>2 DEF Check
<1>18. ASSUME NEW p \in Proc, PrintBrief(p) PROVE Story'
  BY <1>18, Gone, OneActs DEF Story, PrintBrief
<1>19. CASE AppendOther
  <2>1. PICK fact \in Plain : ledger' = Append(ledger, fact)
    BY <1>19 DEF AppendOther
  <2>2. fact \in Facts /\ \A q \in Proc : ~By(fact, q)
    BY DEF Facts, Plain, By, IsDerivation
  <2>3. ASSUME NEW q \in Proc
        PROVE  OngoingAt(q)' /\ HistoryAt(q)'
    BY <1>19, <2>1, <2>2, Bystander DEF AppendOther, locals, StandsStill, GrowsWithout
  <2> QED
    BY <2>3 DEF Story
<1>20. CASE Edit
  BY <1>20, Idle DEF Story, Edit, locals
<1>21. CASE UNCHANGED vars
  BY <1>21, Idle DEF Story, vars, locals
<1> QED
  BY <1>1, <1>2, <1>3, <1>4, <1>5, <1>6, <1>7, <1>8, <1>9, <1>10, <1>11,
     <1>12, <1>13, <1>14, <1>15, <1>16, <1>17, <1>18, <1>19, <1>20, <1>21
  DEF Next, Publish, Admit, RollBack

\* The first state satisfies the invariant
LEMMA InvariantStarts ==
    ASSUME Init
    PROVE  IInv
<1>1. [kind |-> "spec"] \in Facts
  BY DEF Facts, Plain
<1>2. ledger \in Seq(Facts) /\ Len(ledger) = 1
  BY <1>1 DEF Init
<1>3. files \in [Outputs -> Contents] /\ moved \in [Proc -> Backups]
  BY AbsentTyped, NoBackups DEF Init, NoArtifacts
<1>4. TypeOK
  BY <1>2, <1>3, PublishAssumption DEF Init, TypeOK, Labels
<1>5. Story
  BY DEF Init, Story, OngoingAt, HistoryAt, Submitting, NotYet
<1> QED
  BY <1>4, <1>5 DEF IInv

\* The invariant holds throughout
LEMMA Invariant == Spec => []IInv
<1>1. IInv /\ [Next]_vars => IInv'
  <2> SUFFICES ASSUME IInv, [Next]_vars
               PROVE  IInv'
    OBVIOUS
  <2>1. TypeOK /\ \A q \in Proc : OngoingAt(q) /\ HistoryAt(q)
    BY DEF IInv, Story
  <2>2. TypeOK'
    BY <2>1, TypesKept
  <2>3. Story'
    BY <2>1, <2>2, StoryKept
  <2> QED
    BY <2>2, <2>3 DEF IInv
<1> QED
  BY <1>1, InvariantStarts, PTL DEF Spec

\* The variables of a publication keep their types.
THEOREM TypeCorrect == Spec => []TypeOK
<1>1. IInv => TypeOK
  BY DEF IInv
<1> QED
  BY <1>1, Invariant, PTL

\* A committed derivation is never rolled back: _publish_with_ledger_append
\* removes or replaces what it published only while its fact is not in the ledger.
THEOREM CommittedStays == Spec => []NoCommittedRollback
<1>1. IInv => NoCommittedRollback
  <2> SUFFICES ASSUME IInv, NEW p \in Proc, pc[p] = "undo", IsCommitted(p)
               PROVE  FALSE
    BY DEF NoCommittedRollback
  <2>1. TypeOK /\ Unpublished(p)
    BY DEF IInv, Story, HistoryAt, NotYet
  <2>2. seen[p] + 1 \in seen[p] + 1 .. Len(ledger) /\ ledger[seen[p] + 1] = Fact(p)
    BY <2>1 DEF TypeOK, IsCommitted
  <2>3. By(Fact(p), p)
    BY DEF By, IsDerivation, Fact
  <2> QED
    BY <2>1, <2>2, <2>3 DEF Unpublished
<1> QED
  BY <1>1, Invariant, PTL

-----------------------------------------------------------------------------
\* What the holder of the derive lock has published

Held == {"backup", "install", "append", "status", "undo", "drop", "keep"}

HeldAt(p) ==
    /\ pc[p] \in Held <=> lock = p
    /\ pc[p] \in {"backup", "install", "append", "drop"} =>
          \A f \in placed[p] : files[f] = Mine(p)[f]
    /\ pc[p] \in {"append", "drop"} => placed[p] = Wanted(p)
    /\ pc[p] = "drop" =>
          /\ IsCommitted(p)
          /\ \A j \in seen[p] + 2 .. Len(ledger) : ~IsDerivation(ledger[j])

Holding == \A p \in Proc : HeldAt(p)

\* A process that stands still while another one holds the lock, or while only
\* facts other than derivations are appended
LEMMA HeldStays ==
    ASSUME TypeOK, TypeOK', NEW p \in Proc, HeldAt(p), StandsStill(p),
           lock' = p <=> lock = p,
           lock = p => files' = files,
           \/ ledger' = ledger
           \/ \E e \in Facts : ledger' = Append(ledger, e) /\ (IsDerivation(e) => lock # p)
    PROVE  HeldAt(p)'
<1>1. Mine(p)' = Mine(p) /\ Wanted(p)' = Wanted(p) /\ Fact(p)' = Fact(p)
  BY MineStays DEF Grows, StandsStill
<1>2. CASE pc[p] \notin Held
  BY <1>2 DEF HeldAt, StandsStill, Held
<1>3. CASE pc[p] \in Held
  <2>1. lock = p /\ lock' = p /\ files' = files
    BY <1>3 DEF HeldAt
  <2>2. CASE pc[p] # "drop"
    BY <1>1, <1>3, <2>1, <2>2 DEF HeldAt, StandsStill
  <2>3. CASE pc[p] = "drop"
    <3>1. IsCommitted(p)'
      BY <1>1, <2>1, <2>3 DEF HeldAt, IsCommitted, StandsStill, TypeOK
    <3>2. ASSUME NEW j \in seen[p] + 2 .. Len(ledger')
          PROVE  ~IsDerivation(ledger'[j])
      BY <2>1, <2>3, <3>2 DEF HeldAt, StandsStill, TypeOK
    <3> QED
      BY <1>1, <2>1, <2>3, <3>1, <3>2 DEF HeldAt, StandsStill, Held
  <2> QED
    BY <2>2, <2>3
<1> QED
  BY <1>2, <1>3

\* What the acting process must establish; what belongs to the holder of the lock
\* is changed by the holder only
LEMMA HeldOne ==
    ASSUME TypeOK, TypeOK', \A q \in Proc : HeldAt(q),
           NEW p \in Proc, HeldAt(p)', \A q \in Proc \ {p} : StandsStill(q),
           lock' = lock \/ (lock = NoProc /\ lock' = p) \/ (lock = p /\ lock' = NoProc),
           files' = files \/ lock = p,
           \/ ledger' = ledger
           \/ \E e \in Facts : ledger' = Append(ledger, e) /\ (IsDerivation(e) => lock = p)
    PROVE  Holding'
<1>1. ASSUME NEW q \in Proc \ {p}
      PROVE  HeldAt(q)'
  <2>1. (lock' = q <=> lock = q) /\ (lock = q => files' = files)
    BY PublishAssumption
  <2> QED
    BY <2>1, HeldStays
<1> QED
  BY <1>1 DEF Holding

\* A step that touches neither files, facts nor the lock leaves what the holder published
LEMMA HeldIdle ==
    ASSUME TypeOK, TypeOK', \A q \in Proc : HeldAt(q),
           UNCHANGED <<ledger, files, lock, pc, seen, reply, placed>>
    PROVE  Holding'
<1>1. ASSUME NEW q \in Proc
      PROVE  HeldAt(q)'
  BY <1>1, HeldStays DEF StandsStill
<1> QED
  BY <1>1 DEF Holding

\* Every step keeps what the holder has published
LEMMA HoldingKept ==
    ASSUME TypeOK, TypeOK', \A q \in Proc : OngoingAt(q), \A q \in Proc : HeldAt(q), [Next]_vars
    PROVE  Holding'
<1>1. ASSUME NEW p \in Proc, Submit(p) PROVE Holding'
  <2>1. /\ pc[p] = "idle" /\ pc'[p] = "lock" /\ UNCHANGED <<ledger, files, lock>>
        /\ \A q \in Proc \ {p} : StandsStill(q)
    BY <1>1 DEF Submit, Goto, TypeOK, StandsStill
  <2>2. HeldAt(p)'
    BY <2>1 DEF HeldAt, Held
  <2> QED
    BY <2>1, <2>2, HeldOne
<1>2. ASSUME NEW p \in Proc, Lock(p) PROVE Holding'
  <2>1. /\ pc[p] = "lock" /\ lock = NoProc /\ lock' = p
        /\ Goto(p, "backup") /\ UNCHANGED <<ledger, files, seen, reply, placed>>
    BY <1>2 DEF Lock
  <2>2. placed[p] = {}
    BY <2>1 DEF OngoingAt
  <2>3. HeldAt(p)'
    BY <2>1, <2>2, Goes DEF HeldAt, Held
  <2> QED
    BY <2>1, <2>3, Goes, HeldOne
<1>3. ASSUME NEW p \in Proc, Backup(p) PROVE Holding'
  <2>1. /\ pc[p] = "backup" /\ Goto(p, "install") /\ UNCHANGED <<ledger, lock, seen, reply, placed>>
        /\ files' = [files EXCEPT ![Next1(p)] = Absent]
    BY <1>3 DEF Backup
  <2>2. Next1(p) \notin placed[p]
    BY <2>1, NextTyped
  <2>3. HeldAt(p)'
    BY <2>1, <2>2, Goes, MineStays DEF Grows, HeldAt, Held, TypeOK
  <2>4. lock = p
    BY <2>1 DEF HeldAt, Held
  <2> QED
    BY <2>1, <2>3, <2>4, Goes, HeldOne
<1>4. ASSUME NEW p \in Proc, Install(p) PROVE Holding'
  <2> DEFINE f == Next1(p)
             more == placed[p] \cup {f}
  <2>1. /\ pc[p] = "install" /\ pc'[p] = IF more = Wanted(p) THEN "append" ELSE "backup"
        /\ placed'[p] = more
        /\ seen'[p] = seen[p] /\ reply'[p] = reply[p] /\ UNCHANGED <<ledger, lock>>
        /\ files' = [files EXCEPT ![f] = Mine(p)[f]]
        /\ \A q \in Proc \ {p} : StandsStill(q)
    BY <1>4 DEF Install, Goto, TypeOK, StandsStill
  <2>2. Mine(p)' = Mine(p) /\ Wanted(p)' = Wanted(p)
    BY <2>1, MineStays DEF Grows
  <2>3. \A g \in more : files'[g] = Mine(p)[g]
    BY <2>1 DEF HeldAt, TypeOK
  <2>4. HeldAt(p)'
    BY <2>1, <2>2, <2>3 DEF HeldAt, Held
  <2>5. lock = p
    BY <2>1 DEF HeldAt, Held
  <2> QED
    BY <2>1, <2>4, <2>5, HeldOne
<1>5. ASSUME NEW p \in Proc, PublishFails(p) PROVE Holding'
  <2>1. /\ Goto(p, "undo") /\ UNCHANGED <<ledger, files, lock, seen, reply, placed>>
        /\ pc[p] \in {"backup", "install", "append"}
    BY <1>5 DEF PublishFails
  <2>2. HeldAt(p)'
    BY <2>1, Goes, MineStays DEF Grows, HeldAt, Held
  <2> QED
    BY <2>1, <2>2, Goes, HeldOne
<1>6. ASSUME NEW p \in Proc, Interrupted(p) PROVE Holding'
  <2>1. /\ Goto(p, "undo") /\ UNCHANGED <<ledger, lock, seen, reply, placed>>
        /\ pc[p] \in {"backup", "install"}
    BY <1>6 DEF Interrupted
  <2>2. HeldAt(p)' /\ lock = p
    BY <2>1, Goes DEF HeldAt, Held
  <2> QED
    BY <2>1, <2>2, Goes, HeldOne
<1>7. ASSUME NEW p \in Proc, AppendFact(p) PROVE Holding'
  <2>1. pc[p] = "append" /\ UNCHANGED <<files, lock, seen, reply, placed>> /\ lock = p
    BY <1>7 DEF AppendFact, HeldAt, Held
  <2>2. CASE ledger' = ledger /\ Goto(p, "status")
    <3>1. HeldAt(p)'
      BY <2>1, <2>2, Goes DEF HeldAt, Held
    <3> QED
      BY <2>1, <2>2, <3>1, Goes, HeldOne
  <2>3. CASE seen[p] = Len(ledger) /\ ledger' = Append(ledger, Fact(p)) /\ Goto(p, "drop")
    <3>1. /\ pc'[p] = "drop"
          /\ reply'[p] = reply[p] /\ seen'[p] = seen[p] /\ placed'[p] = placed[p]
          /\ \A q \in Proc \ {p} : StandsStill(q)
      BY <2>1, <2>3 DEF Goto, TypeOK, StandsStill
    <3>2. Fact(p) \in Facts /\ Len(ledger') = Len(ledger) + 1
      BY <2>1, <2>3, NewFactTyped
    <3>3. Mine(p)' = Mine(p) /\ Wanted(p)' = Wanted(p) /\ Fact(p)' = Fact(p)
      BY <2>3, <3>1, <3>2, MineStays DEF Grows
    <3>4. IsCommitted(p)'
      BY <2>3, <3>1, <3>2, <3>3 DEF IsCommitted, TypeOK
    <3>5. seen'[p] + 2 .. Len(ledger') = {}
      BY <2>3, <3>1, <3>2 DEF TypeOK
    <3>6. HeldAt(p)'
      BY <2>1, <3>1, <3>3, <3>4, <3>5 DEF HeldAt, Held
    <3> QED
      BY <2>1, <2>3, <3>1, <3>2, <3>6, HeldOne
  <2> QED
    BY <1>7, <2>2, <2>3 DEF AppendFact
<1>8. ASSUME NEW p \in Proc, AppendRaises(p) PROVE Holding'
  <2>1. /\ pc[p] = "append" /\ Goto(p, "status") /\ lock = p
        /\ UNCHANGED <<files, lock, seen, reply, placed>>
    BY <1>8 DEF AppendRaises, HeldAt, Held
  <2>2. /\ pc'[p] = "status"
        /\ \A q \in Proc \ {p} : StandsStill(q)
    BY <2>1 DEF Goto, TypeOK, StandsStill
  <2>3. HeldAt(p)'
    BY <2>1, <2>2 DEF HeldAt, Held
  <2>4. CASE ledger' = ledger
    BY <2>1, <2>2, <2>3, <2>4, HeldOne
  <2>5. CASE seen[p] = Len(ledger) /\ ledger' = Append(ledger, Fact(p))
    BY <2>1, <2>2, <2>3, <2>5, NewFactTyped, HeldOne
  <2> QED
    BY <1>8, <2>4, <2>5 DEF AppendRaises
<1>9. ASSUME NEW p \in Proc, Status(p) PROVE Holding'
  <2>1. /\ pc[p] = "status" /\ UNCHANGED <<ledger, files, lock, seen, reply, placed>>
        /\ \E l \in {"keep", "undo"} : Goto(p, l)
    BY <1>9 DEF Status
  <2>2. PICK l \in {"keep", "undo"} : Goto(p, l)
    BY <2>1
  <2>3. HeldAt(p)'
    BY <2>1, <2>2, Goes DEF HeldAt, Held
  <2> QED
    BY <2>1, <2>2, <2>3, Goes, HeldOne
<1>10. ASSUME NEW p \in Proc, StatusUnknown(p) PROVE Holding'
  <2>1. /\ Goto(p, "keep") /\ UNCHANGED <<ledger, files, lock, seen, reply, placed>>
        /\ pc[p] = "status"
    BY <1>10 DEF StatusUnknown
  <2>2. HeldAt(p)'
    BY <2>1, Goes, MineStays DEF Grows, HeldAt, Held
  <2> QED
    BY <2>1, <2>2, Goes, HeldOne
<1>11. ASSUME NEW p \in Proc, Withdraw(p) PROVE Holding'
  <2>1. /\ pc[p] = "undo" /\ UNCHANGED <<ledger, lock, pc>>
        /\ \A q \in Proc \ {p} : StandsStill(q)
    BY <1>11 DEF Withdraw, TypeOK, StandsStill
  <2>2. HeldAt(p)' /\ lock = p
    BY <2>1 DEF HeldAt, Held
  <2> QED
    BY <2>1, <2>2, HeldOne
<1>12. ASSUME NEW p \in Proc, Restore(p) PROVE Holding'
  <2>1. /\ pc[p] = "undo" /\ UNCHANGED <<ledger, lock, pc>>
        /\ \A q \in Proc \ {p} : StandsStill(q)
    BY <1>12 DEF Restore, StandsStill
  <2>2. HeldAt(p)' /\ lock = p
    BY <2>1 DEF HeldAt, Held
  <2> QED
    BY <2>1, <2>2, HeldOne
<1>13. ASSUME NEW p \in Proc, EndUndo(p) PROVE Holding'
  <2>1. /\ pc'[p] = "idle" /\ lock' # p
        /\ lock' = lock \/ (lock = p /\ lock' = NoProc)
        /\ \A q \in Proc \ {p} : StandsStill(q)
        /\ UNCHANGED <<ledger, files>>
    BY <1>13, Gone, PublishAssumption DEF EndUndo, Leave, Unlock, TypeOK
  <2>2. HeldAt(p)'
    BY <2>1 DEF HeldAt, Held
  <2> QED
    BY <2>1, <2>2, HeldOne
<1>14. ASSUME NEW p \in Proc, Drop(p) PROVE Holding'
  <2>1. /\ pc'[p] = "idle" /\ lock' # p
        /\ lock' = lock \/ (lock = p /\ lock' = NoProc)
        /\ \A q \in Proc \ {p} : StandsStill(q)
        /\ UNCHANGED <<ledger, files>>
    BY <1>14, Gone, PublishAssumption DEF Drop, Leave, Unlock, TypeOK
  <2>2. HeldAt(p)'
    BY <2>1 DEF HeldAt, Held
  <2> QED
    BY <2>1, <2>2, HeldOne
<1>15. ASSUME NEW p \in Proc, Kill(p) PROVE Holding'
  <2>1. /\ pc'[p] = "idle" /\ lock' # p
        /\ lock' = lock \/ (lock = p /\ lock' = NoProc)
        /\ \A q \in Proc \ {p} : StandsStill(q)
        /\ UNCHANGED <<ledger, files>>
    BY <1>15, Gone, PublishAssumption DEF Kill, Leave, Unlock, TypeOK
  <2>2. HeldAt(p)'
    BY <2>1 DEF HeldAt, Held
  <2> QED
    BY <2>1, <2>2, HeldOne
<1>16. ASSUME NEW p \in Proc, Guard(p) PROVE Holding'
  <2>1. CASE Goto(p, "brief")
    <3>1. /\ pc[p] = "idle" /\ pc'[p] = "brief" /\ UNCHANGED <<ledger, files, lock>>
          /\ \A q \in Proc \ {p} : StandsStill(q)
      BY <1>16, <2>1 DEF Guard, Goto, TypeOK, StandsStill
    <3>2. HeldAt(p)'
      BY <3>1 DEF HeldAt, Held
    <3> QED
      BY <3>1, <3>2, HeldOne
  <2>2. CASE UNCHANGED <<pc, seen>>
    BY <1>16, <2>2, HeldIdle DEF Guard
  <2> QED
    BY <1>16, <2>1, <2>2 DEF Guard
<1>17. ASSUME NEW p \in Proc, Check(p) PROVE Holding'
  <2>1. /\ pc[p] \in {"brief", "tests"} /\ UNCHANGED <<ledger, files, lock>>
        /\ Leave(p) \/ (UNCHANGED <<seen, reply, placed>> /\ \E l \in {"tests", "print"} : Goto(p, l))
    BY <1>17 DEF Check, Checked
  <2>2. /\ pc'[p] \in {"idle", "tests", "print"}
        /\ \A q \in Proc \ {p} : StandsStill(q)
    BY <2>1, Gone DEF Leave, Goto, TypeOK, StandsStill
  <2>3. HeldAt(p)'
    BY <2>1, <2>2 DEF HeldAt, Held
  <2> QED
    BY <2>1, <2>2, <2>3, HeldOne
<1>18. ASSUME NEW p \in Proc, PrintBrief(p) PROVE Holding'
  <2>1. /\ pc[p] = "print" /\ pc'[p] = "idle" /\ UNCHANGED <<ledger, files, lock>>
        /\ \A q \in Proc \ {p} : StandsStill(q)
    BY <1>18, Gone DEF PrintBrief, Leave, TypeOK
  <2>2. HeldAt(p)'
    BY <2>1 DEF HeldAt, Held
  <2> QED
    BY <2>1, <2>2, HeldOne
<1>19. CASE AppendOther
  <2>1. PICK fact \in Plain : ledger' = Append(ledger, fact)
    BY <1>19 DEF AppendOther
  <2>2. fact \in Facts /\ ~IsDerivation(fact)
    BY DEF Facts, Plain, IsDerivation
  <2>3. ASSUME NEW q \in Proc
        PROVE  HeldAt(q)'
    BY <1>19, <2>1, <2>2, HeldStays DEF AppendOther, locals, StandsStill
  <2> QED
    BY <2>3 DEF Holding
<1>20. CASE Edit
  <2>1. ASSUME NEW q \in Proc
        PROVE  HeldAt(q)'
    BY <1>20, HeldStays, PublishAssumption DEF Edit, locals, StandsStill
  <2> QED
    BY <2>1 DEF Holding
<1>21. CASE UNCHANGED vars
  BY <1>21, HeldIdle DEF vars, locals
<1> QED
  BY <1>1, <1>2, <1>3, <1>4, <1>5, <1>6, <1>7, <1>8, <1>9, <1>10, <1>11,
     <1>12, <1>13, <1>14, <1>15, <1>16, <1>17, <1>18, <1>19, <1>20, <1>21
  DEF Next, Publish, Admit, RollBack

\* What the holder has published stays published while it holds the lock
LEMMA HoldingInvariant == Spec => [](IInv /\ Holding)
<1>1. Init => Holding
  BY PublishAssumption DEF Init, Holding, HeldAt, Held
<1>2. IInv /\ IInv' /\ Holding /\ [Next]_vars => Holding'
  <2> SUFFICES ASSUME IInv, IInv', Holding, [Next]_vars
               PROVE  Holding'
    OBVIOUS
  <2> QED
    BY HoldingKept DEF IInv, Story, Holding
<1> QED
  BY <1>1, <1>2, Invariant, PTL DEF Spec

\* A submission that ended well left on disk what the latest derivation in the
\* ledger committed, whatever was there before and whatever others do meanwhile.
THEOREM SubmissionRepairs == Spec => []DerivingRepairs
<1>1. IInv /\ Holding => DerivingRepairs
  <2> SUFFICES ASSUME IInv, Holding, NEW p \in Proc, pc[p] = "drop"
               PROVE  /\ Committed(ledger) = Mine(p)
                      /\ \A f \in Wanted(p) : files[f] = Mine(p)[f]
    BY DEF DerivingRepairs
  <2>1. \A f \in Wanted(p) : files[f] = Mine(p)[f]
    BY DEF Holding, HeldAt
  <2>2. Committed(ledger) = Mine(p)
    <3> DEFINE d == seen[p] + 1
               I == {i \in 1 .. Len(ledger) : IsDerivation(ledger[i])}
    <3>1. d \in 1 .. Len(ledger) /\ ledger[d] = Fact(p)
      BY DEF IInv, TypeOK, Holding, HeldAt, IsCommitted
    <3>2. d \in I
      BY <3>1 DEF Fact, IsDerivation
    <3>3. \A i \in I : d >= i
      BY DEF IInv, TypeOK, Holding, HeldAt
    <3>4. Max(I) = d
      BY <3>2, <3>3 DEF Max
    <3>5. SelectLastInSeq(ledger, IsDerivation) = d
      BY <3>2, <3>4 DEF SelectLastInSeq
    <3> QED
      BY <3>1, <3>5 DEF Committed, Fact, IInv, TypeOK
  <2> QED
    BY <2>1, <2>2
<1> QED
  BY <1>1, HoldingInvariant, PTL

-----------------------------------------------------------------------------
\* The latest derivation of the ledger

\* Position d is that of the latest derivation, or 0 when there is none
Latest(s, d) ==
    /\ d # 0 => IsDerivation(s[d])
    /\ \A j \in d + 1 .. Len(s) : ~IsDerivation(s[j])

\* A machine brief is committed only after the migration marker
MarkerFirst(s) ==
    \A i \in 1 .. Len(s) : IsDerivation(s[i]) /\ s[i].artifacts["json"] # Absent => Migrated(s)

Chronicle == MarkerFirst(ledger) /\ \E d \in 0 .. Len(ledger) : Latest(ledger, d)

\* What the latest derivation committed
LEMMA LatestCommitted ==
    ASSUME NEW s \in Seq(Facts), NEW d \in 0 .. Len(s), Latest(s, d)
    PROVE  Committed(s) = IF d = 0 THEN NoArtifacts ELSE s[d].artifacts
<1> DEFINE I == {i \in 1 .. Len(s) : IsDerivation(s[i])}
<1>1. CASE d = 0
  <2>1. I = {}
    BY <1>1 DEF Latest
  <2> QED
    BY <1>1, <2>1 DEF Committed, SelectLastInSeq
<1>2. CASE d # 0
  <2>1. d \in I /\ \A i \in I : d >= i
    BY <1>2 DEF Latest
  <2>2. Max(I) = d
    BY <2>1 DEF Max
  <2> QED
    BY <1>2, <2>1, <2>2 DEF Committed, SelectLastInSeq
<1> QED
  BY <1>1, <1>2

\* What is committed is an artifact for each output, and none is a machine brief
\* before the marker
LEMMA CommittedTyped ==
    ASSUME TypeOK, Chronicle
    PROVE  /\ Committed(ledger) \in [Outputs -> Contents]
           /\ ~Migrated(ledger) => Committed(ledger)["json"] = Absent
<1>1. PICK d \in 0 .. Len(ledger) : Latest(ledger, d)
  BY DEF Chronicle
<1>2. ledger \in Seq(Facts) /\ Committed(ledger) = IF d = 0 THEN NoArtifacts ELSE ledger[d].artifacts
  BY <1>1, LatestCommitted DEF TypeOK
<1>3. CASE d = 0
  BY <1>2, <1>3, AbsentTyped DEF NoArtifacts, Outputs
<1>4. CASE d # 0
  <2>1. d \in 1 .. Len(ledger) /\ ledger[d] \in Facts /\ IsDerivation(ledger[d])
    BY <1>1, <1>2, <1>4 DEF Latest
  <2>2. ledger[d].artifacts \in [Outputs -> Contents]
    BY <2>1 DEF Facts, Plain, IsDerivation
  <2> QED
    BY <1>2, <1>4, <2>1, <2>2 DEF Chronicle, MarkerFirst
<1> QED
  BY <1>3, <1>4

\* Facts other than derivations change nothing of what is committed
LEMMA PlainAppended ==
    ASSUME TypeOK, Chronicle, NEW e \in Plain, ledger' = Append(ledger, e)
    PROVE  Chronicle' /\ Committed(ledger)' = Committed(ledger)
<1>1. PICK d \in 0 .. Len(ledger) : Latest(ledger, d)
  BY DEF Chronicle
<1>2. /\ ledger \in Seq(Facts) /\ e \in Facts /\ ~IsDerivation(e)
      /\ ledger' \in Seq(Facts) /\ Len(ledger') = Len(ledger) + 1 /\ ledger'[Len(ledger')] = e
      /\ \A i \in 1 .. Len(ledger) : ledger'[i] = ledger[i]
  BY DEF TypeOK, Facts, Plain, IsDerivation
<1> HIDE DEF TypeOK
<1>3. Latest(ledger', d) /\ d \in 0 .. Len(ledger')
  BY <1>1, <1>2 DEF Latest
<1>4. MarkerFirst(ledger')
  BY <1>2 DEF Chronicle, MarkerFirst, Migrated
<1>5. Committed(ledger') = Committed(ledger)
  <2>1. d # 0 => ledger'[d] = ledger[d]
    BY <1>2
  <2>2. Committed(ledger') = IF d = 0 THEN NoArtifacts ELSE ledger'[d].artifacts
    BY <1>2, <1>3, LatestCommitted
  <2>3. Committed(ledger) = IF d = 0 THEN NoArtifacts ELSE ledger[d].artifacts
    BY <1>1, <1>2, LatestCommitted
  <2> QED
    BY <2>1, <2>2, <2>3
<1> QED
  BY <1>3, <1>4, <1>5 DEF Chronicle, MarkerFirst, Migrated, Latest, Committed

\* A derivation becomes the latest one
LEMMA FactAppended ==
    ASSUME TypeOK, Chronicle, NEW p \in Proc, OngoingAt(p), pc[p] = "append",
           seen[p] = Len(ledger), ledger' = Append(ledger, Fact(p))
    PROVE  Chronicle' /\ Committed(ledger)' = Mine(p)
<1> DEFINE n == Len(ledger) + 1
<1>1. Fact(p) \in Facts /\ ledger \in Seq(Facts) /\ ledger' \in Seq(Facts) /\ Len(ledger') = n
  BY NewFactTyped DEF TypeOK
<1>2. /\ ledger'[n] = Fact(p) /\ \A i \in 1 .. Len(ledger) : ledger'[i] = ledger[i]
      /\ n \in 1 .. n /\ n # 0
  BY <1>1
<1>3. Read(p) = ledger
  BY <1>1 DEF Read
<1>4. IsDerivation(Fact(p)) /\ Fact(p).artifacts = Mine(p)
  BY DEF Fact, IsDerivation
<1>5. Mine(p)["json"] # Absent => Migrated(ledger)
  BY <1>3 DEF Mine, Artifacts, Outputs
<1>6. Latest(ledger', n) /\ n \in 0 .. Len(ledger')
  BY <1>1, <1>2, <1>4 DEF Latest
<1>7. MarkerFirst(ledger')
  <2> SUFFICES ASSUME NEW i \in 1 .. Len(ledger'), IsDerivation(ledger'[i]),
                      ledger'[i].artifacts["json"] # Absent
               PROVE  Migrated(ledger')
    BY DEF MarkerFirst
  <2>1. Migrated(ledger)
    BY <1>1, <1>2, <1>4, <1>5 DEF Chronicle, MarkerFirst
  <2> QED
    BY <1>1, <1>2, <2>1 DEF Migrated
<1>8. Committed(ledger') = Mine(p)
  BY <1>1, <1>2, <1>4, <1>6, LatestCommitted
<1> QED
  BY <1>6, <1>7, <1>8 DEF Chronicle, MarkerFirst, Migrated, Latest, Committed

-----------------------------------------------------------------------------
\* What the rollback of the holder would restore

\* Every output that was moved away, or published where none was, and every other
\* output, can be put back to what the latest derivation committed.
Restorable(p) ==
    \A f \in Outputs :
        IF f \in DOMAIN moved[p] THEN moved[p][f] = Committed(ledger)[f]
        ELSE Committed(ledger)[f] = IF f \in placed[p] THEN Absent ELSE files[f]

AsCommitted == files = Committed(ledger)

RestAt(p) ==
    /\ pc[p] \in {"backup", "install", "append", "undo"} => Restorable(p)
    /\ pc[p] \in {"backup", "append"} => DOMAIN moved[p] \subseteq placed[p]
    /\ pc[p] = "install" => /\ files[Next1(p)] = Absent
                            /\ DOMAIN moved[p] \subseteq placed[p] \cup {Next1(p)}
    /\ pc[p] = "status" => IF IsCommitted(p) THEN AsCommitted ELSE Restorable(p)
    /\ pc[p] \in {"drop", "keep"} => AsCommitted

\* Backups exist only under the lock
NoneMoved == \A p \in Proc : pc[p] \notin Held => DOMAIN moved[p] = {}

\* Without worse faults
Resting ==
    faults.worse = 0 =>
        /\ lock = NoProc => AsCommitted
        /\ \A p \in Proc : lock = p => RestAt(p)

Rested == Chronicle /\ NoneMoved /\ Resting
Base == IInv /\ Holding

\* Worse faults are never forgotten, and some kinds are worse.
LEMMA WorseStays ==
    ASSUME TypeOK, NEW kind, Fault(kind)
    PROVE  /\ faults'.worse = 0 => faults.worse = 0
           /\ kind \notin {"publish", "append"} => faults'.worse # 0
BY DEF Fault, TypeOK

\* A process that stands still, its backups included, while files and lock do
StillHeld(q) == StandsStill(q) /\ moved'[q] = moved[q]

\* Whoever acts, the holder's backups and files stay good.
LEMMA RestStays ==
    ASSUME Base, Base', Chronicle, NEW q \in Proc, lock = q, RestAt(q), StillHeld(q), UNCHANGED files,
           ledger' = ledger \/ \E e \in Plain : ledger' = Append(ledger, e)
    PROVE  RestAt(q)'
<1>1. TypeOK /\ TypeOK' /\ pc[q] \in Held /\ OngoingAt(q) /\ HistoryAt(q)
  BY DEF Base, IInv, Story, Holding, HeldAt
<1>2. Committed(ledger)' = Committed(ledger)
  BY <1>1, PlainAppended DEF Committed
<1>3. Mine(q)' = Mine(q) /\ Wanted(q)' = Wanted(q) /\ Fact(q)' = Fact(q)
  <2>1. Plain \subseteq Facts
    BY DEF Facts
  <2> QED
    BY <1>1, <2>1, MineStays DEF Grows, StillHeld, StandsStill
<1>4. Next1(q)' = Next1(q)
  BY <1>3 DEF Next1, StillHeld, StandsStill, First
<1>5. IsCommitted(q)' <=> IsCommitted(q)
  <2>1. CASE ledger' = ledger
    BY <1>3, <2>1 DEF IsCommitted, StillHeld, StandsStill
  <2>2. ASSUME NEW e \in Plain, ledger' = Append(ledger, e)
        PROVE  IsCommitted(q)' <=> IsCommitted(q)
    <3>1. e # Fact(q)
      BY DEF Plain, Fact
    <3> QED
      BY <1>1, <1>3, <2>2, <3>1 DEF IsCommitted, StillHeld, StandsStill, TypeOK
  <2> QED
    BY <2>1, <2>2
<1>6. Restorable(q) => Restorable(q)'
  BY <1>2 DEF Restorable, StillHeld, StandsStill
<1>7. AsCommitted => AsCommitted'
  BY <1>2 DEF AsCommitted
<1> QED
  BY <1>4, <1>5, <1>6, <1>7 DEF RestAt, StillHeld, StandsStill

\* A step of a process that does not hold the lock, or of none.
LEMMA RestElsewhere ==
    ASSUME Base, Base', Chronicle, Resting, UNCHANGED <<files, lock>>,
           faults'.worse = 0 => faults.worse = 0,
           \A q \in Proc : lock = q => StillHeld(q),
           ledger' = ledger \/ \E e \in Plain : ledger' = Append(ledger, e)
    PROVE  Resting'
<1> SUFFICES ASSUME faults'.worse = 0
             PROVE  /\ lock' = NoProc => AsCommitted'
                    /\ \A p \in Proc : lock' = p => RestAt(p)'
  BY DEF Resting
<1>1. faults.worse = 0 /\ TypeOK
  BY DEF Base, IInv
<1>2. Committed(ledger)' = Committed(ledger)
  BY <1>1, PlainAppended DEF Committed
<1>3. lock' = NoProc => AsCommitted'
  BY <1>1, <1>2 DEF Resting, AsCommitted
<1>4. ASSUME NEW p \in Proc, lock' = p PROVE RestAt(p)'
  BY <1>1, <1>4, RestStays DEF Resting
<1> QED
  BY <1>3, <1>4

\* A step of the holder: it keeps the lock with good backups, or leaves with the
\* committed artifacts in place.
LEMMA RestHolder ==
    ASSUME NEW p \in Proc,
           faults'.worse = 0 =>
               \/ lock' = p /\ RestAt(p)'
               \/ lock' = NoProc /\ AsCommitted'
    PROVE  Resting'
BY PublishAssumption DEF Resting

-----------------------------------------------------------------------------
\* Steps

\* A process that leaves, or never had backups, has none
LEMMA NoneMovedKept ==
    ASSUME TypeOK, NoneMoved, Holding, [Next]_vars
    PROVE  NoneMoved'
<1>1. ASSUME NEW p \in Proc, Leave(p) PROVE NoneMoved'
  BY <1>1 DEF Leave, TypeOK, NoneMoved
<1>2. ASSUME NEW p \in Proc, pc'[p] \in Held \/ (pc[p] \notin Held /\ moved'[p] = moved[p]),
             \A q \in Proc \ {p} : pc'[q] = pc[q] /\ moved'[q] = moved[q]
      PROVE  NoneMoved'
  BY <1>2 DEF NoneMoved
<1>3. ASSUME NEW p \in Proc, Submit(p) \/ Guard(p) \/ Check(p) \/ PrintBrief(p) PROVE NoneMoved'
  BY <1>1, <1>2, <1>3 DEF Submit, Guard, Check, Checked, PrintBrief, Goto, Held, TypeOK
<1>4. ASSUME NEW p \in Proc, Lock(p) \/ Publish(p) \/ Admit(p) \/ Withdraw(p) \/ Restore(p)
      PROVE  NoneMoved'
  BY <1>2, <1>4 DEF Lock, Publish, Backup, Install, PublishFails, Interrupted, Admit, AppendFact,
     AppendRaises, Status, StatusUnknown, Withdraw, Restore, Goto, Held, TypeOK
<1>5. ASSUME NEW p \in Proc, EndUndo(p) \/ Drop(p) \/ Kill(p) PROVE NoneMoved'
  BY <1>1, <1>5 DEF EndUndo, Drop, Kill
<1>6. ASSUME AppendOther \/ Edit \/ UNCHANGED vars PROVE NoneMoved'
  BY <1>6 DEF AppendOther, Edit, vars, locals, NoneMoved
<1> QED
  BY <1>3, <1>4, <1>5, <1>6 DEF Next, RollBack

\* The ledger grows by facts that keep its chronicle
LEMMA ChronicleKept ==
    ASSUME TypeOK, \A p \in Proc : OngoingAt(p), Chronicle, [Next]_vars
    PROVE  Chronicle'
<1>1. ledger' = ledger => Chronicle'
  BY DEF Chronicle, MarkerFirst, Migrated, Latest
<1>2. CASE AppendOther
  BY <1>2, PlainAppended DEF AppendOther
<1>3. ASSUME NEW p \in Proc, AppendFact(p) \/ AppendRaises(p) PROVE Chronicle'
  BY <1>1, <1>3, FactAppended DEF AppendFact, AppendRaises
<1>4. ASSUME NEW p \in Proc, Submit(p) \/ Lock(p) \/ Publish(p) \/ Status(p) \/ StatusUnknown(p)
                \/ RollBack(p) \/ Drop(p) \/ Kill(p) \/ Guard(p) \/ Check(p) \/ PrintBrief(p)
      PROVE  Chronicle'
  BY <1>1, <1>4 DEF Submit, Lock, Publish, Backup, Install, PublishFails, Interrupted, Status,
     StatusUnknown, RollBack, Withdraw, Restore, EndUndo, Drop, Kill, Guard, Check, PrintBrief
<1>5. CASE Edit \/ UNCHANGED vars
  BY <1>1, <1>5 DEF Edit, vars
<1> QED
  BY <1>2, <1>3, <1>4, <1>5 DEF Next, Admit

\* Steps that are no business of the holder of the lock
LEMMA RestAside ==
    ASSUME Base, Base', Chronicle, Resting,
           \/ AppendOther \/ UNCHANGED vars
           \/ \E p \in Proc : Submit(p) \/ Guard(p) \/ Check(p) \/ PrintBrief(p)
    PROVE  Resting'
<1>1. TypeOK /\ \A p \in Proc : HeldAt(p)
  BY DEF Base, IInv, Holding
<1>2. CASE AppendOther \/ UNCHANGED vars
  BY <1>2, RestElsewhere DEF AppendOther, vars, locals, StillHeld, StandsStill
<1>3. ASSUME NEW p \in Proc, Submit(p) \/ Guard(p) \/ Check(p) \/ PrintBrief(p) PROVE Resting'
  <2>1. UNCHANGED <<ledger, files, lock, faults>> /\ lock # p
    BY <1>1, <1>3 DEF Submit, Guard, Check, Checked, PrintBrief, HeldAt, Held
  <2>2. \A q \in Proc \ {p} : StillHeld(q)
    BY <1>1, <1>3
       DEF Submit, Guard, Check, PrintBrief, Leave, Goto, TypeOK, StillHeld, StandsStill
  <2> QED
    BY <2>1, <2>2, RestElsewhere
<1> QED
  BY <1>2, <1>3

\* The lock is taken while the files are as committed
LEMMA RestLock ==
    ASSUME Base, NoneMoved, Resting, NEW p \in Proc, Lock(p)
    PROVE  Resting'
<1>1. TypeOK /\ OngoingAt(p) /\ pc[p] = "lock" /\ DOMAIN moved[p] = {}
  BY DEF Base, IInv, Story, Lock, NoneMoved, Held
<1>2. /\ lock = NoProc /\ lock' = p /\ pc'[p] = "backup" /\ UNCHANGED <<ledger, files, placed, moved, faults>>
  BY <1>1 DEF Lock, Goto, TypeOK
<1>3. AsCommitted => RestAt(p)'
  BY <1>1, <1>2 DEF OngoingAt, AsCommitted, RestAt, Restorable, Committed
<1>4. faults'.worse = 0 => AsCommitted
  BY <1>2 DEF Resting
<1> QED
  BY <1>2, <1>3, <1>4, RestHolder

\* An output is moved away
LEMMA RestBackup ==
    ASSUME Base, Base', Resting, NEW p \in Proc, Backup(p), faults.worse = 0
    PROVE  RestAt(p)'
<1> DEFINE f == Next1(p)
           C == Committed(ledger)
<1>1. /\ TypeOK /\ TypeOK' /\ pc[p] = "backup" /\ lock = p /\ OngoingAt(p)
  BY DEF Base, IInv, Story, Backup, Holding, HeldAt, Held
<1>2. RestAt(p)
  BY <1>1 DEF Resting
<1>3. /\ pc'[p] = "install" /\ UNCHANGED <<ledger, lock, seen, reply, placed, faults>>
      /\ files' = [files EXCEPT ![f] = Absent]
      /\ moved' = IF files[f] = Absent THEN moved
                  ELSE [moved EXCEPT ![p] = [g \in DOMAIN @ \cup {f} |-> IF g = f THEN files[f] ELSE @[g]]]
  BY <1>1 DEF Backup, Goto, TypeOK
<1>4. f \in Outputs /\ f \notin placed[p] /\ f \notin DOMAIN moved[p]
  BY <1>1, <1>2, NextTyped DEF RestAt
<1>5. Next1(p)' = f
  BY <1>1, <1>3, MineStays DEF Next1, First, Grows
<1>6. C' = C /\ files[f] = C[f] /\ files'[f] = Absent
  BY <1>1, <1>2, <1>3, <1>4 DEF RestAt, Restorable, Committed, TypeOK
<1>7. DOMAIN moved'[p] \subseteq placed'[p] \cup {f}
  BY <1>1, <1>2, <1>3 DEF RestAt, TypeOK
<1> HIDE DEF f, C
<1>8. Restorable(p)'
  <2>1. CASE files[f] = Absent
    <3>1. files' = files /\ moved' = moved
      BY <1>1, <1>3, <1>4, <2>1 DEF TypeOK
    <3> QED
      BY <1>1, <1>2, <1>3, <1>6, <3>1 DEF RestAt, Restorable, C
  <2>2. CASE files[f] # Absent
    <3>1. /\ DOMAIN moved'[p] = DOMAIN moved[p] \cup {f} /\ moved'[p][f] = files[f]
          /\ \A g \in DOMAIN moved[p] : moved'[p][g] = moved[p][g]
      BY <1>1, <1>3, <1>4, <2>2 DEF TypeOK
    <3>2. \A g \in Outputs \ {f} : files'[g] = files[g]
      BY <1>1, <1>3 DEF TypeOK
    <3> QED
      BY <1>1, <1>2, <1>3, <1>4, <1>6, <3>1, <3>2 DEF RestAt, Restorable, C
  <2> QED
    BY <2>1, <2>2
<1> QED
  BY <1>3, <1>5, <1>6, <1>7, <1>8 DEF RestAt

\* An output is published
LEMMA RestInstall ==
    ASSUME Base, Base', Resting, NEW p \in Proc, Install(p), faults.worse = 0
    PROVE  RestAt(p)'
<1> DEFINE f == Next1(p)
<1>1. /\ TypeOK /\ TypeOK' /\ pc[p] = "install" /\ lock = p /\ OngoingAt(p)
  BY DEF Base, IInv, Story, Install, Holding, HeldAt, Held
<1>2. Restorable(p) /\ files[f] = Absent /\ DOMAIN moved[p] \subseteq placed[p] \cup {f}
  BY <1>1 DEF Resting, RestAt
<1>3. f \in Outputs /\ f \notin placed[p]
  BY <1>1, NextTyped
<1>4. /\ pc'[p] \in {"append", "backup"} /\ UNCHANGED <<ledger, lock, seen, reply, moved, faults>>
      /\ placed'[p] = placed[p] \cup {f}
      /\ \A g \in Outputs \ {f} : files'[g] = files[g]
  BY <1>1, <1>3 DEF Install, Goto, TypeOK
<1> HIDE DEF f
<1>5. Restorable(p)'
  BY <1>2, <1>3, <1>4 DEF Restorable, Committed
<1> QED
  BY <1>2, <1>4, <1>5 DEF RestAt

\* The holder gives up the publication
LEMMA RestFails ==
    ASSUME Base, Resting, NEW p \in Proc, PublishFails(p), faults.worse = 0
    PROVE  RestAt(p)'
<1>1. TypeOK /\ pc[p] \in {"backup", "install", "append"} /\ lock = p
  BY DEF Base, IInv, PublishFails, Holding, HeldAt, Held
<1>2. pc'[p] = "undo" /\ UNCHANGED <<ledger, files, placed, moved>>
  BY <1>1 DEF PublishFails, Goto, TypeOK
<1>3. Restorable(p)
  BY <1>1 DEF Resting, RestAt
<1>4. Restorable(p)'
  BY <1>2, <1>3 DEF Restorable, Committed
<1> QED
  BY <1>2, <1>4 DEF RestAt

\* Everything is published when the holder appends, and what it has no artifact
\* for was not committed before.
LEMMA AllPublished ==
    ASSUME Base, Chronicle, Resting, NEW p \in Proc, pc[p] = "append", faults.worse = 0,
           seen[p] = Len(ledger)
    PROVE  files = Mine(p)
<1>1. /\ TypeOK /\ lock = p /\ placed[p] = Wanted(p) /\ reply[p] \in Responses
      /\ \A f \in placed[p] : files[f] = Mine(p)[f]
      /\ seen[p] \in 1 .. MaxLedger
  <2>1. TypeOK /\ OngoingAt(p) /\ HeldAt(p)
    BY DEF Base, IInv, Story, Holding
  <2> QED
    BY <2>1, PublishAssumption DEF OngoingAt, HeldAt, Held, Submitting
<1>2. Restorable(p) /\ DOMAIN moved[p] \subseteq placed[p]
  BY <1>1 DEF Resting, RestAt
<1>3. Mine(p) \in [Outputs -> Contents] /\ files \in [Outputs -> Contents]
  BY <1>1, FactTyped DEF TypeOK
<1>4. ASSUME NEW f \in Outputs \ Wanted(p) PROVE files[f] = Mine(p)[f]
  <2>1. Read(p) = ledger /\ Len(ledger) \in 1 .. MaxLedger
    BY <1>1 DEF Read, TypeOK
  <2>2. Mine(p)[f] = Absent
    BY <1>4 DEF Wanted
  <2>3. f = "json" /\ ~Migrated(ledger)
    BY <1>1, <2>1, <2>2, PublishAssumption DEF Mine, Artifacts, Outputs
  <2>4. Committed(ledger)[f] = Absent
    BY <1>1, <2>3, CommittedTyped
  <2> QED
    BY <1>1, <1>2, <2>2, <2>4 DEF Restorable
<1>5. \A f \in Outputs : files[f] = Mine(p)[f]
  BY <1>1, <1>4
<1> QED
  BY <1>3, <1>5

\* The holder appends its fact, or finds that it cannot, or has no answer
LEMMA RestAppends ==
    ASSUME Base, Base', Chronicle, Resting, NEW p \in Proc, AppendFact(p) \/ AppendRaises(p),
           faults.worse = 0
    PROVE  RestAt(p)'
<1>1. /\ TypeOK /\ TypeOK' /\ pc[p] = "append" /\ lock = p /\ OngoingAt(p) /\ HistoryAt(p)
  BY DEF Base, IInv, Story, AppendFact, AppendRaises, Holding, HeldAt, Held
<1>2. /\ UNCHANGED <<files, seen, reply, placed, moved>>
      /\ \/ ledger' = ledger /\ pc'[p] = "status"
         \/ seen[p] = Len(ledger) /\ ledger' = Append(ledger, Fact(p)) /\ pc'[p] \in {"status", "drop"}
  BY <1>1 DEF AppendFact, AppendRaises, Goto, TypeOK
<1>3. CASE ledger' = ledger /\ pc'[p] = "status"
  <2>1. ~IsCommitted(p)
    <3>1. By(Fact(p), p)
      BY DEF By, Fact, IsDerivation
    <3>2. Unpublished(p)
      BY <1>1 DEF HistoryAt, NotYet
    <3>3. seen[p] < Len(ledger) => seen[p] + 1 \in seen[p] + 1 .. Len(ledger)
      BY <1>1 DEF TypeOK
    <3> QED
      BY <3>1, <3>2, <3>3 DEF IsCommitted, Unpublished
  <2>2. ~IsCommitted(p)'
    BY <1>2, <1>3, <2>1 DEF IsCommitted, Fact, Mine, Read
  <2>3. Restorable(p)
    BY <1>1 DEF Resting, RestAt
  <2>4. Restorable(p)'
    BY <1>2, <1>3, <2>3 DEF Restorable, Committed
  <2> QED
    BY <1>3, <2>2, <2>4 DEF RestAt
<1>4. CASE /\ seen[p] = Len(ledger) /\ ledger' = Append(ledger, Fact(p))
           /\ pc'[p] \in {"status", "drop"}
  <2>1. files = Mine(p) /\ Committed(ledger)' = Mine(p)
    BY <1>1, <1>4, AllPublished, FactAppended
  <2>2. AsCommitted'
    BY <1>2, <2>1 DEF AsCommitted
  <2>3. Fact(p) \in Facts
    BY <1>1, <1>4, NewFactTyped
  <2>4. Fact(p)' = Fact(p)
    BY <1>1, <1>2, <1>4, <2>3, MineStays DEF Grows
  <2>5. IsCommitted(p)'
    BY <1>1, <1>2, <1>4, <2>3, <2>4 DEF IsCommitted, TypeOK
  <2> QED
    BY <1>4, <2>2, <2>5 DEF RestAt
<1> QED
  BY <1>2, <1>3, <1>4

\* The holder finds out whether its fact is in the ledger
LEMMA RestStatus ==
    ASSUME Base, Resting, NEW p \in Proc, Status(p), faults.worse = 0
    PROVE  RestAt(p)'
<1>1. TypeOK /\ pc[p] = "status" /\ lock = p
  BY DEF Base, IInv, Status, Holding, HeldAt, Held
<1>2. /\ pc'[p] = IF IsCommitted(p) THEN "keep" ELSE "undo"
      /\ UNCHANGED <<ledger, files, placed, moved>>
  BY <1>1 DEF Status, Goto, TypeOK
<1>3. IF IsCommitted(p) THEN AsCommitted ELSE Restorable(p)
  BY <1>1 DEF Resting, RestAt
<1>4. (AsCommitted => AsCommitted') /\ (Restorable(p) => Restorable(p)')
  BY <1>2 DEF AsCommitted, Restorable, Committed
<1> QED
  BY <1>2, <1>3, <1>4 DEF RestAt

\* One step of the rollback
LEMMA RestUndoes ==
    ASSUME Base, Base', Resting, NEW p \in Proc, Withdraw(p) \/ Restore(p), faults.worse = 0
    PROVE  RestAt(p)'
<1>1. TypeOK /\ TypeOK' /\ pc[p] = "undo" /\ lock = p /\ UNCHANGED <<ledger, pc>>
  BY DEF Base, IInv, Withdraw, Restore, Holding, HeldAt, Held
<1>2. Restorable(p) /\ placed[p] \in SUBSET Outputs /\ moved[p] \in Backups
  BY <1>1 DEF Resting, RestAt, TypeOK
<1>3. Committed(ledger)' = Committed(ledger)
  BY <1>1 DEF Committed
<1>4. ASSUME Withdraw(p) PROVE Restorable(p)'
  <2> DEFINE f == First(placed[p])
  <2>1. f \in placed[p] /\ f \in Outputs
    BY <1>2, <1>4, FirstIn DEF Withdraw
  <2>2. /\ files'[f] = Absent /\ \A g \in Outputs \ {f} : files'[g] = files[g]
        /\ placed'[p] = placed[p] \ {f} /\ moved' = moved
    BY <1>1, <1>4, <2>1 DEF Withdraw, TypeOK
  <2> HIDE DEF f
  <2> QED
    BY <1>2, <1>3, <2>1, <2>2 DEF Restorable
<1>5. ASSUME Restore(p) PROVE Restorable(p)'
  <2> DEFINE f == First(DOMAIN moved[p])
  <2>1. DOMAIN moved[p] \in SUBSET Outputs
    BY <1>2 DEF Backups
  <2>2. f \in DOMAIN moved[p] /\ f \in Outputs
    BY <1>5, <2>1, FirstIn DEF Restore
  <2>3. /\ files'[f] = moved[p][f] /\ \A g \in Outputs \ {f} : files'[g] = files[g]
        /\ placed[p] = {} /\ placed' = placed
        /\ DOMAIN moved'[p] = DOMAIN moved[p] \ {f}
        /\ \A g \in DOMAIN moved'[p] : moved'[p][g] = moved[p][g]
    BY <1>1, <1>5, <2>2 DEF Restore, TypeOK
  <2> HIDE DEF f
  <2> QED
    BY <1>2, <1>3, <2>2, <2>3 DEF Restorable
<1>6. Restorable(p)'
  BY <1>4, <1>5
<1> QED
  BY <1>1, <1>6 DEF RestAt

\* The holder leaves: its rollback is complete, or its fact is in the ledger
LEMMA RestLeaves ==
    ASSUME Base, Chronicle, Resting, NEW p \in Proc, faults.worse = 0,
           \/ pc[p] = "undo" /\ placed[p] = {} /\ DOMAIN moved[p] = {}
           \/ pc[p] \in {"drop", "keep"},
           Unlock(p), UNCHANGED <<ledger, files>>
    PROVE  lock' = NoProc /\ AsCommitted'
<1>1. TypeOK /\ lock = p /\ lock' = NoProc
  BY DEF Base, IInv, Holding, HeldAt, Held, Unlock
<1>2. RestAt(p)
  BY <1>1 DEF Resting
<1>3. ASSUME pc[p] = "undo", placed[p] = {}, DOMAIN moved[p] = {} PROVE AsCommitted
  <2>1. \A f \in Outputs : files[f] = Committed(ledger)[f]
    BY <1>2, <1>3 DEF RestAt, Restorable
  <2>2. Committed(ledger) \in [Outputs -> Contents] /\ files \in [Outputs -> Contents]
    BY <1>1, CommittedTyped DEF TypeOK
  <2> QED
    BY <2>1, <2>2 DEF AsCommitted
<1>4. AsCommitted
  BY <1>2, <1>3 DEF RestAt
<1> QED
  BY <1>1, <1>4 DEF AsCommitted, Committed

-----------------------------------------------------------------------------
\* The invariant

\* A worse fault ends the claim.
LEMMA WorseAllows ==
    ASSUME TypeOK, NEW kind \in {"interrupt", "status", "undo", "kill", "edit"}, Fault(kind)
    PROVE  Resting'
BY WorseStays DEF Resting

\* Every step keeps the files at rest
LEMMA RestingKept ==
    ASSUME Base, Base', Chronicle, NoneMoved, Resting, [Next]_vars
    PROVE  Resting'
<1>1. TypeOK
  BY DEF Base, IInv
<1>2. CASE \/ AppendOther \/ UNCHANGED vars
           \/ \E p \in Proc : Submit(p) \/ Guard(p) \/ Check(p) \/ PrintBrief(p)
  BY <1>2, RestAside
<1>3. CASE Edit
  BY <1>1, <1>3, WorseAllows DEF Edit
<1>4. ASSUME NEW p \in Proc, Kill(p) \/ Interrupted(p) \/ StatusUnknown(p)
      PROVE  Resting'
  BY <1>1, <1>4, WorseAllows DEF Kill, Interrupted, StatusUnknown
<1>5. ASSUME NEW p \in Proc, Lock(p) PROVE Resting'
  BY <1>5, RestLock
<1>6. ASSUME NEW p \in Proc, \/ Backup(p) \/ Install(p) \/ PublishFails(p) \/ AppendFact(p)
                             \/ AppendRaises(p) \/ Status(p) \/ Withdraw(p) \/ Restore(p)
      PROVE  Resting'
  <2>1. lock' = p
    <3>1. lock = p
      BY <1>6 DEF Base, Holding, HeldAt, Held, Backup, Install, PublishFails, AppendFact,
         AppendRaises, Status, Withdraw, Restore
    <3> QED
      BY <1>6, <3>1 DEF Backup, Install, PublishFails, AppendFact, AppendRaises, Status,
         Withdraw, Restore
  <2>2. ASSUME faults'.worse = 0 PROVE faults.worse = 0
    <3>1. CASE PublishFails(p)
      BY <1>1, <2>2, <3>1, WorseStays DEF PublishFails
    <3>2. CASE AppendRaises(p)
      BY <1>1, <2>2, <3>2, WorseStays DEF AppendRaises
    <3>3. CASE Backup(p) \/ Install(p) \/ AppendFact(p) \/ Status(p) \/ Withdraw(p) \/ Restore(p)
      BY <2>2, <3>3 DEF Backup, Install, AppendFact, Status, Withdraw, Restore
    <3> QED
      BY <1>6, <3>1, <3>2, <3>3
  <2>3. ASSUME faults.worse = 0 PROVE RestAt(p)'
    BY <1>6, <2>3, RestBackup, RestInstall, RestFails, RestAppends, RestStatus, RestUndoes
  <2> QED
    BY <2>1, <2>2, <2>3, RestHolder
<1>7. ASSUME NEW p \in Proc, EndUndo(p) PROVE Resting'
  <2>1. CASE Fault("undo")
    BY <1>1, <2>1, WorseAllows
  <2>2. CASE placed[p] = {} /\ DOMAIN moved[p] = {} /\ UNCHANGED faults
    <3>1. pc[p] = "undo" /\ Unlock(p) /\ UNCHANGED <<ledger, files>>
      BY <1>7 DEF EndUndo
    <3> QED
      BY <2>2, <3>1, RestLeaves, RestHolder
  <2> QED
    BY <1>7, <2>1, <2>2 DEF EndUndo
<1>8. ASSUME NEW p \in Proc, Drop(p) PROVE Resting'
  <2>1. pc[p] \in {"drop", "keep"} /\ Unlock(p) /\ UNCHANGED <<ledger, files, faults>>
    BY <1>8 DEF Drop
  <2> QED
    BY <2>1, RestLeaves, RestHolder
<1> QED
  BY <1>2, <1>3, <1>4, <1>5, <1>6, <1>7, <1>8 DEF Next, Publish, Admit, RollBack

\* The first ledger has no derivation, and nothing is on disk
LEMMA RestedStarts ==
    ASSUME Init
    PROVE  Rested
<1>1. /\ ledger = <<[kind |-> "spec"]>> /\ Len(ledger) = 1 /\ ~IsDerivation(ledger[1])
      /\ [kind |-> "spec"] \in Facts
  BY DEF Init, IsDerivation, Facts, Plain
<1>2. Latest(ledger, 0) /\ ledger \in Seq(Facts)
  BY <1>1 DEF Latest
<1>3. Chronicle
  BY <1>1, <1>2 DEF Chronicle, MarkerFirst
<1>4. AsCommitted
  <2>1. 0 \in 0 .. Len(ledger)
    BY <1>1
  <2>2. Committed(ledger) = IF 0 = 0 THEN NoArtifacts ELSE ledger[0].artifacts
    BY <1>2, <2>1, LatestCommitted
  <2> QED
    BY <2>2 DEF Init, AsCommitted
<1>5. NoneMoved
  BY DEF Init, NoneMoved
<1>6. Resting
  BY <1>4, PublishAssumption DEF Init, Resting
<1> QED
  BY <1>3, <1>5, <1>6 DEF Rested

\* Whenever no submission runs, and nothing worse happened than publications that
\* failed and appends that raised, the files on disk are those of the latest
\* derivation in the ledger: _publish_with_ledger_append and its rollback leave
\* either the new artifacts with their fact, or the old ones without it.
THEOREM RestingFilesCommitted == Spec => []FilesAtRest
<1>1. Init => Rested
  BY RestedStarts
<1>2. Base /\ Base' /\ Rested /\ [Next]_vars => Rested'
  <2> SUFFICES ASSUME Base, Base', Rested, [Next]_vars
               PROVE  Rested'
    OBVIOUS
  <2>1. TypeOK /\ Holding /\ \A p \in Proc : OngoingAt(p)
    BY DEF Base, IInv, Story
  <2> QED
    BY <2>1, ChronicleKept, NoneMovedKept, RestingKept DEF Rested
<1>3. Rested => FilesAtRest
  BY DEF Rested, Resting, AsCommitted, FilesAtRest
<1>4. Spec => []Base
  BY HoldingInvariant DEF Base
<1> QED
  BY <1>1, <1>2, <1>3, <1>4, PTL DEF Spec

=============================================================================
