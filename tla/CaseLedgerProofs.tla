-------------------------- MODULE CaseLedgerProofs --------------------------
(***************************************************************************)
(* Four theorems about CaseLedger, for any processes, commands, verdicts,  *)
(* options, policies and bounds.                                           *)
(*                                                                         *)
(* None of them rests on validate_fact_sequence: whether it admits a batch *)
(* or not, the builders and the expected head are enough.  A command that  *)
(* appends with the head of its read appends to the facts it has read      *)
(* (StepGrows), so each fact can be compared with exactly the facts before *)
(* it, which never change (FactAt).                                        *)
(*                                                                         *)
(* That a ruling is the latest on its attack needs a greatest element of a *)
(* set of positions; the invariant carries it from batch to batch (Latest) *)
(* instead of an induction over the set.                                   *)
(***************************************************************************)
EXTENDS CaseLedger, TLAPS

\* The facts that commands build
Facts ==
    [kind : {"root", "migration"}, case : Nat, v : {1, 2}] \cup
    [kind : {"amendment"}, case : Nat, v : {1, 2}, supersedes : Nat, source : Nat] \cup
    [kind : {"attack"}, case : Nat, v : {1, 2}, round : Nat, targets : SUBSET Nat,
     options : SUBSET Options] \cup
    [kind : {"review_round"}, case : Nat, v : {2}, round : Nat, max : Nat, selected : SUBSET Nat] \cup
    [kind : {"ruling"}, case : Nat, v : {1, 2}, attack : Nat, verdict : Verdicts,
     choice : Options \cup {None}, supersedes : Nat] \cup
    [kind : {"derivation"}, case : Nat, v : {1, 2}, head : Nat] \cup
    [kind : {"outcome"}, case : Nat, v : {1, 2}, attack : Nat]

Unmigrated(s, n) == \A i \in 1 .. n : s[i].kind # "migration"

\* What fact i owes to the facts before it, whatever validate_fact_sequence says
FactAt(s, i) ==
    /\ s[i].case \in 1 .. i
    /\ s[i].v = 1 => s[i].kind = "root" \/ Unmigrated(s, i - 1)
    /\ s[i].kind = "attack" => s[i].round >= 1
    /\ s[i].kind = "ruling" =>
          s[i].attack \in 1 .. i - 1 /\ s[s[i].attack].kind = "attack" /\
          s[i].case = s[s[i].attack].case
    /\ s[i].kind = "derivation" =>
          s[i].head = i - 1 /\ OpenAttacks(SubSeq(s, 1, i - 1), s[i].case) = {}

History(s) == \A i \in 1 .. Len(s) : FactAt(s, i)

\* Of the rulings on an attack one is the latest
Latest(s) == \A a \in Nat : RulingsOn(s, a) # {} => \E m \in RulingsOn(s, a) : \A i \in RulingsOn(s, a) : i <= m

\* A command that builds version 1 attacks has read no migration
CommandAt(p) == pc[p] = "review" /\ version[p] = 1 => Unmigrated(facts, seen[p])

IInv ==
    /\ TypeOK
    /\ facts \in Seq(Facts)
    /\ History(facts)
    /\ Latest(facts)
    /\ \A p \in Proc : CommandAt(p)

-----------------------------------------------------------------------------
\* What commands append

\* A fact that a batch may add to the facts s
NewFact(s, f) ==
    /\ f \in Facts
    /\ f.case \in 1 .. Len(s) + 1
    /\ f.v = 1 => f.kind = "root" \/ Unmigrated(s, Len(s))
    /\ f.kind = "attack" => f.round >= 1
    /\ f.kind = "ruling" => f.attack \in Where(s, {"attack"}) /\ f.case = s[f.attack].case
    /\ f.kind = "derivation" => f.head = Len(s) /\ OpenAttacks(s, f.case) = {}

Batch(s, b) ==
    /\ b \in Seq(Facts)
    /\ \A i \in 1 .. Len(b) :
          /\ NewFact(s, b[i])
          /\ b[i].kind \in {"root", "migration", "derivation"} => Len(b) = 1
          /\ b[i].kind = "ruling" => i = 1

\* Round n of a case may be selected
Gate(s, case, n) == n \in Nat /\ n >= 1 /\ RoundGate(s, case, n, n, {})

\* The first m facts of a batch are the attacks of one round, and no other is an attack or a ruling
OneRound(s, b, case, n, m) ==
    /\ case \in Cases(s) /\ Gate(s, case, n) /\ m \in 0 .. Len(b)
    /\ \A i \in 1 .. m : b[i].kind = "attack" /\ b[i].case = case /\ b[i].round = n
    /\ \A i \in m + 1 .. Len(b) : b[i].kind \notin {"attack", "ruling"}

Rounds(s, b) ==
    \/ \A i \in 1 .. Len(b) : b[i].kind # "attack"
    \/ \E case \in Cases(s), n \in Nat, m \in 0 .. Len(b) : OneRound(s, b, case, n, m)

\* The version that is written, and its meaning
LEMMA Versions ==
    ASSUME NEW s \in Seq(Facts)
    PROVE  WriteVersion(s) \in {1, 2} /\ (WriteVersion(s) = 1 <=> Unmigrated(s, Len(s)))
BY DEF WriteVersion, Unmigrated, Where

\* The active ruling on an attack is a ruling on it
LEMMA RulingActive ==
    ASSUME NEW s \in Seq(Facts), Latest(s), NEW a \in Nat
    PROVE  /\ ActiveRuling(s, a) = None => RulingsOn(s, a) = {}
           /\ ActiveRuling(s, a) # None => ActiveRuling(s, a) \in RulingsOn(s, a)
           /\ ActiveRuling(s, a) \in Nat
<1> RulingsOn(s, a) \subseteq 1 .. Len(s)
  BY DEF RulingsOn, Where
<1>1. CASE RulingsOn(s, a) = {}
  BY <1>1 DEF ActiveRuling, None
<1>2. CASE RulingsOn(s, a) # {}
  <2>1. \E m \in RulingsOn(s, a) : \A i \in RulingsOn(s, a) : i <= m
    BY <1>2 DEF Latest
  <2>2. ActiveRuling(s, a) \in RulingsOn(s, a)
    BY <1>2, <2>1 DEF ActiveRuling
  <2> QED
    BY <1>2, <2>2 DEF None
<1> QED
  BY <1>1, <1>2

\* build_ruling_batch
LEMMA RulingBatch ==
    ASSUME NEW s \in Seq(Facts), History(s), Latest(s), NEW b \in RulingBatches(s)
    PROVE  Batch(s, b) /\ Rounds(s, b)
<1> DEFINE v == WriteVersion(s)
           New(a, verdict, choice) == Ruling(v, s[a].case, a, verdict, choice, ActiveRuling(s, a))
<1>1. v \in {1, 2} /\ (v = 1 => Unmigrated(s, Len(s)))
  BY Versions
<1> HIDE DEF v
<1>2. ASSUME NEW a \in Where(s, {"attack"}), NEW verdict \in Verdicts, NEW choice \in Options \cup {None}
      PROVE  NewFact(s, New(a, verdict, choice)) /\ New(a, verdict, choice).kind = "ruling"
  <2>1. a \in Nat /\ a \in 1 .. Len(s) /\ s[a].case \in 1 .. Len(s)
    BY DEF Where, History, FactAt
  <2>2. ActiveRuling(s, a) \in Nat
    BY <2>1, RulingActive
  <2> QED
    BY <1>1, <2>1, <2>2 DEF NewFact, Ruling, Facts
<1>3. ASSUME NEW a \in Where(s, {"attack"}), NEW t \in AmendTargets(s, a)
      PROVE  LET f == Amendment(v, s[a].case, t, Len(s) + 1)
             IN  NewFact(s, f) /\ f.kind = "amendment"
  <2>1. a \in 1 .. Len(s) /\ s[a].case \in 1 .. Len(s)
    BY DEF Where, History, FactAt
  <2>2. t \in Nat
    BY DEF AmendTargets, ActiveIntents, Within, Where
  <2> QED
    BY <1>1, <2>1, <2>2 DEF NewFact, Amendment, Facts
<1>4. CASE \E a \in Where(s, {"attack"}), verdict \in Verdicts \ {"amend"}, choice \in Options \cup {None} :
              b = <<New(a, verdict, choice)>>
  <2>1. PICK f : b = <<f>> /\ NewFact(s, f) /\ f.kind = "ruling"
    BY <1>2, <1>4
  <2> QED
    BY <2>1 DEF Batch, Rounds, NewFact
<1>5. CASE \E a \in Where(s, {"attack"}) : \E t \in AmendTargets(s, a) :
              "amend" \in Verdicts /\ b = <<New(a, "amend", None), Amendment(v, s[a].case, t, Len(s) + 1)>>
  <2>1. PICK f, g : b = <<f, g>> /\ NewFact(s, f) /\ f.kind = "ruling" /\ NewFact(s, g) /\ g.kind = "amendment"
    BY <1>2, <1>3, <1>5
  <2> QED
    BY <2>1 DEF Batch, Rounds, NewFact
<1> QED
  BY <1>4, <1>5 DEF RulingBatches, v

\* A selection for a round of a case
LEMMA Selected ==
    ASSUME NEW s \in Seq(Facts), NEW v \in {1, 2}, NEW case \in Cases(s), NEW n \in Nat, n >= 1,
           v = 1 => Unmigrated(s, Len(s)), NEW b \in Selections(s, v, case, n)
    PROVE  /\ b \in Seq(Facts)
           /\ \A i \in 1 .. Len(b) : /\ NewFact(s, b[i])
                                     /\ b[i].kind = "attack" /\ b[i].case = case /\ b[i].round = n
<1> DEFINE C == {Attack(v, case, n, targets, options) :
                    targets \in (SUBSET Within(s, Intents, case)) \ {{}}, options \in {{}, Options}}
<1>1. ASSUME NEW f \in C
      PROVE  NewFact(s, f) /\ f.kind = "attack" /\ f.case = case /\ f.round = n
  <2>1. PICK targets \in SUBSET Within(s, Intents, case), options \in {{}, Options} :
            f = Attack(v, case, n, targets, options)
    OBVIOUS
  <2>2. targets \subseteq Nat /\ case \in 1 .. Len(s) /\ options \subseteq Options
    BY DEF Within, Where, Cases
  <2> QED
    BY <2>1, <2>2 DEF Attack, NewFact, Facts
<1>2. b \in UNION {[1 .. j -> C] : j \in 0 .. MaxAttacks}
  BY DEF Selections
<1> HIDE DEF C
<1>3. PICK j \in 0 .. MaxAttacks : b \in [1 .. j -> C]
  BY <1>2
<1>4. b \in Seq(C) /\ Len(b) = j
  BY <1>3, CaseAssumption
<1>5. C \subseteq Facts
  BY <1>1 DEF NewFact
<1> QED
  BY <1>1, <1>4, <1>5

\* A gate with any budget and any recorded rounds is a gate
LEMMA GateOf ==
    ASSUME NEW s, NEW case, NEW n \in Nat, n >= 1, NEW max, NEW recorded,
           RoundGate(s, case, n, max, recorded)
    PROVE  Gate(s, case, n)
BY DEF Gate, RoundGate

\* append_attack_round with version 1
LEMMA ReviewV1Batch ==
    ASSUME NEW s \in Seq(Facts), Unmigrated(s, Len(s)), NEW b \in ReviewBatchesV1(s)
    PROVE  Batch(s, b) /\ Rounds(s, b)
<1>1. PICK case \in Cases(s), n \in 1 .. 2 : b \in Selections(s, 1, case, n) /\ RoundGate(s, case, n, 2, {})
  BY DEF ReviewBatchesV1
<1>2. Gate(s, case, n)
  BY <1>1, GateOf
<1>3. /\ b \in Seq(Facts)
      /\ \A i \in 1 .. Len(b) : /\ NewFact(s, b[i])
                                /\ b[i].kind = "attack" /\ b[i].case = case /\ b[i].round = n
  BY <1>1, Selected
<1>4. Len(b) \in 0 .. Len(b) /\ n \in Nat
  BY <1>3
<1>5. OneRound(s, b, case, n, Len(b))
  BY <1>2, <1>3, <1>4 DEF OneRound
<1> QED
  BY <1>3, <1>4, <1>5 DEF Batch, Rounds

\* append_attack_round with version 2
LEMMA ReviewV2Batch ==
    ASSUME NEW s \in Seq(Facts), NEW batch \in ReviewBatchesV2(s)
    PROVE  Batch(s, batch) /\ Rounds(s, batch)
<1> DEFINE Record(c, n, max, a) == ReviewRound(c, n, max, {Len(s) + i : i \in 1 .. Len(a)})
<1>1. PICK case \in Cases(s), n \in 1 .. MaxFacts, max \in Policies : batch \in RoundsV2(s, case, n, max)
  BY DEF ReviewBatchesV2
<1> DEFINE recorded == {s[i].round : i \in Within(s, {"review_round"}, case)}
<1>2. RoundGate(s, case, n, max, recorded)
  BY <1>1 DEF RoundsV2
<1>3. PICK a \in Selections(s, 2, case, n) : batch = a \o <<Record(case, n, max, a)>>
  BY <1>1, <1>2 DEF RoundsV2
<1> HIDE DEF recorded
<1>4. Gate(s, case, n)
  BY <1>2, GateOf
<1>5. /\ a \in Seq(Facts)
      /\ \A i \in 1 .. Len(a) : /\ NewFact(s, a[i])
                                /\ a[i].kind = "attack" /\ a[i].case = case /\ a[i].round = n
  BY Selected
<1> DEFINE r == Record(case, n, max, a)
<1>6. NewFact(s, r) /\ r.kind = "review_round"
  <2>1. case \in 1 .. Len(s) /\ n \in Nat /\ max \in Nat /\ {Len(s) + i : i \in 1 .. Len(a)} \subseteq Nat
    BY CaseAssumption, <1>5 DEF Cases, Where
  <2> QED
    BY <2>1 DEF ReviewRound, NewFact, Facts
<1> HIDE DEF r
<1>7. /\ batch \in Seq(Facts) /\ Len(batch) = Len(a) + 1 /\ Len(a) \in Nat /\ batch[Len(batch)] = r
      /\ \A i \in 1 .. Len(a) : batch[i] = a[i]
  BY <1>3, <1>5, <1>6 DEF NewFact, r
<1>8. OneRound(s, batch, case, n, Len(a)) /\ Len(a) \in 0 .. Len(batch) /\ n \in Nat
  BY <1>4, <1>5, <1>6, <1>7 DEF OneRound
<1>9. Batch(s, batch)
  BY <1>5, <1>6, <1>7 DEF Batch
<1> QED
  BY <1>8, <1>9 DEF Rounds

\* build_outcome, and submit_derivation
LEMMA ClosingBatch ==
    ASSUME NEW s \in Seq(Facts), History(s), NEW b \in OutcomeBatches(s) \cup DerivationBatches(s)
    PROVE  Batch(s, b) /\ Rounds(s, b)
<1> DEFINE v == WriteVersion(s)
<1>1. v \in {1, 2} /\ (v = 1 => Unmigrated(s, Len(s)))
  BY Versions
<1> HIDE DEF v
<1>2. \E f : b = <<f>> /\ NewFact(s, f) /\ f.kind \in {"outcome", "derivation"}
  <2>1. ASSUME NEW c \in Cases(s), b = <<Outcome(v, c, None)>>
        PROVE  NewFact(s, Outcome(v, c, None)) /\ Outcome(v, c, None).kind = "outcome"
    <3>1. c \in 1 .. Len(s) /\ None \in Nat
      BY DEF Cases, Where, None
    <3> QED
      BY <1>1, <3>1 DEF Outcome, NewFact, Facts
  <2>2. ASSUME NEW a \in Where(s, {"attack"}), b = <<Outcome(v, s[a].case, a)>>
        PROVE  NewFact(s, Outcome(v, s[a].case, a)) /\ Outcome(v, s[a].case, a).kind = "outcome"
    <3>1. a \in Nat /\ s[a].case \in 1 .. Len(s)
      BY DEF Where, History, FactAt
    <3> QED
      BY <1>1, <3>1 DEF Outcome, NewFact, Facts
  <2>3. ASSUME NEW c \in Cases(s), OpenAttacks(s, c) = {}, b = <<Derivation(v, c, Len(s))>>
        PROVE  NewFact(s, Derivation(v, c, Len(s))) /\ Derivation(v, c, Len(s)).kind = "derivation"
    <3>1. c \in 1 .. Len(s)
      BY DEF Cases, Where
    <3> QED
      BY <1>1, <2>3, <3>1 DEF Derivation, NewFact, Facts
  <2> QED
    BY <2>1, <2>2, <2>3 DEF OutcomeBatches, DerivationBatches, v
<1>3. PICK f : b = <<f>> /\ NewFact(s, f) /\ f.kind \in {"outcome", "derivation"}
  BY <1>2
<1> QED
  BY <1>3 DEF Batch, Rounds, NewFact

\* A new case, or the migration marker
LEMMA OpeningBatch ==
    ASSUME NEW s \in Seq(Facts), NEW v \in {1, 2},
           NEW b \in {<<Root(v, Len(s) + 1)>>, <<Migration(Len(s) + 1)>>}
    PROVE  Batch(s, b) /\ Rounds(s, b)
<1>1. PICK f \in {Root(v, Len(s) + 1), Migration(Len(s) + 1)} : b = <<f>>
  OBVIOUS
<1>2. NewFact(s, f) /\ f.kind \in {"root", "migration"}
  BY DEF Root, Migration, NewFact, Facts
<1> QED
  BY <1>1, <1>2 DEF Batch, Rounds, NewFact

-----------------------------------------------------------------------------
\* What a step does

\* The ledger stays, or grows by such a batch
Grows ==
    \/ facts' = facts
    \/ \E b \in Seq(Facts) : /\ Batch(facts, b) /\ Rounds(facts, b)
                             /\ facts' = facts \o b /\ Len(facts) + Len(b) <= MaxFacts

\* A batch that may be appended is one the ledger may grow by
LEMMA Appended ==
    ASSUME NEW b, Batch(facts, b), Rounds(facts, b), Append1(b)
    PROVE  Grows
BY DEF Append1, Grows, Batch

\* Whatever the commands do, the ledger grows by a batch built on it
LEMMA StepGrows ==
    ASSUME IInv, [Next]_vars
    PROVE  Grows
<1>1. TypeOK /\ facts \in Seq(Facts) /\ History(facts) /\ Latest(facts)
  BY DEF IInv
<1>2. CASE UNCHANGED vars
  BY <1>2 DEF vars, Grows
<1>3. ASSUME NEW p \in Proc, ReadFacts(p) \/ ReadVersion(p) \/ Leave(p) PROVE Grows
  BY <1>3 DEF ReadFacts, ReadVersion, Leave, Grows
<1>4. ASSUME NEW p \in Proc, seen[p] = Len(facts) PROVE Snapshot(p) = facts
  BY <1>1, <1>4 DEF Snapshot
<1>5. ASSUME NEW p \in Proc, NEW b, Submit(p, b),
             seen[p] = Len(facts) => Batch(facts, b) /\ Rounds(facts, b)
      PROVE  Grows
  <2>1. CASE seen[p] = Len(facts)
    BY <1>5, <2>1, Appended DEF Submit
  <2>2. CASE seen[p] # Len(facts)
    BY <1>5, <2>2 DEF Submit, Grows
  <2> QED
    BY <2>1, <2>2
<1>6. ASSUME NEW p \in Proc, AddIntent(p) PROVE Grows
  <2>1. version[p] \in {1, 2}
    BY <1>1 DEF TypeOK
  <2>2. Batch(facts, <<Root(version[p], Len(facts) + 1)>>) /\ Rounds(facts, <<Root(version[p], Len(facts) + 1)>>)
    BY <1>1, <2>1, OpeningBatch
  <2> QED
    BY <1>6, <2>2, Appended DEF AddIntent
<1>7. ASSUME NEW p \in Proc, Migrate(p) PROVE Grows
  <2> DEFINE b == <<Migration(seen[p] + 1)>>
  <2>1. seen[p] = Len(facts) => Batch(facts, b) /\ Rounds(facts, b)
    BY <1>1, OpeningBatch
  <2> HIDE DEF b
  <2> QED
    BY <1>5, <1>7, <2>1 DEF Migrate, b
<1>8. ASSUME NEW p \in Proc, AddReview(p) PROVE Grows
  <2>1. PICK b \in IF version[p] = 1 THEN ReviewBatchesV1(Snapshot(p)) ELSE ReviewBatchesV2(Snapshot(p)) :
            Submit(p, b)
    BY <1>8 DEF AddReview
  <2>2. CASE version[p] = 1
    <3>1. seen[p] = Len(facts) => Unmigrated(facts, Len(facts))
      BY <1>8, <2>2 DEF IInv, CommandAt, AddReview
    <3> QED
      BY <1>1, <1>4, <1>5, <2>1, <2>2, <3>1, ReviewV1Batch
  <2>3. CASE version[p] # 1
    BY <1>1, <1>4, <1>5, <2>1, <2>3, ReviewV2Batch
  <2> QED
    BY <2>2, <2>3
<1>9. ASSUME NEW p \in Proc, Rule(p) PROVE Grows
  <2>1. PICK b \in RulingBatches(Snapshot(p)) : Submit(p, b)
    BY <1>9 DEF Rule
  <2> QED
    BY <1>1, <1>4, <1>5, <2>1, RulingBatch
<1>10. ASSUME NEW p \in Proc, AddOutcome(p) \/ Derive(p) PROVE Grows
  <2>1. PICK b \in OutcomeBatches(Snapshot(p)) \cup DerivationBatches(Snapshot(p)) : Submit(p, b)
    BY <1>10 DEF AddOutcome, Derive
  <2> QED
    BY <1>1, <1>4, <1>5, <2>1, ClosingBatch
<1> QED
  BY <1>2, <1>3, <1>6, <1>7, <1>8, <1>9, <1>10 DEF Next

-----------------------------------------------------------------------------
\* The invariant

\* A longer ledger starts with the shorter one
LEMMA Longer ==
    ASSUME NEW s \in Seq(Facts), NEW b \in Seq(Facts), NEW t, t = s \o b
    PROVE  /\ t \in Seq(Facts) /\ Len(t) = Len(s) + Len(b)
           /\ \A i \in 1 .. Len(s) : t[i] = s[i]
           /\ \A k \in 1 .. Len(b) : t[Len(s) + k] = b[k]
           /\ \A i \in Len(s) + 1 .. Len(t) : i - Len(s) \in 1 .. Len(b) /\ t[i] = b[i - Len(s)]
           /\ \A m \in 0 .. Len(s) : SubSeq(t, 1, m) = SubSeq(s, 1, m)
OBVIOUS

\* A batch keeps what facts owe to those before them
LEMMA HistoryGrows ==
    ASSUME NEW s \in Seq(Facts), History(s), NEW b, Batch(s, b), NEW t, t = s \o b
    PROVE  History(t)
<1>1. /\ t \in Seq(Facts) /\ Len(t) = Len(s) + Len(b) /\ b \in Seq(Facts)
      /\ \A i \in 1 .. Len(s) : t[i] = s[i]
      /\ \A i \in Len(s) + 1 .. Len(t) : i - Len(s) \in 1 .. Len(b) /\ t[i] = b[i - Len(s)]
      /\ \A m \in 0 .. Len(s) : SubSeq(t, 1, m) = SubSeq(s, 1, m)
  BY Longer DEF Batch
<1>2. ASSUME NEW i \in 1 .. Len(s) PROVE FactAt(t, i)
  <2>1. FactAt(s, i) /\ t[i] = s[i] /\ SubSeq(t, 1, i - 1) = SubSeq(s, 1, i - 1)
    <3>1. i - 1 \in 0 .. Len(s)
      OBVIOUS
    <3> QED
      BY <1>1, <3>1 DEF History
  <2>2. \A j \in 1 .. i - 1 : t[j] = s[j]
    BY <1>1
  <2> QED
    BY <2>1, <2>2 DEF FactAt, Unmigrated
<1>3. ASSUME NEW i \in Len(s) + 1 .. Len(t) PROVE FactAt(t, i)
  <2> DEFINE k == i - Len(s)
             f == b[k]
  <2>1. /\ k \in 1 .. Len(b) /\ t[i] = f /\ i = Len(s) + k /\ NewFact(s, f)
        /\ f.kind \in {"root", "migration", "derivation"} => Len(b) = 1
    BY <1>1 DEF Batch
  <2> HIDE DEF k, f
  <2>2. f.case \in 1 .. i
    BY <2>1 DEF NewFact
  <2>3. f.v = 1 => f.kind = "root" \/ Unmigrated(t, i - 1)
    <3> SUFFICES ASSUME f.v = 1, f.kind # "root", NEW j \in 1 .. i - 1
                 PROVE  t[j].kind # "migration"
      BY DEF Unmigrated
    <3>1. CASE j <= Len(s)
      BY <1>1, <2>1, <3>1 DEF NewFact, Unmigrated
    <3>2. CASE j > Len(s)
      <4>1. j - Len(s) \in 1 .. Len(b) /\ t[j] = b[j - Len(s)] /\ Len(b) # 1
        BY <1>1, <2>1, <3>2
      <4> QED
        BY <4>1 DEF Batch
    <3> QED
      BY <3>1, <3>2
  <2>4. f.kind = "attack" => f.round >= 1
    BY <2>1 DEF NewFact
  <2>5. f.kind = "ruling" =>
            f.attack \in 1 .. i - 1 /\ t[f.attack].kind = "attack" /\ f.case = t[f.attack].case
    BY <1>1, <2>1 DEF NewFact, Where
  <2>6. f.kind = "derivation" => f.head = i - 1 /\ OpenAttacks(SubSeq(t, 1, i - 1), f.case) = {}
    <3> SUFFICES ASSUME f.kind = "derivation"
                 PROVE  f.head = i - 1 /\ OpenAttacks(SubSeq(t, 1, i - 1), f.case) = {}
      OBVIOUS
    <3>1. i - 1 = Len(s)
      <4>1. Len(b) = 1
        BY <2>1
      <4> QED
        BY <2>1, <4>1
    <3>2. SubSeq(t, 1, i - 1) = s
      BY <1>1, <3>1
    <3> QED
      BY <2>1, <3>1, <3>2 DEF NewFact
  <2> QED
    BY <2>1, <2>2, <2>3, <2>4, <2>5, <2>6 DEF FactAt
<1> QED
  BY <1>1, <1>2, <1>3 DEF History

\* A batch has at most one ruling, which becomes the latest on its attack
LEMMA LatestGrows ==
    ASSUME NEW s \in Seq(Facts), Latest(s), NEW b, Batch(s, b), NEW t, t = s \o b
    PROVE  Latest(t)
<1>1. /\ t \in Seq(Facts) /\ Len(t) = Len(s) + Len(b) /\ b \in Seq(Facts)
      /\ \A i \in 1 .. Len(s) : t[i] = s[i]
      /\ \A i \in Len(s) + 1 .. Len(t) : i - Len(s) \in 1 .. Len(b) /\ t[i] = b[i - Len(s)]
  BY Longer DEF Batch
<1>2. \A i \in Len(s) + 1 .. Len(t) : t[i].kind = "ruling" => i = Len(s) + 1
  BY <1>1 DEF Batch
<1> SUFFICES ASSUME NEW a \in Nat, RulingsOn(t, a) # {}
             PROVE  \E m \in RulingsOn(t, a) : \A i \in RulingsOn(t, a) : i <= m
  BY DEF Latest
<1>3. CASE Len(s) + 1 \in RulingsOn(t, a)
  <2>1. \A i \in RulingsOn(t, a) : i <= Len(s) + 1
    BY <1>1, <1>2 DEF RulingsOn, Where
  <2> QED
    BY <1>3, <2>1
<1>4. CASE Len(s) + 1 \notin RulingsOn(t, a)
  <2>1. RulingsOn(t, a) = RulingsOn(s, a)
    BY <1>1, <1>2, <1>4 DEF RulingsOn, Where
  <2> QED
    BY <2>1 DEF Latest
<1> QED
  BY <1>3, <1>4

\* Every step keeps the types and what the commands know
LEMMA InvariantKept ==
    ASSUME IInv, [Next]_vars
    PROVE  IInv'
<1>1. TypeOK /\ facts \in Seq(Facts) /\ History(facts) /\ Latest(facts) /\ \A p \in Proc : CommandAt(p)
  BY DEF IInv
<1>2. /\ facts' \in Seq(Facts) /\ History(facts') /\ Latest(facts') /\ Len(facts') <= MaxFacts
      /\ Len(facts') >= Len(facts) /\ \A i \in 1 .. Len(facts) : facts'[i] = facts[i]
  <2>1. CASE facts' = facts
    BY <1>1, <2>1 DEF TypeOK
  <2>2. CASE facts' # facts
    <3>1. PICK b \in Seq(Facts) : Batch(facts, b) /\ facts' = facts \o b /\ Len(facts) + Len(b) <= MaxFacts
      BY <2>2, StepGrows DEF Grows
    <3>2. /\ facts' \in Seq(Facts) /\ Len(facts') = Len(facts) + Len(b)
          /\ \A i \in 1 .. Len(facts) : facts'[i] = facts[i]
      BY <1>1, <3>1, Longer
    <3>3. History(facts') /\ Latest(facts')
      BY <1>1, <3>1, HistoryGrows, LatestGrows
    <3> QED
      BY <1>1, <3>1, <3>2, <3>3
  <2> QED
    BY <2>1, <2>2
<1>3. \A i \in 1 .. Len(facts') : facts'[i].case \in 1 .. i /\ facts'[i].v \in {1, 2}
  <2>1. \A f \in Facts : f.v \in {1, 2}
    BY DEF Facts
  <2> QED
    BY <1>2, <2>1 DEF History, FactAt
<1>4. Len(facts) \in Nat /\ Len(facts') \in Nat /\ Len(facts) <= Len(facts')
  BY <1>1, <1>2
<1>5. ASSUME NEW p \in Proc,
             \/ ReadFacts(p) \/ ReadVersion(p) \/ AddIntent(p) \/ AddReview(p) \/ Rule(p)
             \/ AddOutcome(p) \/ Derive(p) \/ Migrate(p) \/ Leave(p)
      PROVE  /\ pc' \in [Proc -> {"idle", "facts", "version", "review", "migrate"}]
             /\ seen' \in [Proc -> 0 .. Len(facts')]
             /\ version' \in [Proc -> {1, 2}]
             /\ \A q \in Proc : CommandAt(q)'
  <2>1. ASSUME NEW q \in Proc, pc'[q] = pc[q], seen'[q] = seen[q], version'[q] = version[q]
        PROVE  CommandAt(q)'
    <3>1. seen[q] \in 0 .. Len(facts) /\ CommandAt(q)
      BY <1>1 DEF TypeOK
    <3>2. Unmigrated(facts, seen[q]) => Unmigrated(facts', seen[q])
      BY <1>2, <1>4, <3>1 DEF Unmigrated
    <3> QED
      BY <2>1, <3>1, <3>2 DEF CommandAt
  <2>2. CASE ReadFacts(p)
    <3>1. facts' = facts /\ version' = version /\ pc' \in [Proc -> {"idle", "facts", "version", "review", "migrate"}]
          /\ seen' = [seen EXCEPT ![p] = Len(facts)] /\ pc'[p] # "review"
          /\ \A q \in Proc \ {p} : pc'[q] = pc[q]
      BY <1>1, <2>2 DEF ReadFacts, TypeOK
    <3>2. CommandAt(p)'
      BY <3>1 DEF CommandAt
    <3> QED
      BY <1>1, <1>4, <2>1, <3>1, <3>2 DEF TypeOK
  <2>3. CASE ReadVersion(p)
    <3>1. /\ facts' = facts /\ seen' = seen /\ version' = [version EXCEPT ![p] = WriteVersion(facts)]
          /\ pc' \in [Proc -> {"idle", "facts", "version", "review", "migrate"}]
          /\ \A q \in Proc \ {p} : pc'[q] = pc[q]
      BY <1>1, <2>3 DEF ReadVersion, TypeOK
    <3>2. WriteVersion(facts) \in {1, 2} /\ (WriteVersion(facts) = 1 => Unmigrated(facts, Len(facts)))
      BY <1>1, Versions
    <3>3. CommandAt(p)'
      BY <1>1, <1>4, <3>1, <3>2 DEF CommandAt, TypeOK, Unmigrated
    <3> QED
      BY <1>1, <2>1, <3>1, <3>2, <3>3 DEF TypeOK
  <2>4. CASE ~ReadFacts(p) /\ ~ReadVersion(p)
    <3>1. Done(p)
      BY <1>5, <2>4 DEF AddIntent, AddReview, Rule, AddOutcome, Derive, Migrate, Leave, Submit
    <3>2. /\ pc' = [pc EXCEPT ![p] = "idle"] /\ seen' = [seen EXCEPT ![p] = 0]
          /\ version' = [version EXCEPT ![p] = 1]
      BY <3>1 DEF Done
    <3>3. CommandAt(p)'
      BY <1>1, <3>2 DEF CommandAt, TypeOK
    <3>4. \A q \in Proc \ {p} : CommandAt(q)'
      BY <1>1, <2>1, <3>2 DEF TypeOK
    <3>5. seen \in [Proc -> 0 .. Len(facts')]
      BY <1>1, <1>4 DEF TypeOK
    <3> QED
      BY <1>1, <1>4, <3>2, <3>3, <3>4, <3>5 DEF TypeOK
  <2> QED
    BY <2>2, <2>3, <2>4
<1>6. CASE UNCHANGED vars
  BY <1>1, <1>6 DEF vars, IInv, TypeOK, CommandAt
<1>7. CASE Next
  <2>1. TypeOK' /\ \A q \in Proc : CommandAt(q)'
    BY <1>2, <1>3, <1>5, <1>7 DEF Next, TypeOK
  <2> QED
    BY <1>2, <2>1 DEF IInv
<1> QED
  BY <1>6, <1>7

\* The empty ledger
LEMMA InvariantStarts ==
    ASSUME Init
    PROVE  IInv
<1>1. facts = <<>> /\ facts \in Seq(Facts) /\ Len(facts) = 0 /\ MaxFacts \in Nat
  BY CaseAssumption DEF Init
<1>2. TypeOK
  BY <1>1 DEF Init, TypeOK
<1>3. History(facts) /\ Latest(facts)
  BY <1>1 DEF History, Latest, RulingsOn, Where
<1>4. \A p \in Proc : CommandAt(p)
  BY DEF Init, CommandAt
<1> QED
  BY <1>1, <1>2, <1>3, <1>4 DEF IInv

\* The invariant holds throughout
LEMMA Invariant == Spec => []IInv
BY InvariantStarts, InvariantKept, PTL DEF Spec

-----------------------------------------------------------------------------
\* Types and versions

\* The ledger and what the commands remember keep their types; a fact belongs to
\* a case that was there when the fact was appended.
THEOREM TypeCorrect == Spec => []TypeOK
<1>1. IInv => TypeOK
  BY DEF IInv
<1> QED
  BY <1>1, Invariant, PTL

\* Whatever commands run beside a migration, a version 1 fact after the marker is
\* the root of a case: all other commands pass the head of the read from which
\* they know the version.
THEOREM OnlyRootsStayBehind == Spec => []OnlyRootsLag
<1>1. IInv => OnlyRootsLag
  <2> SUFFICES ASSUME IInv, NEW i \in Where(facts, {"migration"}), NEW j \in i + 1 .. Len(facts),
                      facts[j].v = 1
               PROVE  facts[j].kind = "root"
    BY DEF OnlyRootsLag
  <2>1. i \in 1 .. j - 1 /\ j \in 1 .. Len(facts) /\ facts[i].kind = "migration"
    BY DEF IInv, Where
  <2>2. FactAt(facts, j)
    BY <2>1 DEF IInv, History
  <2> QED
    BY <2>1, <2>2 DEF FactAt, Unmigrated
<1> QED
  BY <1>1, Invariant, PTL

-----------------------------------------------------------------------------
\* The rounds of attacks

\* RoundsInOrder for two attacks, with the ruling that opened the later round
Ordered(s, a, b) ==
    s[a].case = s[b].case =>
        /\ s[a].round = s[b].round =>
              \A i \in a .. b : s[i].kind = "attack" /\ s[i].round = s[a].round
        /\ s[b].round = s[a].round + 1 =>
              /\ a < b /\ ActiveRuling(SubSeq(s, 1, b - 1), a) # None
              /\ \E i, r \in 1 .. b - 1 :
                    /\ s[i].kind = "attack" /\ s[i].case = s[a].case /\ s[i].round = s[a].round
                    /\ r = ActiveRuling(SubSeq(s, 1, b - 1), i)
                    /\ s[r].verdict \in {"amend", "forbidden"}

\* A later round comes after an earlier one
Preceded(s, b) ==
    s[b].round > 1 =>
        \E a \in 1 .. b - 1 : /\ s[a].kind = "attack" /\ s[a].case = s[b].case
                              /\ s[a].round = s[b].round - 1

InRounds(s) ==
    /\ \A a, b \in Where(s, {"attack"}) : Ordered(s, a, b)
    /\ \A b \in Where(s, {"attack"}) : Preceded(s, b)

\* Facts that are not rulings change no active ruling
LEMMA RulingsStay ==
    ASSUME NEW s \in Seq(Facts), NEW t \in Seq(Facts), Len(s) <= Len(t),
           \A i \in 1 .. Len(s) : t[i] = s[i],
           \A i \in Len(s) + 1 .. Len(t) : t[i].kind # "ruling", NEW a
    PROVE  ActiveRuling(t, a) = ActiveRuling(s, a)
<1>1. RulingsOn(t, a) = RulingsOn(s, a)
  BY DEF RulingsOn, Where
<1> QED
  BY <1>1 DEF ActiveRuling

\* A batch keeps the rounds in order
LEMMA RoundsGrow ==
    ASSUME NEW s \in Seq(Facts), History(s), Latest(s), InRounds(s),
           NEW b, Batch(s, b), Rounds(s, b), NEW t, t = s \o b
    PROVE  InRounds(t)
<1>1. /\ t \in Seq(Facts) /\ Len(t) = Len(s) + Len(b) /\ b \in Seq(Facts)
      /\ \A i \in 1 .. Len(s) : t[i] = s[i]
      /\ \A i \in Len(s) + 1 .. Len(t) : i - Len(s) \in 1 .. Len(b) /\ t[i] = b[i - Len(s)]
      /\ \A m \in 0 .. Len(s) : SubSeq(t, 1, m) = SubSeq(s, 1, m)
  BY Longer DEF Batch
<1>2. \A a \in Where(s, {"attack"}) :
          a \in 1 .. Len(s) /\ t[a] = s[a] /\ s[a].kind = "attack" /\ s[a].round \in Nat /\ s[a].round >= 1
  <2>1. \A f \in Facts : f.kind = "attack" => f.round \in Nat
    BY DEF Facts
  <2> QED
    BY <1>1, <2>1 DEF Where, History, FactAt
<1>3. ASSUME NEW a \in Where(s, {"attack"}), NEW c \in Where(s, {"attack"}) PROVE Ordered(t, a, c)
  <2>1. Ordered(s, a, c) /\ a \in 1 .. Len(s) /\ c \in 1 .. Len(s)
    BY <1>2 DEF InRounds
  <2>2. SubSeq(t, 1, c - 1) = SubSeq(s, 1, c - 1)
    BY <1>1, <2>1
  <2>3. \A i \in 1 .. c : t[i] = s[i]
    BY <1>1, <2>1
  <2>4. \A i \in a .. c : t[i] = s[i]
    BY <1>1, <2>1
  <2>5. t[a] = s[a] /\ t[c] = s[c] /\ c - 1 <= c
    BY <1>1, <2>1
  <2>6. \A i \in 1 .. c - 1 : t[i] = s[i]
    BY <2>1, <2>3
  <2> QED
    BY <2>1, <2>2, <2>4, <2>5, <2>6 DEF Ordered
<1>4. ASSUME NEW c \in Where(s, {"attack"}) PROVE Preceded(t, c)
  <2>1. Preceded(s, c) /\ \A i \in 1 .. c : t[i] = s[i]
    BY <1>1, <1>2 DEF InRounds
  <2>2. t[c] = s[c] /\ \A i \in 1 .. c - 1 : t[i] = s[i]
    BY <1>1, <1>2
  <2> QED
    BY <2>1, <2>2 DEF Preceded
<1>5. CASE \A i \in 1 .. Len(b) : b[i].kind # "attack"
  <2>1. Where(t, {"attack"}) = Where(s, {"attack"})
    BY <1>1, <1>5 DEF Where
  <2> QED
    BY <1>3, <1>4, <2>1 DEF InRounds
<1>6. CASE \E case \in Cases(s), n \in Nat, m \in 0 .. Len(b) : OneRound(s, b, case, n, m)
  <2>1. PICK case \in Cases(s), n \in Nat, m \in 0 .. Len(b) : OneRound(s, b, case, n, m)
    BY <1>6
  <2> DEFINE New == Len(s) + 1 .. Len(s) + m
             In(k) == {a \in AttacksOf(s, case) : s[a].round = k}
  <2>2. /\ n >= 1 /\ In(n) = {}
        /\ n > 1 => /\ In(n - 1) # {}
                    /\ \A a \in In(n - 1) : ActiveRuling(s, a) # None
                    /\ \E a \in In(n - 1) : s[ActiveRuling(s, a)].verdict \in {"amend", "forbidden"}
    BY <2>1 DEF OneRound, Gate, RoundGate
  <2>3. \A k : In(k) = {a \in Where(s, {"attack"}) : s[a].case = case /\ s[a].round = k}
    BY DEF AttacksOf, Within
  <2> HIDE DEF In
  <2>4. \A i \in New : t[i].kind = "attack" /\ t[i].case = case /\ t[i].round = n
    BY <1>1, <2>1 DEF OneRound
  <2>5. \A i \in Len(s) + m + 1 .. Len(t) : t[i].kind # "attack"
    <3> SUFFICES ASSUME NEW i \in Len(s) + m + 1 .. Len(t) PROVE t[i].kind # "attack"
      OBVIOUS
    <3>1. i - Len(s) \in m + 1 .. Len(b) /\ t[i] = b[i - Len(s)]
      BY <1>1
    <3> QED
      BY <2>1, <3>1 DEF OneRound
  <2>6. Where(t, {"attack"}) \subseteq Where(s, {"attack"}) \cup New
    <3> SUFFICES ASSUME NEW i \in 1 .. Len(t), t[i].kind = "attack", i \notin New
                 PROVE  i \in Where(s, {"attack"})
      BY DEF Where
    <3>1. i \in 1 .. Len(s)
      BY <1>1, <2>5
    <3> QED
      BY <1>1, <3>1 DEF Where
  <2>7. ASSUME NEW a \in Where(s, {"attack"}), NEW c \in New PROVE Ordered(t, a, c)
    <3> SUFFICES ASSUME t[a].case = t[c].case PROVE Ordered(t, a, c)
      BY DEF Ordered
    <3>1. s[a].case = case /\ t[c].round = n /\ t[a] = s[a] /\ a \in 1 .. Len(s) /\ a < c
      BY <1>2, <2>4
    <3>2. s[a].round # n
      BY <2>2, <2>3, <3>1
    <3>3. ASSUME n = s[a].round + 1
          PROVE  /\ ActiveRuling(SubSeq(t, 1, c - 1), a) # None
                 /\ \E i, r \in 1 .. c - 1 :
                       /\ t[i].kind = "attack" /\ t[i].case = case /\ t[i].round = s[a].round
                       /\ r = ActiveRuling(SubSeq(t, 1, c - 1), i)
                       /\ t[r].verdict \in {"amend", "forbidden"}
      <4>1. n > 1 /\ a \in In(n - 1)
        BY <1>2, <2>3, <3>1, <3>3
      <4>2. c - 1 \in Len(s) .. Len(t)
        BY <1>1
      <4>3. \A x : ActiveRuling(SubSeq(t, 1, c - 1), x) = ActiveRuling(s, x)
        <5> DEFINE u == SubSeq(t, 1, c - 1)
        <5>1. u \in Seq(Facts) /\ Len(u) = c - 1 /\ \A i \in 1 .. c - 1 : u[i] = t[i]
          BY <1>1, <4>2
        <5>2. \A i \in Len(s) + 1 .. Len(u) : u[i].kind # "ruling"
          <6>1. Len(s) + 1 .. Len(u) \subseteq New /\ \A i \in Len(s) + 1 .. Len(u) : i \in 1 .. c - 1
            BY <4>2, <5>1
          <6> HIDE DEF New, u
          <6> QED
            BY <2>4, <5>1, <6>1
        <5>3. \A i \in 1 .. Len(s) : u[i] = s[i]
          BY <1>1, <4>2, <5>1
        <5> HIDE DEF u
        <5>4. Len(s) <= Len(u)
          BY <1>1, <4>2, <5>1
        <5>5. ASSUME NEW x PROVE ActiveRuling(u, x) = ActiveRuling(s, x)
          BY <5>1, <5>2, <5>3, <5>4, RulingsStay
        <5> QED
          BY <5>5 DEF u
      <4>4. PICK i \in In(n - 1) : s[ActiveRuling(s, i)].verdict \in {"amend", "forbidden"}
        BY <2>2, <4>1
      <4>5. i \in 1 .. Len(s) /\ s[i].kind = "attack" /\ s[i].case = case /\ s[i].round = n - 1
        BY <1>2, <2>3, <4>4
      <4>6. ActiveRuling(s, i) # None /\ ActiveRuling(s, a) # None
        BY <2>2, <4>1, <4>4
      <4>7. ActiveRuling(s, i) \in 1 .. Len(s)
        BY <4>5, <4>6, RulingActive DEF RulingsOn, Where
      <4>8. i \in 1 .. c - 1 /\ ActiveRuling(s, i) \in 1 .. c - 1
        BY <4>2, <4>5, <4>7
      <4>9. t[i] = s[i] /\ t[ActiveRuling(s, i)] = s[ActiveRuling(s, i)] /\ n - 1 = s[a].round
        BY <1>1, <1>2, <3>3, <4>5, <4>7
      <4> QED
        BY <4>3, <4>4, <4>5, <4>6, <4>8, <4>9
    <3> QED
      BY <3>1, <3>2, <3>3 DEF Ordered
  <2>8. ASSUME NEW a \in New, NEW c \in Where(s, {"attack"}) PROVE Ordered(t, a, c)
    <3> SUFFICES ASSUME t[a].case = t[c].case, t[c].round \in {t[a].round, t[a].round + 1} PROVE FALSE
      BY DEF Ordered
    <3>1. s[c].case = case /\ t[a].round = n /\ t[c] = s[c] /\ c \in 1 .. Len(s)
      BY <1>2, <2>4
    <3>2. s[c].round # n
      BY <2>2, <2>3, <3>1
    <3>3. s[c].round = n + 1 /\ s[c].round > 1
      BY <2>2, <3>1, <3>2
    <3>4. PICK x \in 1 .. c - 1 : s[x].kind = "attack" /\ s[x].case = case /\ s[x].round = s[c].round - 1
      BY <3>1, <3>3 DEF InRounds, Preceded
    <3>5. x \in Where(s, {"attack"}) /\ s[x].round = n
      BY <3>1, <3>3, <3>4 DEF Where
    <3> QED
      BY <2>2, <2>3, <3>4, <3>5
  <2>9. ASSUME NEW a \in New, NEW c \in New PROVE Ordered(t, a, c)
    <3>1. a .. c \subseteq New
      OBVIOUS
    <3>2. t[a].round = n /\ t[c].round = n /\ n # n + 1
      BY <2>4
    <3> HIDE DEF New
    <3> QED
      BY <2>4, <3>1, <3>2 DEF Ordered
  <2>10. ASSUME NEW c \in New PROVE Preceded(t, c)
    <3> SUFFICES ASSUME n > 1
                 PROVE  \E a \in 1 .. c - 1 : t[a].kind = "attack" /\ t[a].case = case /\ t[a].round = n - 1
      BY <2>4 DEF Preceded
    <3>1. PICK a \in In(n - 1) : TRUE
      BY <2>2
    <3>2. a \in 1 .. Len(s) /\ t[a] = s[a] /\ s[a].kind = "attack" /\ s[a].case = case /\ s[a].round = n - 1
      BY <1>2, <2>3, <3>1
    <3> QED
      BY <3>2
  <2> HIDE DEF New
  <2> QED
    BY <1>3, <1>4, <2>6, <2>7, <2>8, <2>9, <2>10 DEF InRounds
<1> QED
  BY <1>5, <1>6 DEF Rounds

\* "validate_round_gate": the attacks of a round come together, and after the
\* rulings on the round before, whatever other commands append meanwhile.
THEOREM RoundsOrdered == Spec => []RoundsInOrder
<1>1. Init => InRounds(facts)
  BY DEF Init, InRounds, Where
<1>2. IInv /\ InRounds(facts) /\ [Next]_vars => InRounds(facts)'
  <2> SUFFICES ASSUME IInv, InRounds(facts), [Next]_vars
               PROVE  InRounds(facts')
    OBVIOUS
  <2> QED
    BY StepGrows, RoundsGrow DEF Grows, IInv
<1>3. IInv /\ InRounds(facts) => RoundsInOrder
  <2> SUFFICES ASSUME IInv, NEW a \in Where(facts, {"attack"}), NEW b \in Where(facts, {"attack"}),
                      Ordered(facts, a, b), facts[a].case = facts[b].case
               PROVE  /\ facts[a].round = facts[b].round =>
                            \A i \in a .. b : facts[i].kind = "attack" /\ facts[i].round = facts[a].round
                      /\ facts[b].round = facts[a].round + 1 =>
                            LET then == SubSeq(facts, 1, b - 1)
                                before == {i \in AttacksOf(then, facts[a].case) :
                                              facts[i].round = facts[a].round}
                            IN  /\ a < b /\ ActiveRuling(then, a) # None
                                /\ \E i \in before : LET r == ActiveRuling(then, i)
                                                     IN  /\ r # None
                                                         /\ facts[r].verdict \in {"amend", "forbidden"}
    BY DEF InRounds, RoundsInOrder
  <2>1. CASE facts[b].round = facts[a].round + 1
    <3> DEFINE then == SubSeq(facts, 1, b - 1)
    <3>1. b \in 1 .. Len(facts) /\ facts \in Seq(Facts)
      BY DEF Where, IInv
    <3>2. Len(then) = b - 1 /\ \A i \in 1 .. b - 1 : then[i] = facts[i]
      BY <3>1
    <3> HIDE DEF then
    <3>3. PICK i \in 1 .. b - 1, r \in 1 .. b - 1 :
              /\ facts[i].kind = "attack" /\ facts[i].case = facts[a].case
              /\ facts[i].round = facts[a].round
              /\ r = ActiveRuling(then, i) /\ facts[r].verdict \in {"amend", "forbidden"}
      BY <2>1 DEF Ordered, then
    <3>4. i \in AttacksOf(then, facts[a].case) /\ r # None
      BY <3>2, <3>3 DEF AttacksOf, Within, Where, None
    <3>5. a < b /\ ActiveRuling(then, a) # None
      BY <2>1 DEF Ordered, then
    <3>6. facts[b].round # facts[a].round \/ \A j \in a .. b : facts[j].kind = "attack" /\ facts[j].round = facts[a].round
      BY DEF Ordered
    <3> QED
      BY <3>3, <3>4, <3>5, <3>6 DEF then
  <2>2. CASE facts[b].round # facts[a].round + 1
    BY <2>2 DEF Ordered
  <2> QED
    BY <2>1, <2>2
<1> QED
  BY <1>1, <1>2, <1>3, Invariant, PTL DEF Spec

-----------------------------------------------------------------------------
\* The guard

\* ready_brief: nothing in the case has changed since the facts from which its
\* latest derivation was rendered, whatever was appended meanwhile, to the case
\* or to others.
THEOREM ReadyBriefIsCurrent == Spec => []ReadyIsCurrent
<1>1. IInv => ReadyIsCurrent
  <2> SUFFICES ASSUME IInv, NEW c \in Cases(facts), Ready(facts, c)
               PROVE  \E d \in Within(facts, {"derivation"}, c) :
                         LET basis == SubSeq(facts, 1, facts[d].head)
                         IN  /\ \A i \in Within(facts, {"derivation"}, c) : i <= d
                             /\ OpenAttacks(basis, c) = {}
                             /\ ActiveIntents(basis, c) = ActiveIntents(facts, c)
                             /\ AttacksOf(basis, c) = AttacksOf(facts, c)
                             /\ \A a \in AttacksOf(facts, c) :
                                   ActiveRuling(basis, a) = ActiveRuling(facts, a)
    BY DEF ReadyIsCurrent
  <2>1. PICK d \in Within(facts, {"derivation"}, c) :
            /\ \A i \in Within(facts, {"derivation"}, c) : i <= d
            /\ \A i \in Within(facts, SpecFacts, c) : i <= d
    BY DEF Ready
  <2> DEFINE basis == SubSeq(facts, 1, facts[d].head)
  <2>2. d \in 1 .. Len(facts) /\ facts[d].kind = "derivation" /\ facts[d].case = c /\ facts \in Seq(Facts)
    BY DEF Within, Where, IInv
  <2>3. facts[d].head = d - 1 /\ OpenAttacks(basis, c) = {}
    BY <2>2 DEF IInv, History, FactAt
  <2>4. Len(basis) = d - 1 /\ \A i \in 1 .. d - 1 : basis[i] = facts[i]
    BY <2>2, <2>3
  <2> HIDE DEF basis
  <2>5. \A i \in 1 .. Len(facts) : facts[i].case = c /\ facts[i].kind \in SpecFacts => i \in 1 .. d - 1
    <3> SUFFICES ASSUME NEW i \in 1 .. Len(facts), facts[i].case = c, facts[i].kind \in SpecFacts
                 PROVE  i \in 1 .. d - 1
      OBVIOUS
    <3>1. i <= d
      BY <2>1 DEF Within, Where
    <3>2. i # d
      BY <2>2 DEF SpecFacts
    <3> QED
      BY <2>2, <3>1, <3>2
  <2>6. ASSUME NEW kinds \in SUBSET SpecFacts
        PROVE  Within(basis, kinds, c) = Within(facts, kinds, c)
    BY <2>2, <2>4, <2>5 DEF Within, Where
  <2>7. AttacksOf(basis, c) = AttacksOf(facts, c)
    BY <2>6 DEF AttacksOf, SpecFacts
  <2>8. ActiveIntents(basis, c) = ActiveIntents(facts, c)
    <3>1. /\ Within(basis, Intents, c) = Within(facts, Intents, c)
          /\ Within(basis, {"amendment"}, c) = Within(facts, {"amendment"}, c)
      BY <2>6 DEF Intents, SpecFacts
    <3>2. \A i \in Within(basis, {"amendment"}, c) : basis[i] = facts[i]
      BY <2>4 DEF Within, Where
    <3> QED
      BY <3>1, <3>2 DEF ActiveIntents
  <2>9. ASSUME NEW a \in AttacksOf(facts, c) PROVE ActiveRuling(basis, a) = ActiveRuling(facts, a)
    <3>1. facts[a].case = c
      BY DEF AttacksOf, Within
    <3>2. \A i \in RulingsOn(facts, a) : facts[i].case = c /\ facts[i].kind = "ruling" /\ i \in 1 .. Len(facts)
      BY <3>1 DEF RulingsOn, Where, IInv, History, FactAt
    <3>3. RulingsOn(facts, a) \subseteq 1 .. d - 1
      BY <2>5, <3>2 DEF SpecFacts
    <3>4. RulingsOn(basis, a) = RulingsOn(facts, a)
      BY <2>2, <2>4, <3>3 DEF RulingsOn, Where
    <3> QED
      BY <3>4 DEF ActiveRuling
  <2> QED
    BY <2>1, <2>3, <2>7, <2>8, <2>9 DEF basis
<1> QED
  BY <1>1, Invariant, PTL

=============================================================================
