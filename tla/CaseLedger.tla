----------------------------- MODULE CaseLedger -----------------------------
(***************************************************************************)
(* The commands of falsiq as they change the ledger: intent, review add,   *)
(* rule, outcome, derive --submit, migrate --apply, and the guard.         *)
(*                                                                         *)
(* Each command runs in a process of its own.  It reads the ledger (one or *)
(* two times), decides on what it read, and appends a batch with the head  *)
(* of its read.  Reads and appends are atomic here: module LedgerStore is  *)
(* about what that takes.                                                  *)
(***************************************************************************)
EXTENDS FactRules

CONSTANTS
    Proc,       \* processes
    Commands,   \* the commands a behaviour may contain
    Verdicts,   \* the verdicts a user may give
    Options,    \* the options an attack may offer
    Policies,   \* max_rounds of the policy files a user may pass
    MaxAttacks, \* attacks one round may select
    MaxFacts    \* bound on the length of the ledger

ASSUME CaseAssumption ==
    /\ Commands \subseteq {"intent", "review", "rule", "outcome", "derive", "migrate"}
    /\ Verdicts \subseteq {"intended", "forbidden", "dont_care", "amend"}
    /\ None \notin Options
    /\ Policies \subseteq Nat \ {0}
    /\ MaxAttacks \in Nat
    /\ MaxFacts \in Nat

VARIABLES
    facts,    \* the ledger
    pc,       \* which reads each process has made
    seen,     \* how much of the ledger the read of its facts returned
    version   \* what write_schema_version returned to it

vars == <<facts, pc, seen, version>>

-----------------------------------------------------------------------------
\* What the program derives from the facts s it has read

Where(s, kinds) == {i \in 1 .. Len(s) : s[i].kind \in kinds}
Within(s, kinds, case) == {i \in Where(s, kinds) : s[i].case = case}

Cases(s) == Where(s, {"root"})
AttacksOf(s, case) == Within(s, {"attack"}, case)

\* Variant: superseded intents stay active
IntentsEver(s, case) == Within(s, Intents, case)

ActiveIntents(s, case) ==
    Within(s, Intents, case) \ {s[i].supersedes : i \in Within(s, {"amendment"}, case)}

RulingsOn(s, attack) == {i \in Where(s, {"ruling"}) : s[i].attack = attack}

\* The latest ruling on an attack
ActiveRuling(s, attack) ==
    IF RulingsOn(s, attack) = {} THEN None
    ELSE CHOOSE i \in RulingsOn(s, attack) : \A j \in RulingsOn(s, attack) : j <= i

OpenAttacks(s, case) == {a \in AttacksOf(s, case) : ActiveRuling(s, a) = None}

\* Variant: the version is the number of migrations
MigrationCount(s) == Cardinality(Where(s, {"migration"}))

WriteVersion(s) == IF Where(s, {"migration"}) = {} THEN 1 ELSE 2

-----------------------------------------------------------------------------
\* The batches the commands build

\* Variant: a superseded intent may be amended again
TargetsEver(s, attack) == s[attack].targets

\* build_ruling_batch: verdict on an attack; an amend ruling comes with the
\* amendment of one of the attack's active targets
AmendTargets(s, attack) == ActiveIntents(s, s[attack].case) \cap s[attack].targets

RulingBatches(s) ==
    LET v == WriteVersion(s)
        New(a, verdict, choice) ==
            Ruling(v, s[a].case, a, verdict, choice, ActiveRuling(s, a))
    IN  {<<New(a, verdict, choice)>> :
            a \in Where(s, {"attack"}), verdict \in Verdicts \ {"amend"},
            choice \in Options \cup {None}}
        \cup
        UNION {{<<New(a, "amend", None), Amendment(v, s[a].case, t, Len(s) + 1)>> :
                   t \in IF "amend" \in Verdicts THEN AmendTargets(s, a) ELSE {}} :
               a \in Where(s, {"attack"})}

\* Variant: the gate of a later round does not ask for the rulings of the last
RoundGateUnruled(s, case, round, max, recorded) ==
    LET In(n) == {a \in AttacksOf(s, case) : s[a].round = n}
    IN  /\ round <= max
        /\ In(round) = {} /\ round \notin recorded
        /\ IF round = 1 THEN AttacksOf(s, case) = {} ELSE In(round - 1) # {}

\* validate_round_gate
RoundGate(s, case, round, max, recorded) ==
    LET In(n) == {a \in AttacksOf(s, case) : s[a].round = n}
    IN  /\ round <= max
        /\ In(round) = {} /\ round \notin recorded
        /\ IF round = 1 THEN AttacksOf(s, case) = {}
           ELSE /\ In(round - 1) # {}
                /\ \A a \in In(round - 1) : ActiveRuling(s, a) # None
                /\ \E a \in In(round - 1) :
                      s[ActiveRuling(s, a)].verdict \in {"amend", "forbidden"}

\* The attacks a selection of one round may turn into.  A candidate may also name a
\* target that is no intent of the case, an error of its reviewer: the code builds
\* the attack too, and the validation of the batch refuses it.
Selections(s, v, case, round) ==
    LET Candidates == {Attack(v, case, round, targets, options) :
                           targets \in (SUBSET Within(s, Intents, case)) \ {{}},
                           options \in {{}, Options}}
    IN  UNION {[1 .. n -> Candidates] : n \in 0 .. MaxAttacks}

\* append_attack_round with schema version 1: attacks alone
ReviewBatchesV1(s) ==
    UNION {{b \in Selections(s, 1, c, n) : b # <<>> /\ RoundGate(s, c, n, 2, {})} :
           c \in Cases(s), n \in 1 .. 2}

\* With version 2: attacks and the record of the round, even when none was
\* selected; the case needs the profile that only a version 2 root has
RoundsV2(s, c, n, max) ==
    LET recorded == {s[i].round : i \in Within(s, {"review_round"}, c)}
    IN  {b \o <<ReviewRound(c, n, max, {Len(s) + i : i \in 1 .. Len(b)})>> :
            b \in IF s[c].v = 2 /\ RoundGate(s, c, n, max, recorded)
                  THEN Selections(s, 2, c, n) ELSE {}}

ReviewBatchesV2(s) ==
    UNION {RoundsV2(s, c, n, max) : c \in Cases(s), n \in 1 .. MaxFacts, max \in Policies}

\* build_outcome: only elicited rework names an attack
OutcomeBatches(s) ==
    {<<Outcome(WriteVersion(s), c, None)>> : c \in Cases(s)} \cup
    {<<Outcome(WriteVersion(s), s[a].case, a)>> : a \in Where(s, {"attack"})}

\* submit_derivation: a response bound to the head that was read, for a case
\* without open attacks
DerivationBatches(s) ==
    {<<Derivation(WriteVersion(s), c, Len(s))>> : c \in {c \in Cases(s) : OpenAttacks(s, c) = {}}}

-----------------------------------------------------------------------------
\* The commands as steps of a process

Done(p) ==
    /\ pc' = [pc EXCEPT ![p] = "idle"]
    /\ seen' = [seen EXCEPT ![p] = 0]
    /\ version' = [version EXCEPT ![p] = 1]

Snapshot(p) == SubSeq(facts, 1, seen[p])

Append1(b) ==
    /\ Len(facts) + Len(b) <= MaxFacts
    /\ facts' = IF ValidSequence(facts \o b) THEN facts \o b ELSE facts

\* Variant: the batch is appended whatever the head has become
SubmitBlind(p, b) == Append1(b) /\ Done(p)

\* append_batch with the head of the facts that p read, which refuses the batch
\* when the ledger has grown since
Submit(p, b) ==
    /\ IF seen[p] = Len(facts) THEN Append1(b) ELSE UNCHANGED facts
    /\ Done(p)

\* facts = ledger.read(): the first read of most commands, the second of migrate
ReadFacts(p) ==
    /\ \/ pc[p] = "idle" /\ pc' = [pc EXCEPT ![p] = "facts"]
       \/ pc[p] = "version" /\ version[p] = 1 /\ pc' = [pc EXCEPT ![p] = "migrate"]
    /\ seen' = [seen EXCEPT ![p] = Len(facts)]
    /\ UNCHANGED <<facts, version>>

\* ledger.write_schema_version(): the first read of intent and migrate, the
\* second of review add
ReadVersion(p) ==
    /\ \/ pc[p] = "idle" /\ pc' = [pc EXCEPT ![p] = "version"]
       \/ pc[p] = "facts" /\ "review" \in Commands /\ pc' = [pc EXCEPT ![p] = "review"]
    /\ version' = [version EXCEPT ![p] = WriteVersion(facts)]
    /\ UNCHANGED <<facts, seen>>

\* intent appends without an expected head: its fact refers to no other
AddIntent(p) ==
    /\ pc[p] = "version"
    /\ "intent" \in Commands
    /\ Append1(<<Root(version[p], Len(facts) + 1)>>)
    /\ Done(p)

AddReview(p) ==
    /\ pc[p] = "review"
    /\ \E b \in IF version[p] = 1 THEN ReviewBatchesV1(Snapshot(p)) ELSE ReviewBatchesV2(Snapshot(p)) :
          Submit(p, b)

Rule(p) ==
    /\ pc[p] = "facts"
    /\ "rule" \in Commands
    /\ \E b \in RulingBatches(Snapshot(p)) : Submit(p, b)

AddOutcome(p) ==
    /\ pc[p] = "facts"
    /\ "outcome" \in Commands
    /\ \E b \in OutcomeBatches(Snapshot(p)) : Submit(p, b)

Derive(p) ==
    /\ pc[p] = "facts"
    /\ "derive" \in Commands
    /\ \E b \in DerivationBatches(Snapshot(p)) : Submit(p, b)

Migrate(p) ==
    /\ pc[p] = "migrate"
    /\ "migrate" \in Commands
    /\ Submit(p, <<Migration(seen[p] + 1)>>)

\* A command ends without an append: its builder refused, it had nothing to do,
\* or it was killed
Leave(p) ==
    /\ pc[p] # "idle"
    /\ Done(p)
    /\ UNCHANGED facts

Init ==
    /\ facts = <<>>
    /\ pc = [p \in Proc |-> "idle"]
    /\ seen = [p \in Proc |-> 0]
    /\ version = [p \in Proc |-> 1]

Next ==
    \E p \in Proc :
        \/ ReadFacts(p) \/ ReadVersion(p)
        \/ AddIntent(p) \/ AddReview(p) \/ Rule(p) \/ AddOutcome(p) \/ Derive(p) \/ Migrate(p)
        \/ Leave(p)

Spec == Init /\ [][Next]_vars

-----------------------------------------------------------------------------
\* The guard

\* Variant: the guard does not look at the rulings after the derivation
SpecFactsUnruled == {"root", "amendment", "attack"}

SpecFacts == {"root", "amendment", "attack", "ruling"}

\* ready_brief, as far as the ledger decides it
Ready(s, case) ==
    /\ OpenAttacks(s, case) = {}
    /\ \E d \in Within(s, {"derivation"}, case) :
          /\ \A i \in Within(s, {"derivation"}, case) : i <= d
          /\ \A i \in Within(s, SpecFacts, case) : i <= d

-----------------------------------------------------------------------------
\* Properties

\* The type of every variable.
TypeOK ==
    /\ \A i \in 1 .. Len(facts) : facts[i].case \in 1 .. i /\ facts[i].v \in {1, 2}
    /\ Len(facts) <= MaxFacts
    /\ pc \in [Proc -> {"idle", "facts", "version", "review", "migrate"}]
    /\ seen \in [Proc -> 0 .. Len(facts)]
    /\ version \in [Proc -> {1, 2}]

\* No history of commands leads to a ledger on which a command builds a batch
\* that validate_fact_sequence refuses, but for a choice the attack lacks: a
\* review can always be ruled and ruled again, an active target can always be
\* amended, and a case without open attacks can always be derived.  (What the
\* ledger holds while no command runs is all it ever holds.)
Quiet == \A p \in Proc : pc[p] = "idle"
BuildersAccepted == Quiet =>
    /\ \A b \in RulingBatches(facts) :
          ChoiceFits(facts[b[1].attack].options, b[1].verdict, b[1].choice) /\ WellFormed(b[1])
              => ValidSequence(facts \o b)
    /\ \A b \in ReviewBatchesV1(facts) : ValidSequence(facts \o b)
    /\ \A b \in ReviewBatchesV2(facts) : ValidSequence(facts \o b)
    /\ \A b \in OutcomeBatches(facts) \cup DerivationBatches(facts) : ValidSequence(facts \o b)

\* What a command takes for the active intents and rulings is what the loop of
\* validate_fact_sequence has tracked, and a case has one active intent: the
\* text that a brief renders.
OneActiveIntent == Quiet =>
    LET end == Validation(facts)
    IN  /\ \A c \in Cases(facts) :
              /\ Cardinality(ActiveIntents(facts, c)) = 1
              /\ ActiveIntents(facts, c) \subseteq end.active
        /\ \A a \in Where(facts, {"attack"}) :
              ActiveRuling(facts, a) = IF a \in DOMAIN end.rulings THEN end.rulings[a] ELSE None

\* The attacks of a round are admitted together, and those of the next round
\* only when all of them were ruled, one of them amend or forbidden, whatever
\* other processes appended meanwhile.
RoundsInOrder ==
    \A a, b \in Where(facts, {"attack"}) :
        facts[a].case = facts[b].case =>
            /\ facts[a].round = facts[b].round =>
                  \A i \in a .. b : facts[i].kind = "attack" /\ facts[i].round = facts[a].round
            /\ facts[b].round = facts[a].round + 1 =>
                  LET then == SubSeq(facts, 1, b - 1)
                      before == {i \in AttacksOf(then, facts[a].case) : facts[i].round = facts[a].round}
                  IN  /\ a < b /\ ActiveRuling(then, a) # None
                      /\ \E i \in before : LET r == ActiveRuling(then, i)
                                           IN  r # None /\ facts[r].verdict \in {"amend", "forbidden"}

\* When the guard lets an implementation start, the intents and rulings of the
\* case are those its brief was rendered from, and they left nothing open.
ReadyIsCurrent ==
    \A c \in Cases(facts) : Ready(facts, c) =>
        \E d \in Within(facts, {"derivation"}, c) :
            LET basis == SubSeq(facts, 1, facts[d].head)
            IN  /\ \A i \in Within(facts, {"derivation"}, c) : i <= d
                /\ OpenAttacks(basis, c) = {}
                /\ ActiveIntents(basis, c) = ActiveIntents(facts, c)
                /\ AttacksOf(basis, c) = AttacksOf(facts, c)
                /\ \A a \in AttacksOf(facts, c) : ActiveRuling(basis, a) = ActiveRuling(facts, a)

\* After the migration marker only the root of a case whose command read the
\* version before it may still be a version 1 fact.
OnlyRootsLag ==
    \A i \in Where(facts, {"migration"}) : \A j \in i + 1 .. Len(facts) :
        facts[j].v = 1 => facts[j].kind = "root"

\* "new facts use schema v2 after the marker"
NewFactsAreV2 ==
    \A i \in Where(facts, {"migration"}) : \A j \in i + 1 .. Len(facts) : facts[j].v = 2

=============================================================================
