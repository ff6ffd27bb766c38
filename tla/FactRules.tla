----------------------------- MODULE FactRules -----------------------------
(***************************************************************************)
(* The facts of falsiq/facts.py and validate_fact_sequence of              *)
(* falsiq/ledger.py: which sequences of facts are a legal ledger.          *)
(*                                                                         *)
(* A fact id is a fresh ULID; the model takes for it the position of the   *)
(* fact in the ledger, which is as unique, and None (0) for no id.  The    *)
(* texts, digests, paths and timestamps of facts are left out: a builder   *)
(* copies or computes them and the validator compares them with the same   *)
(* copy.                                                                   *)
(***************************************************************************)
EXTENDS Naturals, Sequences, FiniteSets, SequencesExt

None == 0

-----------------------------------------------------------------------------
\* The kinds of fact; v is schema_version.  A v2 root pins its profile.

Root(v, id) == [kind |-> "root", case |-> id, v |-> v]
Amendment(v, case, supersedes, source) ==
    [kind |-> "amendment", case |-> case, v |-> v, supersedes |-> supersedes, source |-> source]
Attack(v, case, round, targets, options) ==
    [kind |-> "attack", case |-> case, v |-> v, round |-> round, targets |-> targets,
     options |-> options]
ReviewRound(case, round, max, selected) ==
    [kind |-> "review_round", case |-> case, v |-> 2, round |-> round, max |-> max,
     selected |-> selected]
Ruling(v, case, attack, verdict, choice, supersedes) ==
    [kind |-> "ruling", case |-> case, v |-> v, attack |-> attack, verdict |-> verdict,
     choice |-> choice, supersedes |-> supersedes]
Derivation(v, case, head) == [kind |-> "derivation", case |-> case, v |-> v, head |-> head]
Outcome(v, case, attack) == [kind |-> "outcome", case |-> case, v |-> v, attack |-> attack]
Migration(id) == [kind |-> "migration", case |-> id, v |-> 2]

Intents == {"root", "amendment"}

\* The model validators of the fact classes, which every fact passes before it
\* is appended and after it is read
WellFormed(f) ==
    /\ f.kind = "attack" => f.targets # {} /\ (f.v = 1 => f.round <= 2)
    /\ f.kind = "review_round" => f.round <= f.max
    /\ f.kind = "ruling" /\ f.verdict \in {"amend", "dont_care"} => f.choice = None

-----------------------------------------------------------------------------
\* The loop of validate_fact_sequence: what it has seen, whether it admits the
\* next fact, and what it remembers of it

Nothing == [ok |-> TRUE, prior |-> <<>>, roots |-> {}, active |-> {}, rulings |-> <<>>,
            amends |-> {}, amended |-> {}, rounds |-> {}, migrated |-> FALSE]

\* _require_prior, and that the fact is of the same case
Prior(seen, ref, kinds, case) ==
    /\ ref \in 1 .. Len(seen.prior)
    /\ seen.prior[ref].kind \in kinds
    /\ seen.prior[ref].case = case

AdmitsAmendment(seen, f) ==
    /\ Prior(seen, f.supersedes, Intents, f.case)
    /\ f.supersedes \in seen.active
    /\ Prior(seen, f.source, {"ruling"}, f.case)
    /\ LET ruling == seen.prior[f.source]
       IN  /\ ruling.verdict = "amend"
           /\ f.supersedes \in seen.prior[ruling.attack].targets
    /\ f.source \notin seen.amended

AdmitsRound(seen, f) ==
    /\ <<f.case, f.round>> \notin seen.rounds
    /\ \A a \in f.selected : /\ Prior(seen, a, {"attack"}, f.case)
                             /\ seen.prior[a].round = f.round

ChoiceFits(options, verdict, choice) ==
    IF options = {} THEN choice = None
    ELSE verdict \in {"intended", "forbidden"} => choice \in options

AdmitsRuling(seen, f) ==
    /\ Prior(seen, f.attack, {"attack"}, f.case)
    /\ ChoiceFits(seen.prior[f.attack].options, f.verdict, f.choice)
    /\ f.supersedes = IF f.attack \in DOMAIN seen.rulings THEN seen.rulings[f.attack] ELSE None

Admits(seen, f) ==
    /\ WellFormed(f)
    /\ CASE f.kind = "migration"    -> ~seen.migrated
         [] f.kind = "root"         -> f.case = Len(seen.prior) + 1
         [] f.kind = "amendment"    -> AdmitsAmendment(seen, f)
         [] f.kind = "attack"       -> \A t \in f.targets : Prior(seen, t, Intents, f.case)
         [] f.kind = "review_round" -> AdmitsRound(seen, f)
         [] f.kind = "ruling"       -> AdmitsRuling(seen, f)
         [] f.kind = "derivation"   -> seen.prior # <<>> /\ f.head = Len(seen.prior)
         [] f.kind = "outcome"      -> f.attack # None => Prior(seen, f.attack, {"attack"}, f.case)
    /\ f.kind \notin {"root", "migration"} => f.case \in seen.roots

Absorb(seen, f) ==
    LET id == Len(seen.prior) + 1
    IN  [ok       |-> seen.ok /\ Admits(seen, f),
         prior    |-> Append(seen.prior, f),
         roots    |-> seen.roots \cup (IF f.kind = "root" THEN {id} ELSE {}),
         active   |-> CASE f.kind = "root" -> seen.active \cup {id}
                        [] f.kind = "amendment" -> (seen.active \ {f.supersedes}) \cup {id}
                        [] OTHER -> seen.active,
         rulings  |-> IF f.kind # "ruling" THEN seen.rulings
                      ELSE [a \in DOMAIN seen.rulings \cup {f.attack} |->
                               IF a = f.attack THEN id ELSE seen.rulings[a]],
         amends   |-> seen.amends \cup
                      (IF f.kind = "ruling" THEN IF f.verdict = "amend" THEN {id} ELSE {} ELSE {}),
         amended  |-> seen.amended \cup (IF f.kind = "amendment" THEN {f.source} ELSE {}),
         rounds   |-> seen.rounds \cup
                      (IF f.kind = "review_round" THEN {<<f.case, f.round>>} ELSE {}),
         migrated |-> seen.migrated \/ f.kind = "migration"]

Validation(facts) == FoldLeft(Absorb, Nothing, facts)

\* validate_fact_sequence accepts: every fact is admitted, and in the end every
\* amend ruling has its amendment
ValidSequence(facts) ==
    LET end == Validation(facts) IN end.ok /\ end.amends \subseteq end.amended

=============================================================================
