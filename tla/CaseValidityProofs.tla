-------------------------- MODULE CaseValidityProofs --------------------------
(***************************************************************************)
(* validate_fact_sequence and the commands: on every ledger the commands   *)
(* can reach, what they build is accepted, and what they take for the      *)
(* active intents and rulings is what the validator has tracked.           *)
(*                                                                         *)
(* The validator is a loop, here a fold.  The library states induction     *)
(* with an operator as parameter; the least-number principle, which has    *)
(* none, gives the same: of the prefixes of a ledger on which a fact about *)
(* the loop fails one is the shortest (LeastNumber).  So a run of the loop *)
(* is a trace (Traced), and as long as it admits the facts what it         *)
(* remembers is a summary of them (Validated).                             *)
(***************************************************************************)
EXTENDS CaseLedgerProofs, FiniteSetTheorems

-----------------------------------------------------------------------------
\* Induction

\* The order of the natural numbers, as a relation
LessThan == {ss \in Nat \X Nat : ss[1] < ss[2]}

\* A set of natural numbers has a least element
LEMMA LeastNumber ==
    ASSUME NEW S, S \subseteq Nat, S # {}
    PROVE  \E m \in S : \A n \in S : m <= n
<1>1. IsWellFoundedOn(LessThan, Nat)
  BY NatLessThanWellFounded DEF OpToRel, LessThan
<1>2. PICK m \in S : \A n \in S : <<n, m>> \notin LessThan
  BY <1>1, WFMin
<1>3. \A n \in S : ~(n < m)
  BY <1>2 DEF LessThan
<1> QED
  BY <1>3

-----------------------------------------------------------------------------
\* The fold

\* What g says of a set of positions, in terms of what it says of a smaller one
FoldStep(g, s, t) == IF t = {} THEN Nothing ELSE Absorb(g[t \ {Max(t)}], s[Max(t)])

Folds(g, s, n) == g = [t \in SUBSET (1 .. n) |-> FoldStep(g, s, t)]

\* The greatest element of a set that has one
LEMMA GreatestIs ==
    ASSUME NEW n \in Nat, NEW t \in SUBSET (1 .. n), n \in t
    PROVE  Max(t) = n
<1>1. \A y \in t : y \in Int /\ n >= y
  OBVIOUS
<1>2. \A x \in t : (\A y \in t : x >= y) <=> x = n
  BY <1>1
<1>3. \E x \in t : \A y \in t : x >= y
  BY <1>1
<1> QED
  BY <1>2, <1>3 DEF Max

\* The recursive function of the fold exists
LEMMA FoldExists ==
    ASSUME NEW s, NEW n \in Nat
    PROVE  \E g : Folds(g, s, n)
<1> DEFINE Bad == {m \in Nat : ~ \E g : Folds(g, s, m)}
<1> SUFFICES ASSUME Bad # {} PROVE FALSE
  OBVIOUS
<1>1. PICK m \in Bad : \A k \in Bad : m <= k
  BY LeastNumber
<1>2. CASE m = 0
  <2> DEFINE g == [t \in SUBSET (1 .. 0) |-> Nothing]
  <2>1. g = [t \in SUBSET (1 .. 0) |-> FoldStep(g, s, t)]
    BY DEF FoldStep
  <2> QED
    BY <1>2, <2>1 DEF Folds
<1>3. CASE m # 0
  <2>1. m - 1 \in Nat /\ m - 1 \notin Bad
    BY <1>1, <1>3
  <2>2. PICK g : Folds(g, s, m - 1)
    BY <2>1
  <2> DEFINE h == [t \in SUBSET (1 .. m) |-> IF m \in t THEN Absorb(g[t \ {m}], s[m]) ELSE g[t]]
  <2>3. ASSUME NEW t \in SUBSET (1 .. m) PROVE h[t] = FoldStep(h, s, t)
    <3>1. CASE m \in t
      <4>1. Max(t) = m /\ t # {}
        BY <3>1, GreatestIs
      <4>2. h[t] = Absorb(g[t \ {m}], s[m])
        BY <3>1
      <4>3. t \ {m} \in SUBSET (1 .. m) /\ m \notin t \ {m}
        OBVIOUS
      <4>4. h[t \ {m}] = g[t \ {m}]
        BY <4>3
      <4> HIDE DEF h
      <4> QED
        BY <4>1, <4>2, <4>4 DEF FoldStep
    <3>2. CASE m \notin t
      <4>1. t \in SUBSET (1 .. m - 1)
        BY <3>2
      <4>2. g[t] = FoldStep(g, s, t) /\ h[t] = g[t]
        BY <2>2, <3>2, <4>1 DEF Folds
      <4>3. t \ {Max(t)} \in SUBSET (1 .. m) /\ m \notin t \ {Max(t)}
        BY <3>2
      <4>4. h[t \ {Max(t)}] = g[t \ {Max(t)}]
        BY <4>3
      <4> HIDE DEF h
      <4> QED
        BY <4>2, <4>4 DEF FoldStep
    <3> QED
      BY <3>1, <3>2
  <2>4. h = [t \in SUBSET (1 .. m) |-> h[t]]
    OBVIOUS
  <2> HIDE DEF h
  <2>5. Folds(h, s, m)
    BY <2>3, <2>4 DEF Folds
  <2> QED
    BY <2>5
<1> QED
  BY <1>2, <1>3

\* A run of the loop of validate_fact_sequence, fact by fact
Trace(v, s) ==
    /\ v[0] = Nothing
    /\ \A k \in 1 .. Len(s) : v[k] = Absorb(v[k - 1], s[k])

\* The fold is the last state of such a run
LEMMA Traced ==
    ASSUME NEW s \in Seq(Facts)
    PROVE  \E v : Trace(v, s) /\ Validation(s) = v[Len(s)]
<1> DEFINE n == Len(s)
           g == CHOOSE h : Folds(h, s, n)
           v == [k \in 0 .. n |-> g[1 .. k]]
<1>1. n \in Nat /\ DOMAIN s = 1 .. n
  OBVIOUS
<1>2. Validation(s) = g[DOMAIN s]
  BY <1>1 DEF Validation, FoldLeft, MapThenFoldSet, Folds, FoldStep
<1>3. Folds(g, s, n)
  <2>1. \E h : Folds(h, s, n)
    BY <1>1, FoldExists
  <2> QED
    BY <2>1
<1> HIDE DEF g
<1>4. v[0] = Nothing
  <2>1. 1 .. 0 \in SUBSET (1 .. n) /\ 1 .. 0 = {}
    BY <1>1
  <2> QED
    BY <1>1, <1>3, <2>1 DEF Folds, FoldStep
<1>5. ASSUME NEW k \in 1 .. n PROVE v[k] = Absorb(v[k - 1], s[k])
  <2>1. Max(1 .. k) = k
    BY <1>1, GreatestIs
  <2>2. k \in Nat /\ k \in 1 .. k /\ 1 .. k \in SUBSET (1 .. n)
    BY <1>1
  <2>4. (1 .. k) \ {k} = 1 .. k - 1
    BY <2>2
  <2>3. g[1 .. k] = Absorb(g[1 .. k - 1], s[k])
    BY <1>3, <2>1, <2>2, <2>4 DEF Folds, FoldStep
  <2> QED
    BY <1>1, <2>3
<1>6. Validation(s) = v[n]
  BY <1>1, <1>2
<1> QED
  BY <1>4, <1>5, <1>6 DEF Trace

-----------------------------------------------------------------------------
\* What the loop remembers

\* The facts s, all of them admitted
Summary(s) ==
    [ok       |-> TRUE,
     prior    |-> s,
     roots    |-> Cases(s),
     active   |-> Where(s, Intents) \ {s[i].supersedes : i \in Where(s, {"amendment"})},
     rulings  |-> [a \in {s[i].attack : i \in Where(s, {"ruling"})} |-> ActiveRuling(s, a)],
     amends   |-> {i \in Where(s, {"ruling"}) : s[i].verdict = "amend"},
     amended  |-> {s[i].source : i \in Where(s, {"amendment"})},
     rounds   |-> {<<s[i].case, s[i].round>> : i \in Where(s, {"review_round"})},
     migrated |-> Where(s, {"migration"}) # {}]

\* Each fact is admitted after those before it
Admitted(s) == \A i \in 1 .. Len(s) : Admits(Summary(SubSeq(s, 1, i - 1)), s[i])

\* The positions of the kinds of facts after one more
LEMMA WhereAppend ==
    ASSUME NEW s \in Seq(Facts), NEW f \in Facts, NEW kinds
    PROVE  LET t == Append(s, f)
               id == Len(s) + 1
           IN  /\ t \in Seq(Facts) /\ Len(t) = id /\ t[id] = f
               /\ \A i \in 1 .. Len(s) : t[i] = s[i]
               /\ Where(s, kinds) \subseteq 1 .. Len(s)
               /\ id \notin 1 .. Len(s)
               /\ Where(t, kinds) = Where(s, kinds) \cup IF f.kind \in kinds THEN {id} ELSE {}
<1> DEFINE t == Append(s, f)
           id == Len(s) + 1
<1>1. t \in Seq(Facts) /\ Len(t) = id /\ t[id] = f /\ \A i \in 1 .. Len(s) : t[i] = s[i]
  OBVIOUS
<1>2. 1 .. id = (1 .. Len(s)) \cup {id} /\ id \notin 1 .. Len(s)
  OBVIOUS
<1> HIDE DEF t, id
<1>3. Where(t, kinds) = Where(s, kinds) \cup IF f.kind \in kinds THEN {id} ELSE {}
  BY <1>1, <1>2 DEF Where
<1>4. Where(s, kinds) \subseteq 1 .. Len(s)
  BY DEF Where
<1> QED
  BY <1>1, <1>2, <1>3, <1>4 DEF t, id

\* An admitted amendment supersedes an earlier intent of its case
LEMMA AmendsEarlier ==
    ASSUME NEW s \in Seq(Facts), Admitted(s), NEW i \in Where(s, {"amendment"})
    PROVE  /\ i \in 1 .. Len(s) /\ s[i].supersedes \in 1 .. i - 1
           /\ s[s[i].supersedes].kind \in Intents /\ s[s[i].supersedes].case = s[i].case
           /\ s[i].source \in 1 .. i - 1
<1> DEFINE u == SubSeq(s, 1, i - 1)
<1>1. i \in 1 .. Len(s) /\ s[i].kind = "amendment"
  BY DEF Where
<1>2. AdmitsAmendment(Summary(u), s[i])
  BY <1>1 DEF Admitted, Admits
<1>3. Len(u) = i - 1 /\ \A k \in 1 .. i - 1 : u[k] = s[k]
  BY <1>1
<1> HIDE DEF u
<1>4. Summary(u).prior = u
  BY DEF Summary
<1> QED
  BY <1>1, <1>2, <1>3, <1>4 DEF AdmitsAmendment, Prior

\* The active ruling on an attack after one more fact
LEMMA ActiveAppend ==
    ASSUME NEW s \in Seq(Facts), NEW f \in Facts, NEW a
    PROVE  ActiveRuling(Append(s, f), a) =
              IF f.kind = "ruling" /\ f.attack = a THEN Len(s) + 1 ELSE ActiveRuling(s, a)
<1> DEFINE t == Append(s, f)
           id == Len(s) + 1
<1>1. /\ Len(t) = id /\ t[id] = f /\ \A i \in 1 .. Len(s) : t[i] = s[i]
      /\ Where(s, {"ruling"}) \subseteq 1 .. Len(s) /\ id \notin 1 .. Len(s) /\ Len(s) \in Nat
      /\ Where(t, {"ruling"}) = Where(s, {"ruling"}) \cup IF f.kind = "ruling" THEN {id} ELSE {}
  BY WhereAppend
<1> HIDE DEF t
<1>2. RulingsOn(t, a) = RulingsOn(s, a) \cup IF f.kind = "ruling" /\ f.attack = a THEN {id} ELSE {}
  BY <1>1 DEF RulingsOn
<1>3. CASE f.kind = "ruling" /\ f.attack = a
  <2>1. RulingsOn(t, a) = RulingsOn(s, a) \cup {id} /\ RulingsOn(s, a) \subseteq 1 .. Len(s)
    BY <1>1, <1>2, <1>3 DEF RulingsOn
  <2>2. \A m \in RulingsOn(t, a) : (\A j \in RulingsOn(t, a) : j <= m) <=> m = id
    BY <1>1, <2>1
  <2>3. id \in RulingsOn(t, a)
    BY <2>1
  <2>4. (CHOOSE m \in RulingsOn(t, a) : \A j \in RulingsOn(t, a) : j <= m) = id
    BY <2>2, <2>3
  <2> QED
    BY <1>3, <2>3, <2>4 DEF ActiveRuling, t
<1>4. CASE ~(f.kind = "ruling" /\ f.attack = a)
  <2>1. RulingsOn(t, a) = RulingsOn(s, a)
    BY <1>2, <1>4
  <2> QED
    BY <1>4, <2>1 DEF ActiveRuling, t
<1> QED
  BY <1>3, <1>4

\* One turn of the loop turns a summary into that of one more fact
LEMMA SummaryAppend ==
    ASSUME NEW s \in Seq(Facts), Admitted(s), NEW f \in Facts, Admits(Summary(s), f)
    PROVE  Absorb(Summary(s), f) = Summary(Append(s, f))
<1> DEFINE t == Append(s, f)
           id == Len(s) + 1
<1>1. /\ t \in Seq(Facts) /\ Len(t) = id /\ t[id] = f /\ \A i \in 1 .. Len(s) : t[i] = s[i]
      /\ id \notin 1 .. Len(s)
  BY WhereAppend
<1>2. ASSUME NEW kinds
      PROVE  /\ Where(t, kinds) = Where(s, kinds) \cup IF f.kind \in kinds THEN {id} ELSE {}
             /\ Where(s, kinds) \subseteq 1 .. Len(s)
  BY WhereAppend
<1>3. \A a : ActiveRuling(t, a) = IF f.kind = "ruling" /\ f.attack = a THEN id ELSE ActiveRuling(s, a)
  BY ActiveAppend
<1>4. \A i \in Where(s, {"amendment"}) : s[i].supersedes \in 1 .. Len(s)
  <2> SUFFICES ASSUME NEW i \in Where(s, {"amendment"}) PROVE s[i].supersedes \in 1 .. Len(s)
    OBVIOUS
  <2>1. i \in 1 .. Len(s) /\ s[i].supersedes \in 1 .. i - 1
    BY AmendsEarlier
  <2> QED
    BY <2>1
<1> HIDE DEF t
<1>5. Cases(t) = Cases(s) \cup IF f.kind = "root" THEN {id} ELSE {}
  BY <1>2 DEF Cases
<1>6. {t[i].supersedes : i \in Where(t, {"amendment"})} =
         {s[i].supersedes : i \in Where(s, {"amendment"})} \cup
         IF f.kind = "amendment" THEN {f.supersedes} ELSE {}
  BY <1>1, <1>2
<1>7. {t[i].source : i \in Where(t, {"amendment"})} =
         {s[i].source : i \in Where(s, {"amendment"})} \cup
         IF f.kind = "amendment" THEN {f.source} ELSE {}
  BY <1>1, <1>2
<1>8. {i \in Where(t, {"ruling"}) : t[i].verdict = "amend"} =
         {i \in Where(s, {"ruling"}) : s[i].verdict = "amend"} \cup
         IF f.kind = "ruling" THEN IF f.verdict = "amend" THEN {id} ELSE {} ELSE {}
  BY <1>1, <1>2
<1>9. {<<t[i].case, t[i].round>> : i \in Where(t, {"review_round"})} =
         {<<s[i].case, s[i].round>> : i \in Where(s, {"review_round"})} \cup
         IF f.kind = "review_round" THEN {<<f.case, f.round>>} ELSE {}
  BY <1>1, <1>2
<1>10. {t[i].attack : i \in Where(t, {"ruling"})} =
         {s[i].attack : i \in Where(s, {"ruling"})} \cup IF f.kind = "ruling" THEN {f.attack} ELSE {}
  BY <1>1, <1>2
<1>11. Where(t, {"migration"}) # {} <=> Where(s, {"migration"}) # {} \/ f.kind = "migration"
  BY <1>2
<1> DEFINE S == Summary(s)
           T == Summary(t)
           active == CASE f.kind = "root" -> S.active \cup {id}
                       [] f.kind = "amendment" -> (S.active \ {f.supersedes}) \cup {id}
                       [] OTHER -> S.active
           rulings == IF f.kind # "ruling" THEN S.rulings
                      ELSE [a \in DOMAIN S.rulings \cup {f.attack} |->
                               IF a = f.attack THEN id ELSE S.rulings[a]]
<1>12. T.active = active
  <2> DEFINE W == Where(s, Intents)
             gone == {s[i].supersedes : i \in Where(s, {"amendment"})}
  <2>1. Where(t, Intents) = W \cup IF f.kind \in Intents THEN {id} ELSE {}
    BY <1>2
  <2>2. S.active = W \ gone /\ id \notin gone /\ id \notin W
    BY <1>1, <1>2, <1>4 DEF Summary
  <2>3. T.active = (W \cup IF f.kind \in Intents THEN {id} ELSE {}) \
                   (gone \cup IF f.kind = "amendment" THEN {f.supersedes} ELSE {})
    BY <1>6, <2>1 DEF Summary
  <2>4. f.kind = "amendment" => f.supersedes # id
    <3>1. f.kind = "amendment" => f.supersedes \in 1 .. Len(s)
      BY DEF Admits, AdmitsAmendment, Prior, Summary
    <3> QED
      BY <1>1, <3>1
  <2> HIDE DEF W, gone, S, T
  <2>5. CASE f.kind = "root"
    BY <2>2, <2>3, <2>5 DEF Intents
  <2>6. CASE f.kind = "amendment"
    BY <2>2, <2>3, <2>4, <2>6 DEF Intents
  <2>7. CASE f.kind \notin Intents
    BY <2>2, <2>3, <2>7 DEF Intents
  <2> QED
    BY <2>5, <2>6, <2>7 DEF Intents
<1>13. T.rulings = rulings
  <2> DEFINE D == {s[i].attack : i \in Where(s, {"ruling"})}
             ruled == IF f.kind = "ruling" THEN {f.attack} ELSE {}
  <2>1. S.rulings = [a \in D |-> ActiveRuling(s, a)]
    BY DEF Summary
  <2>2. T.rulings = [a \in D \cup ruled |-> ActiveRuling(t, a)]
    BY <1>10 DEF Summary
  <2> HIDE DEF D, S, T
  <2>3. CASE f.kind = "ruling"
    <3>1. rulings = [a \in D \cup {f.attack} |-> IF a = f.attack THEN id ELSE S.rulings[a]]
      BY <2>1, <2>3
    <3>2. \A a \in D \cup {f.attack} :
             ActiveRuling(t, a) = IF a = f.attack THEN id ELSE S.rulings[a]
      BY <1>3, <2>1, <2>3
    <3> QED
      BY <2>2, <2>3, <3>1, <3>2
  <2>4. CASE f.kind # "ruling"
    BY <1>3, <2>1, <2>2, <2>4
  <2> QED
    BY <2>3, <2>4
<1>14. Absorb(S, f) =
         [ok |-> TRUE, prior |-> t, roots |-> Cases(t), active |-> active, rulings |-> rulings,
          amends |-> T.amends, amended |-> T.amended, rounds |-> T.rounds, migrated |-> T.migrated]
  BY <1>5, <1>7, <1>8, <1>9, <1>11 DEF Absorb, Summary, t
<1> QED
  BY <1>12, <1>13, <1>14 DEF Summary, t

\* A ledger with one more fact
LEMMA AdmittedAppend ==
    ASSUME NEW s \in Seq(Facts), NEW f \in Facts
    PROVE  Admitted(Append(s, f)) <=> Admitted(s) /\ Admits(Summary(s), f)
<1> DEFINE t == Append(s, f)
<1>1. /\ Len(t) = Len(s) + 1 /\ t[Len(s) + 1] = f /\ SubSeq(t, 1, Len(s)) = s
      /\ \A i \in 1 .. Len(s) : t[i] = s[i] /\ SubSeq(t, 1, i - 1) = SubSeq(s, 1, i - 1)
  OBVIOUS
<1>2. Len(s) \in Nat /\ 1 .. Len(s) + 1 = (1 .. Len(s)) \cup {Len(s) + 1} /\ (Len(s) + 1) - 1 = Len(s)
  OBVIOUS
<1> HIDE DEF t
<1>3. Admitted(t) <=> /\ \A i \in 1 .. Len(s) : Admits(Summary(SubSeq(t, 1, i - 1)), t[i])
                      /\ Admits(Summary(SubSeq(t, 1, Len(s))), t[Len(s) + 1])
  BY <1>1, <1>2 DEF Admitted
<1> QED
  BY <1>1, <1>3 DEF Admitted, t

\* The loop is ok as long as it admits the facts, and then remembers their summary
LEMMA Validated ==
    ASSUME NEW s \in Seq(Facts)
    PROVE  /\ Validation(s).ok <=> Admitted(s)
           /\ Admitted(s) => Validation(s) = Summary(s)
<1>1. PICK v : Trace(v, s) /\ Validation(s) = v[Len(s)]
  BY Traced
<1> DEFINE Good(k) == LET u == SubSeq(s, 1, k)
                      IN  (v[k].ok => Admitted(u)) /\ (Admitted(u) => v[k] = Summary(u))
           Bad == {k \in 0 .. Len(s) : ~Good(k)}
<1>2. Bad = {}
  <2> SUFFICES ASSUME Bad # {} PROVE FALSE
    OBVIOUS
  <2>1. Bad \subseteq Nat
    OBVIOUS
  <2>2. PICK m \in Bad : \A k \in Bad : m <= k
    BY <2>1, LeastNumber
  <2>3. m \in 0 .. Len(s) /\ ~Good(m)
    OBVIOUS
  <2>4. CASE m = 0
    <3>1. SubSeq(s, 1, 0) = <<>> /\ <<>> \in Seq(Facts) /\ Len(<<>>) = 0
      OBVIOUS
    <3>2. \A kinds : Where(<<>>, kinds) = {}
      BY <3>1 DEF Where
    <3>3. Summary(<<>>) = Nothing
      <4> DEFINE z == <<>>
      <4>1. \A kinds : Where(z, kinds) = {}
        BY <3>2
      <4>2. [a \in {} |-> ActiveRuling(z, a)] = <<>>
        OBVIOUS
      <4> HIDE DEF z
      <4>3. {z[i].attack : i \in {}} = {} /\ {i \in {} : z[i].verdict = "amend"} = {}
        OBVIOUS
      <4>4. {z[i].supersedes : i \in {}} = {} /\ {z[i].source : i \in {}} = {}
            /\ {<<z[i].case, z[i].round>> : i \in {}} = {} /\ {} \ {} = {}
        OBVIOUS
      <4>5. Summary(z) = [ok |-> TRUE, prior |-> z, roots |-> {}, active |-> {}, rulings |-> <<>>,
                          amends |-> {}, amended |-> {}, rounds |-> {}, migrated |-> FALSE]
        BY <4>1, <4>2, <4>3, <4>4 DEF Summary, Cases
      <4> QED
        BY <4>5 DEF Nothing, z
    <3>4. Admitted(<<>>)
      BY <3>1 DEF Admitted
    <3>5. v[0] = Nothing
      BY <1>1 DEF Trace
    <3> QED
      BY <2>3, <2>4, <3>1, <3>3, <3>4, <3>5
  <2>5. CASE m # 0
    <3> DEFINE w == SubSeq(s, 1, m - 1)
               f == s[m]
    <3>1. m \in 1 .. Len(s) /\ m - 1 \in 0 .. Len(s) /\ ~(m <= m - 1)
      BY <2>3, <2>5
    <3>2. Good(m - 1)
      BY <2>2, <3>1
    <3>3. w \in Seq(Facts) /\ f \in Facts /\ SubSeq(s, 1, m) = Append(w, f)
      BY <3>1
    <3>4. v[m] = Absorb(v[m - 1], f)
      BY <1>1, <3>1 DEF Trace
    <3>5. (v[m - 1].ok => Admitted(w)) /\ (Admitted(w) => v[m - 1] = Summary(w))
      BY <3>2
    <3> HIDE DEF w, f
    <3>6. v[m].ok => v[m - 1].ok /\ Admits(v[m - 1], f)
      <4>1. v[m].ok = (v[m - 1].ok /\ Admits(v[m - 1], f))
        BY <3>4 DEF Absorb
      <4> QED
        BY <4>1
    <3>7. Admitted(Append(w, f)) <=> Admitted(w) /\ Admits(Summary(w), f)
      BY <3>3, AdmittedAppend
    <3>8. Admitted(Append(w, f)) => v[m] = Summary(Append(w, f))
      BY <3>3, <3>4, <3>5, <3>7, SummaryAppend
    <3>9. v[m].ok => Admitted(Append(w, f))
      BY <3>5, <3>6, <3>7
    <3> QED
      BY <2>3, <3>3, <3>8, <3>9
  <2> QED
    BY <2>4, <2>5
<1>3. Good(Len(s))
  <2>1. Len(s) \in 0 .. Len(s)
    OBVIOUS
  <2> QED
    BY <1>2, <2>1
<1>4. SubSeq(s, 1, Len(s)) = s
  OBVIOUS
<1>5. Summary(s).ok
  BY DEF Summary
<1> QED
  BY <1>1, <1>3, <1>4, <1>5

\* Which sequences of facts are legal, without the loop
LEMMA ValidIffAdmitted ==
    ASSUME NEW s \in Seq(Facts)
    PROVE  ValidSequence(s) <=>
              /\ Admitted(s)
              /\ \A i \in Where(s, {"ruling"}) :
                    s[i].verdict = "amend" => \E k \in Where(s, {"amendment"}) : s[k].source = i
<1>1. ValidSequence(s) <=> Admitted(s) /\ Summary(s).amends \subseteq Summary(s).amended
  BY Validated DEF ValidSequence
<1>2. Summary(s).amends \subseteq Summary(s).amended <=>
         \A i \in Where(s, {"ruling"}) :
            s[i].verdict = "amend" => \E k \in Where(s, {"amendment"}) : s[k].source = i
  BY DEF Summary
<1> QED
  BY <1>1, <1>2

-----------------------------------------------------------------------------
\* One active intent

\* The active intents of a case are one
Single(s) == \A c \in Cases(s) : \E x : ActiveIntents(s, c) = {x}

\* A fact that is admitted belongs to an opened case, unless it opens one or marks the migration
LEMMA CaseOpened ==
    ASSUME NEW s \in Seq(Facts), Admitted(s), NEW i \in 1 .. Len(s), s[i].kind # "migration"
    PROVE  s[i].case \in 1 .. i /\ (s[i].kind = "root" => s[i].case = i)
<1> DEFINE u == SubSeq(s, 1, i - 1)
<1>1. Len(u) = i - 1 /\ Admits(Summary(u), s[i])
  BY DEF Admitted
<1> HIDE DEF u
<1>2. Summary(u).prior = u /\ Summary(u).roots = Cases(u) /\ Cases(u) \subseteq 1 .. i - 1
  BY <1>1 DEF Summary, Cases, Where
<1>3. s[i].kind = "root" => s[i].case = Len(u) + 1
  BY <1>1, <1>2 DEF Admits
<1>4. s[i].kind # "root" => s[i].case \in Cases(u)
  BY <1>1, <1>2 DEF Admits
<1> QED
  BY <1>1, <1>2, <1>3, <1>4

\* The active intents of a case after one more fact
LEMMA ActiveIntentsAppend ==
    ASSUME NEW s \in Seq(Facts), Admitted(s), NEW f \in Facts, NEW c,
           f.kind = "amendment" => f.supersedes \in 1 .. Len(s)
    PROVE  ActiveIntents(Append(s, f), c) =
              CASE f.case = c /\ f.kind = "root" -> ActiveIntents(s, c) \cup {Len(s) + 1}
                [] f.case = c /\ f.kind = "amendment" ->
                      (ActiveIntents(s, c) \ {f.supersedes}) \cup {Len(s) + 1}
                [] OTHER -> ActiveIntents(s, c)
<1> DEFINE t == Append(s, f)
           id == Len(s) + 1
           W == Within(s, Intents, c)
           gone == {s[i].supersedes : i \in Within(s, {"amendment"}, c)}
<1>1. /\ t[id] = f /\ (\A i \in 1 .. Len(s) : t[i] = s[i]) /\ id \notin 1 .. Len(s)
      /\ \A kinds : /\ Where(t, kinds) = Where(s, kinds) \cup IF f.kind \in kinds THEN {id} ELSE {}
                    /\ Where(s, kinds) \subseteq 1 .. Len(s)
  BY WhereAppend
<1> HIDE DEF t, id
<1>2. \A kinds : Within(t, kinds, c) =
                    Within(s, kinds, c) \cup IF f.kind \in kinds /\ f.case = c THEN {id} ELSE {}
  BY <1>1 DEF Within
<1>3. {t[i].supersedes : i \in Within(t, {"amendment"}, c)} =
         gone \cup IF f.kind = "amendment" /\ f.case = c THEN {f.supersedes} ELSE {}
  BY <1>1, <1>2 DEF Within
<1>4. id \notin gone /\ id \notin W
  <2>1. \A i \in Within(s, {"amendment"}, c) : s[i].supersedes \in 1 .. Len(s)
    <3> SUFFICES ASSUME NEW i \in Within(s, {"amendment"}, c) PROVE s[i].supersedes \in 1 .. Len(s)
      OBVIOUS
    <3>1. i \in 1 .. Len(s) /\ s[i].supersedes \in 1 .. i - 1
      BY AmendsEarlier DEF Within
    <3> QED
      BY <3>1
  <2> QED
    BY <1>1, <2>1 DEF Within
<1>5. ActiveIntents(s, c) = W \ gone
  BY DEF ActiveIntents
<1>6. ActiveIntents(t, c) =
         (W \cup IF f.kind \in Intents /\ f.case = c THEN {id} ELSE {}) \
         (gone \cup IF f.kind = "amendment" /\ f.case = c THEN {f.supersedes} ELSE {})
  BY <1>2, <1>3 DEF ActiveIntents
<1>7. f.kind = "amendment" => f.supersedes # id
  BY <1>1
<1> HIDE DEF W, gone
<1>8. CASE f.case = c /\ f.kind = "root"
  BY <1>4, <1>5, <1>6, <1>8 DEF Intents, t, id
<1>9. CASE f.case = c /\ f.kind = "amendment"
  BY <1>4, <1>5, <1>6, <1>7, <1>9 DEF Intents, t, id
<1>10. CASE ~(f.case = c /\ f.kind \in Intents)
  BY <1>5, <1>6, <1>10 DEF Intents, t, id
<1> QED
  BY <1>8, <1>9, <1>10 DEF Intents

\* One more fact leaves each case with one active intent
LEMMA SingleAppend ==
    ASSUME NEW s \in Seq(Facts), NEW f \in Facts, Admitted(Append(s, f)), Single(s)
    PROVE  Single(Append(s, f))
<1> DEFINE t == Append(s, f)
           id == Len(s) + 1
<1>1. Admitted(s) /\ Admits(Summary(s), f)
  BY AdmittedAppend
<1>2. /\ Cases(t) = Cases(s) \cup IF f.kind = "root" THEN {id} ELSE {}
      /\ Cases(s) \subseteq 1 .. Len(s) /\ id \notin 1 .. Len(s)
  BY WhereAppend DEF Cases
<1>3. f.kind = "root" => f.case = id
  BY <1>1 DEF Admits, Summary
<1>4. f.kind = "amendment" =>
         /\ f.supersedes \in 1 .. Len(s) /\ s[f.supersedes].kind \in Intents /\ s[f.supersedes].case = f.case
         /\ f.supersedes \in Summary(s).active
  <2>1. f.kind = "amendment" => AdmitsAmendment(Summary(s), f)
    BY <1>1 DEF Admits
  <2>2. Summary(s).prior = s
    BY DEF Summary
  <2> QED
    BY <2>1, <2>2 DEF AdmitsAmendment, Prior
<1>5. ASSUME NEW c \in Cases(t) PROVE \E x : ActiveIntents(t, c) = {x}
  <2>1. CASE c = id
    <3>1. f.kind = "root" /\ f.case = c
      BY <1>2, <1>3, <2>1
    <3>2. ActiveIntents(t, c) = ActiveIntents(s, c) \cup {id}
      BY <1>1, <1>4, <3>1, ActiveIntentsAppend
    <3>3. Within(s, Intents, c) = {}
      <4>1. \A i \in 1 .. Len(s) : s[i].kind \in Intents => s[i].case # c
        <5> SUFFICES ASSUME NEW i \in 1 .. Len(s), s[i].kind \in Intents PROVE s[i].case # c
          OBVIOUS
        <5>1. s[i].case \in 1 .. i
          BY <1>1, CaseOpened DEF Intents
        <5> QED
          BY <2>1, <5>1
      <4> QED
        BY <4>1 DEF Within, Where
    <3>4. ActiveIntents(t, c) = {id}
      BY <3>2, <3>3 DEF ActiveIntents
    <3> QED
      BY <3>4
  <2>2. CASE c # id
    <3>1. PICK x : ActiveIntents(s, c) = {x}
      BY <1>2, <2>2 DEF Single
    <3>2. CASE f.case = c /\ f.kind = "amendment"
      <4>1. f.supersedes \in ActiveIntents(s, c)
        <5>1. f.supersedes \in Within(s, Intents, c)
          BY <1>4, <3>2 DEF Within, Where
        <5>2. \A i \in Within(s, {"amendment"}, c) : s[i].supersedes # f.supersedes
          BY <1>4, <3>2 DEF Within, Summary
        <5> QED
          BY <5>1, <5>2 DEF ActiveIntents
      <4>2. ActiveIntents(t, c) = (ActiveIntents(s, c) \ {f.supersedes}) \cup {id}
        BY <1>1, <1>4, <3>2, ActiveIntentsAppend
      <4>3. ActiveIntents(t, c) = {id}
        BY <3>1, <4>1, <4>2
      <4> QED
        BY <4>3
    <3>3. CASE ~(f.case = c /\ f.kind = "amendment")
      <4>1. ~(f.case = c /\ f.kind = "root")
        BY <1>3, <2>2
      <4>2. ActiveIntents(t, c) = ActiveIntents(s, c)
        BY <1>1, <1>4, <3>3, <4>1, ActiveIntentsAppend
      <4> QED
        BY <3>1, <4>2
    <3> QED
      BY <3>2, <3>3
  <2> QED
    BY <2>1, <2>2
<1> QED
  BY <1>5 DEF Single

\* On a ledger that the loop admits each case has one active intent
LEMMA AdmittedSingle ==
    ASSUME NEW s \in Seq(Facts), Admitted(s)
    PROVE  Single(s)
<1> DEFINE Bad == {k \in 0 .. Len(s) : ~Single(SubSeq(s, 1, k))}
<1>1. Bad = {}
  <2> SUFFICES ASSUME Bad # {} PROVE FALSE
    OBVIOUS
  <2>1. Bad \subseteq Nat
    OBVIOUS
  <2>2. PICK m \in Bad : \A k \in Bad : m <= k
    BY <2>1, LeastNumber
  <2>3. m \in 0 .. Len(s) /\ ~Single(SubSeq(s, 1, m))
    OBVIOUS
  <2>4. CASE m = 0
    <3>1. SubSeq(s, 1, 0) = <<>> /\ Len(<<>>) = 0
      OBVIOUS
    <3> QED
      BY <2>3, <2>4, <3>1 DEF Single, Cases, Where
  <2>5. CASE m # 0
    <3> DEFINE w == SubSeq(s, 1, m - 1)
               f == s[m]
    <3>1. m \in 1 .. Len(s) /\ m - 1 \in 0 .. Len(s) /\ ~(m <= m - 1)
      BY <2>3, <2>5
    <3>2. Single(w)
      BY <2>2, <3>1
    <3>3. w \in Seq(Facts) /\ f \in Facts /\ SubSeq(s, 1, m) = Append(w, f)
      BY <3>1
    <3>4. Admitted(SubSeq(s, 1, m))
      <4> DEFINE u == SubSeq(s, 1, m)
      <4>1. Len(u) = m /\ \A i \in 1 .. m : i \in 1 .. Len(s) /\ u[i] = s[i] /\ SubSeq(u, 1, i - 1) = SubSeq(s, 1, i - 1)
        BY <3>1
      <4> HIDE DEF u
      <4>2. Admitted(u)
        BY <4>1 DEF Admitted
      <4> QED
        BY <4>2 DEF u
    <3> HIDE DEF w, f
    <3> QED
      BY <2>3, <3>2, <3>3, <3>4, SingleAppend
  <2> QED
    BY <2>4, <2>5
<1>2. Len(s) \in 0 .. Len(s) /\ SubSeq(s, 1, Len(s)) = s
  OBVIOUS
<1> QED
  BY <1>1, <1>2

-----------------------------------------------------------------------------
\* The ledger is legal

\* append_batch validates the ledger with the batch
LEMMA AppendsValid ==
    ASSUME ValidSequence(facts), [Next]_vars
    PROVE  ValidSequence(facts')
<1>1. facts' = facts \/ \E b : Append1(b)
  BY DEF Next, vars, ReadFacts, ReadVersion, AddIntent, AddReview, Rule, AddOutcome, Derive,
         Migrate, Leave, Submit
<1> QED
  BY <1>1 DEF Append1

\* With the types of the facts
LEMMA LegalInvariant == Spec => [](IInv /\ ValidSequence(facts))
<1>1. Init => ValidSequence(facts)
  <2> SUFFICES ASSUME Init PROVE ValidSequence(facts)
    OBVIOUS
  <2>1. facts = <<>> /\ facts \in Seq(Facts) /\ Len(facts) = 0
    BY DEF Init
  <2>2. Admitted(facts) /\ Where(facts, {"ruling"}) = {}
    BY <2>1 DEF Admitted, Where
  <2> QED
    BY <2>1, <2>2, ValidIffAdmitted
<1>2. ValidSequence(facts) /\ [Next]_vars => ValidSequence(facts)'
  BY AppendsValid
<1> QED
  BY <1>1, <1>2, Invariant, PTL DEF Spec

\* "active_intents", "active_rulings": what the commands recompute from the facts
\* is what validate_fact_sequence has tracked, and a case has exactly one active
\* intent, whatever commands ran and however they interleaved.
THEOREM IntentsAreTracked == Spec => []OneActiveIntent
<1>1. IInv /\ ValidSequence(facts) => OneActiveIntent
  <2> SUFFICES ASSUME IInv, ValidSequence(facts) PROVE OneActiveIntent
    OBVIOUS
  <2>1. facts \in Seq(Facts) /\ Admitted(facts)
    BY ValidIffAdmitted DEF IInv
  <2> DEFINE end == Validation(facts)
  <2>2. end = Summary(facts)
    BY <2>1, Validated
  <2>3. /\ end.active = Where(facts, Intents) \ {facts[i].supersedes : i \in Where(facts, {"amendment"})}
        /\ end.rulings = [a \in {facts[i].attack : i \in Where(facts, {"ruling"})} |->
                             ActiveRuling(facts, a)]
    BY <2>2 DEF Summary
  <2> HIDE DEF end
  <2>4. ASSUME NEW c \in Cases(facts)
        PROVE  Cardinality(ActiveIntents(facts, c)) = 1 /\ ActiveIntents(facts, c) \subseteq end.active
    <3>1. PICK x : ActiveIntents(facts, c) = {x}
      BY <2>1, AdmittedSingle DEF Single
    <3>2. Cardinality(ActiveIntents(facts, c)) = 1
      BY <3>1, FS_Singleton
    <3>3. ASSUME NEW y \in ActiveIntents(facts, c), NEW i \in Where(facts, {"amendment"}),
                 facts[i].supersedes = y
          PROVE  FALSE
      <4>1. facts[y].case = c /\ y \notin {facts[j].supersedes : j \in Within(facts, {"amendment"}, c)}
        BY DEF ActiveIntents, Within
      <4>2. facts[i].case = c
        BY <2>1, <3>3, <4>1, AmendsEarlier
      <4> QED
        BY <3>3, <4>1, <4>2 DEF Within
    <3>4. ActiveIntents(facts, c) \subseteq Where(facts, Intents)
      BY DEF ActiveIntents, Within
    <3> QED
      BY <2>3, <3>2, <3>3, <3>4
  <2>5. ASSUME NEW a \in Where(facts, {"attack"})
        PROVE  ActiveRuling(facts, a) = IF a \in DOMAIN end.rulings THEN end.rulings[a] ELSE None
    <3>1. CASE a \in DOMAIN end.rulings
      BY <2>3, <3>1
    <3>2. CASE a \notin DOMAIN end.rulings
      <4>1. RulingsOn(facts, a) = {}
        BY <2>3, <3>2 DEF RulingsOn
      <4> QED
        BY <3>2, <4>1 DEF ActiveRuling
    <3> QED
      BY <3>1, <3>2
  <2> QED
    BY <2>4, <2>5 DEF OneActiveIntent, end
<1> QED
  BY <1>1, LegalInvariant, PTL

-----------------------------------------------------------------------------
\* What the builders build is accepted

\* A ledger with a batch whose facts are admitted one after the other
LEMMA Extended ==
    ASSUME NEW s \in Seq(Facts), Admitted(s), NEW b \in Seq(Facts),
           \A i \in 1 .. Len(b) : Admits(Summary(s \o SubSeq(b, 1, i - 1)), b[i])
    PROVE  Admitted(s \o b)
<1> DEFINE t == s \o b
<1>1. t \in Seq(Facts) /\ Len(t) = Len(s) + Len(b) /\ Len(s) \in Nat /\ Len(b) \in Nat
  OBVIOUS
<1>2. ASSUME NEW i \in 1 .. Len(t) PROVE Admits(Summary(SubSeq(t, 1, i - 1)), t[i])
  <2>1. CASE i <= Len(s)
    <3>1. t[i] = s[i] /\ SubSeq(t, 1, i - 1) = SubSeq(s, 1, i - 1) /\ i \in 1 .. Len(s)
      BY <1>1, <2>1
    <3> QED
      BY <3>1 DEF Admitted
  <2>2. CASE i > Len(s)
    <3> DEFINE k == i - Len(s)
    <3>1. k \in 1 .. Len(b) /\ t[i] = b[k]
      BY <1>1, <2>2
    <3>2. SubSeq(t, 1, i - 1) = s \o SubSeq(b, 1, k - 1)
      <4> DEFINE u == SubSeq(t, 1, i - 1)
                 w == SubSeq(b, 1, k - 1)
      <4>1. u \in Seq(Facts) /\ Len(u) = i - 1 /\ \A j \in 1 .. i - 1 : u[j] = t[j]
        BY <1>1, <2>2
      <4>2. w \in Seq(Facts) /\ Len(w) = k - 1 /\ \A j \in 1 .. k - 1 : w[j] = b[j]
        BY <3>1
      <4>3. \A j \in 1 .. i - 1 : t[j] = (s \o w)[j]
        BY <1>1, <2>2, <4>2
      <4>4. (s \o w) \in Seq(Facts) /\ Len(s \o w) = i - 1
        BY <1>1, <2>2, <4>2
      <4> HIDE DEF t, u, w
      <4> QED
        BY <4>1, <4>3, <4>4 DEF u, w
    <3> QED
      BY <3>1, <3>2
  <2> QED
    BY <1>1, <2>1, <2>2
<1> QED
  BY <1>2 DEF Admitted

\* Legal, if the batch brings the amendment of each of its amend rulings
LEMMA Accepted ==
    ASSUME NEW s \in Seq(Facts), ValidSequence(s), NEW b \in Seq(Facts), Admitted(s \o b),
           \A i \in 1 .. Len(b) : b[i].kind = "ruling" /\ b[i].verdict = "amend" =>
              \E k \in 1 .. Len(b) : b[k].kind = "amendment" /\ b[k].source = Len(s) + i
    PROVE  ValidSequence(s \o b)
<1> DEFINE t == s \o b
<1>1. /\ t \in Seq(Facts) /\ Len(t) = Len(s) + Len(b) /\ Len(s) \in Nat /\ Len(b) \in Nat
      /\ \A i \in 1 .. Len(s) : t[i] = s[i] /\ i \in 1 .. Len(t)
      /\ \A i \in 1 .. Len(b) : t[Len(s) + i] = b[i] /\ Len(s) + i \in 1 .. Len(t)
  OBVIOUS
<1>2. \A i \in Where(s, {"ruling"}) :
         s[i].verdict = "amend" => \E k \in Where(s, {"amendment"}) : s[k].source = i
  BY ValidIffAdmitted
<1>3. ASSUME NEW i \in Where(t, {"ruling"}), t[i].verdict = "amend"
      PROVE  \E k \in Where(t, {"amendment"}) : t[k].source = i
  <2>1. i \in 1 .. Len(t) /\ t[i].kind = "ruling"
    BY DEF Where
  <2>2. CASE i <= Len(s)
    <3>1. i \in Where(s, {"ruling"}) /\ s[i].verdict = "amend"
      BY <1>1, <1>3, <2>1, <2>2 DEF Where
    <3>2. PICK k \in Where(s, {"amendment"}) : s[k].source = i
      BY <1>2, <3>1
    <3>3. k \in Where(t, {"amendment"}) /\ t[k].source = i
      BY <1>1, <3>2 DEF Where
    <3> QED
      BY <3>3
  <2>3. CASE i > Len(s)
    <3>1. PICK j \in 1 .. Len(b) : i = Len(s) + j
      <4>1. i - Len(s) \in 1 .. Len(b) /\ i = Len(s) + (i - Len(s))
        BY <1>1, <2>1, <2>3
      <4> QED
        BY <4>1
    <3>2. b[j].kind = "ruling" /\ b[j].verdict = "amend"
      <4>1. t[i] = b[j]
        BY <1>1, <3>1
      <4> QED
        BY <1>3, <2>1, <4>1
    <3>3. PICK k \in 1 .. Len(b) : b[k].kind = "amendment" /\ b[k].source = i
      BY <3>1, <3>2
    <3>4. Len(s) + k \in Where(t, {"amendment"}) /\ t[Len(s) + k].source = i
      BY <1>1, <3>3 DEF Where
    <3> QED
      BY <3>4
  <2>4. i <= Len(s) \/ i > Len(s)
    BY <1>1, <2>1
  <2> QED
    BY <2>2, <2>3, <2>4
<1> QED
  BY <1>1, <1>3, ValidIffAdmitted

\* The case of a fact has been opened
LEMMA CaseKnown ==
    ASSUME NEW s \in Seq(Facts), Admitted(s), NEW i \in 1 .. Len(s),
           s[i].kind \notin {"root", "migration"}
    PROVE  s[i].case \in Cases(s)
<1> DEFINE u == SubSeq(s, 1, i - 1)
<1>1. Len(u) = i - 1 /\ Admits(Summary(u), s[i]) /\ \A k \in 1 .. i - 1 : u[k] = s[k] /\ k \in 1 .. Len(s)
  BY DEF Admitted
<1> HIDE DEF u
<1>2. s[i].case \in Cases(u)
  BY <1>1 DEF Admits, Summary
<1> QED
  BY <1>1, <1>2 DEF Cases, Where

\* A batch of one fact, which is not an amend ruling
LEMMA AcceptedOne ==
    ASSUME NEW s \in Seq(Facts), ValidSequence(s), NEW f \in Facts, Admits(Summary(s), f),
           f.kind = "ruling" => f.verdict # "amend"
    PROVE  ValidSequence(s \o <<f>>)
<1>1. Admitted(s)
  BY ValidIffAdmitted
<1>2. s \o <<f>> = Append(s, f) /\ <<f>> \in Seq(Facts) /\ Len(<<f>>) = 1
  OBVIOUS
<1>3. Admitted(s \o <<f>>)
  BY <1>1, <1>2, AdmittedAppend
<1> DEFINE b == <<f>>
<1>4. b \in Seq(Facts) /\ Len(b) = 1 /\ b[1] = f
  OBVIOUS
<1> HIDE DEF b
<1>5. \A i \in 1 .. Len(b) : ~(b[i].kind = "ruling" /\ b[i].verdict = "amend")
  BY <1>4
<1>6. Admitted(s \o b)
  BY <1>3 DEF b
<1>7. ValidSequence(s \o b)
  BY <1>4, <1>5, <1>6, Accepted
<1> QED
  BY <1>7 DEF b

\* The ruling that rule builds on an attack
LEMMA RulingAdmitted ==
    ASSUME NEW s \in Seq(Facts), Admitted(s), NEW a \in Where(s, {"attack"}), NEW verdict, NEW choice,
           LET f == Ruling(WriteVersion(s), s[a].case, a, verdict, choice, ActiveRuling(s, a))
           IN  ChoiceFits(s[a].options, verdict, choice) /\ WellFormed(f)
    PROVE  LET f == Ruling(WriteVersion(s), s[a].case, a, verdict, choice, ActiveRuling(s, a))
           IN  Admits(Summary(s), f)
<1> DEFINE f == Ruling(WriteVersion(s), s[a].case, a, verdict, choice, ActiveRuling(s, a))
<1>1. a \in 1 .. Len(s) /\ s[a].kind = "attack"
  BY DEF Where
<1>2. s[a].case \in Cases(s)
  BY <1>1, CaseKnown
<1>3. /\ f.kind = "ruling" /\ f.case = s[a].case /\ f.attack = a /\ f.verdict = verdict
      /\ f.choice = choice /\ f.supersedes = ActiveRuling(s, a)
  BY DEF Ruling
<1>4. WellFormed(f)
  OBVIOUS
<1> HIDE DEF f
<1>5. /\ Summary(s).prior = s /\ Summary(s).roots = Cases(s)
      /\ Summary(s).rulings = [x \in {s[i].attack : i \in Where(s, {"ruling"})} |-> ActiveRuling(s, x)]
  BY DEF Summary
<1>6. f.supersedes = IF a \in DOMAIN Summary(s).rulings THEN Summary(s).rulings[a] ELSE None
  <2>1. CASE a \in DOMAIN Summary(s).rulings
    BY <1>3, <1>5, <2>1
  <2>2. CASE a \notin DOMAIN Summary(s).rulings
    <3>1. RulingsOn(s, a) = {}
      BY <1>5, <2>2 DEF RulingsOn
    <3> QED
      BY <1>3, <2>2, <3>1 DEF ActiveRuling
  <2> QED
    BY <2>1, <2>2
<1>7. AdmitsRuling(Summary(s), f)
  BY <1>1, <1>3, <1>5, <1>6 DEF AdmitsRuling, Prior
<1>8. f.kind \notin {"root", "migration"} => f.case \in Summary(s).roots
  BY <1>2, <1>3, <1>5
<1>9. Admits(Summary(s), f)
  BY <1>3, <1>4, <1>7, <1>8 DEF Admits
<1> QED
  BY <1>9 DEF f

\* An active target of a ruled attack, and the amendment of it
LEMMA AmendmentAdmitted ==
    ASSUME NEW s \in Seq(Facts), Admitted(s), NEW a \in Where(s, {"attack"}),
           NEW t \in AmendTargets(s, a), NEW f \in Facts, NEW g \in Facts,
           f.kind = "ruling" /\ f.attack = a /\ f.verdict = "amend" /\ f.case = s[a].case,
           g.kind = "amendment" /\ g.case = s[a].case /\ g.supersedes = t /\ g.source = Len(s) + 1
    PROVE  Admits(Summary(Append(s, f)), g)
<1> DEFINE u == Append(s, f)
           id == Len(s) + 1
<1>1. /\ Len(u) = id /\ u[id] = f /\ (\A i \in 1 .. Len(s) : u[i] = s[i]) /\ id \notin 1 .. Len(s)
      /\ Len(s) \in Nat
      /\ \A kinds : /\ Where(u, kinds) = Where(s, kinds) \cup IF f.kind \in kinds THEN {id} ELSE {}
                    /\ Where(s, kinds) \subseteq 1 .. Len(s)
  BY WhereAppend
<1> HIDE DEF u
<1>2. a \in 1 .. Len(s) /\ s[a].kind = "attack" /\ t \in s[a].targets /\ t \in ActiveIntents(s, s[a].case)
  BY DEF Where, AmendTargets
<1>3. t \in 1 .. Len(s) /\ s[t].kind \in Intents /\ s[t].case = s[a].case
  BY <1>2 DEF ActiveIntents, Within, Where
<1>4. s[a].case \in Cases(s)
  BY <1>2, CaseKnown
<1>5. Where(u, {"amendment"}) = Where(s, {"amendment"}) /\ Cases(u) = Cases(s)
  <2>1. ASSUME NEW kinds, f.kind \notin kinds PROVE Where(u, kinds) = Where(s, kinds)
    <3>1. Where(u, kinds) = Where(s, kinds) \cup {}
      BY <1>1, <2>1
    <3> QED
      BY <3>1
  <2> QED
    BY <2>1 DEF Cases
<1>6. \A i \in Where(u, {"amendment"}) : u[i] = s[i] /\ i \in Where(s, {"amendment"})
  BY <1>1, <1>5
<1>7. ASSUME NEW i \in Where(s, {"amendment"}) PROVE s[i].supersedes # t /\ s[i].source # id
  <2>1. i \in 1 .. Len(s) /\ s[s[i].supersedes].case = s[i].case /\ s[i].source \in 1 .. i - 1
    BY AmendsEarlier
  <2>2. s[i].source # id
    BY <1>1, <2>1
  <2>3. ASSUME s[i].supersedes = t PROVE FALSE
    <3>1. i \in Within(s, {"amendment"}, s[a].case)
      BY <1>3, <2>1, <2>3 DEF Within
    <3> QED
      BY <1>2, <2>3, <3>1 DEF ActiveIntents
  <2> QED
    BY <2>2, <2>3
<1>8. /\ Summary(u).prior = u /\ Summary(u).roots = Cases(u)
      /\ Summary(u).active = Where(u, Intents) \ {u[i].supersedes : i \in Where(u, {"amendment"})}
      /\ Summary(u).amended = {u[i].source : i \in Where(u, {"amendment"})}
  BY DEF Summary
<1>9. t \in Where(u, Intents)
  BY <1>1, <1>3 DEF Where
<1>10. t \in Summary(u).active /\ id \notin Summary(u).amended
  BY <1>6, <1>7, <1>8, <1>9
<1>11. t \in 1 .. Len(u) /\ id \in 1 .. Len(u) /\ u[t] = s[t] /\ u[a] = s[a]
  BY <1>1, <1>2, <1>3
<1>12. AdmitsAmendment(Summary(u), g)
  <2>1. Prior(Summary(u), g.supersedes, Intents, g.case)
    BY <1>3, <1>8, <1>11 DEF Prior
  <2>2. Prior(Summary(u), g.source, {"ruling"}, g.case)
    BY <1>1, <1>8, <1>11 DEF Prior
  <2>3. g.supersedes \in Summary(u).active /\ g.source \notin Summary(u).amended
    BY <1>10
  <2>4. Summary(u).prior[g.source] = f /\ Summary(u).prior[f.attack] = s[a]
    BY <1>1, <1>8, <1>11
  <2> QED
    BY <1>2, <2>1, <2>2, <2>3, <2>4 DEF AdmitsAmendment
<1>13. WellFormed(g) /\ g.case \in Summary(u).roots
  BY <1>4, <1>5, <1>8 DEF WellFormed
<1>14. Admits(Summary(u), g)
  BY <1>12, <1>13 DEF Admits
<1> QED
  BY <1>14 DEF u

\* rule
LEMMA RulingAccepted ==
    ASSUME NEW s \in Seq(Facts), ValidSequence(s), History(s), Latest(s), NEW b \in RulingBatches(s),
           ChoiceFits(s[b[1].attack].options, b[1].verdict, b[1].choice), WellFormed(b[1])
    PROVE  ValidSequence(s \o b)
<1> DEFINE v == WriteVersion(s)
           New(a, verdict, choice) == Ruling(v, s[a].case, a, verdict, choice, ActiveRuling(s, a))
<1>1. Admitted(s)
  BY ValidIffAdmitted
<1>2. b \in Seq(Facts)
  BY RulingBatch DEF Batch
<1>3. CASE \E a \in Where(s, {"attack"}), verdict \in Verdicts \ {"amend"}, choice \in Options \cup {None} :
              b = <<New(a, verdict, choice)>>
  <2>1. PICK a \in Where(s, {"attack"}), verdict \in Verdicts \ {"amend"}, choice \in Options \cup {None} :
            b = <<New(a, verdict, choice)>>
    BY <1>3
  <2> DEFINE f == New(a, verdict, choice)
  <2>2. f.kind = "ruling" /\ f.attack = a /\ f.verdict = verdict /\ f.choice = choice
    BY DEF Ruling
  <2>3. b = <<f>> /\ b[1] = f /\ f \in Facts
    <3>1. b = <<f>> /\ b[1] = f /\ Len(b) = 1
      BY <2>1
    <3> HIDE DEF f
    <3> QED
      BY <1>2, <3>1
  <2>4. ChoiceFits(s[a].options, verdict, choice) /\ WellFormed(f)
    <3> HIDE DEF f
    <3> QED
      BY <2>2, <2>3
  <2>5. Admits(Summary(s), f)
    BY <1>1, <2>4, RulingAdmitted
  <2> HIDE DEF f
  <2> QED
    BY <2>2, <2>3, <2>5, AcceptedOne
<1>4. CASE \E a \in Where(s, {"attack"}) : \E t \in AmendTargets(s, a) :
              "amend" \in Verdicts /\ b = <<New(a, "amend", None), Amendment(v, s[a].case, t, Len(s) + 1)>>
  <2>1. PICK a \in Where(s, {"attack"}) : \E t \in AmendTargets(s, a) :
            b = <<New(a, "amend", None), Amendment(v, s[a].case, t, Len(s) + 1)>>
    BY <1>4
  <2>2. PICK t \in AmendTargets(s, a) :
            b = <<New(a, "amend", None), Amendment(v, s[a].case, t, Len(s) + 1)>>
    BY <2>1
  <2> DEFINE f == New(a, "amend", None)
             g == Amendment(v, s[a].case, t, Len(s) + 1)
  <2>3. /\ f.kind = "ruling" /\ f.attack = a /\ f.verdict = "amend" /\ f.case = s[a].case /\ f.choice = None
        /\ g.kind = "amendment" /\ g.case = s[a].case /\ g.supersedes = t /\ g.source = Len(s) + 1
    BY DEF Ruling, Amendment
  <2>4. b = <<f, g>>
    BY <2>2
  <2> HIDE DEF f, g
  <2>5. b[1] = f /\ b[2] = g /\ Len(b) = 2 /\ f \in Facts /\ g \in Facts
    BY <1>2, <2>4
  <2>6. ChoiceFits(s[a].options, "amend", None) /\ WellFormed(f)
    BY <2>3, <2>5
  <2>7. Admits(Summary(s), f)
    BY <1>1, <2>6, RulingAdmitted DEF f
  <2>8. Admits(Summary(Append(s, f)), g)
    BY <1>1, <2>3, <2>5, AmendmentAdmitted
  <2>9. s \o b = Append(Append(s, f), g) /\ Append(s, f) \in Seq(Facts)
    BY <2>4, <2>5
  <2>10. Admitted(s \o b)
    <3>1. Admitted(Append(s, f))
      BY <1>1, <2>5, <2>7, AdmittedAppend
    <3> DEFINE u == Append(s, f)
    <3>2. u \in Seq(Facts) /\ Admitted(u) /\ Admits(Summary(u), g) /\ s \o b = Append(u, g)
      BY <2>8, <2>9, <3>1
    <3> HIDE DEF u
    <3> QED
      BY <2>5, <3>2, AdmittedAppend
  <2>11. ASSUME NEW i \in 1 .. Len(b), b[i].kind = "ruling"
         PROVE  \E k \in 1 .. Len(b) : b[k].kind = "amendment" /\ b[k].source = Len(s) + i
    <3>1. i = 1
      BY <2>3, <2>5, <2>11
    <3>2. 2 \in 1 .. Len(b) /\ b[2].kind = "amendment" /\ b[2].source = Len(s) + 1
      BY <2>3, <2>5
    <3> QED
      BY <3>1, <3>2
  <2> QED
    BY <1>2, <2>10, <2>11, Accepted
<1> QED
  BY <1>3, <1>4 DEF RulingBatches

\* outcome, and derive
LEMMA ClosingAccepted ==
    ASSUME NEW s \in Seq(Facts), ValidSequence(s), History(s),
           NEW b \in OutcomeBatches(s) \cup DerivationBatches(s)
    PROVE  ValidSequence(s \o b)
<1> DEFINE v == WriteVersion(s)
           Closing(f) == /\ f.kind \in {"outcome", "derivation"} /\ f.case \in Cases(s)
                         /\ f.kind = "outcome" /\ f.attack # None =>
                               f.attack \in Where(s, {"attack"}) /\ s[f.attack].case = f.case
                         /\ f.kind = "derivation" => f.head = Len(s)
<1>1. Admitted(s)
  BY ValidIffAdmitted
<1>2. \E f : b = <<f>> /\ Closing(f)
  <2>1. ASSUME NEW c \in Cases(s) PROVE Closing(Outcome(v, c, None)) /\ Closing(Derivation(v, c, Len(s)))
    BY DEF Outcome, Derivation
  <2>2. ASSUME NEW a \in Where(s, {"attack"}) PROVE Closing(Outcome(v, s[a].case, a))
    <3>1. a \in 1 .. Len(s) /\ s[a].kind = "attack"
      BY DEF Where
    <3>2. s[a].case \in Cases(s)
      BY <1>1, <3>1, CaseKnown
    <3> QED
      BY <3>2 DEF Outcome
  <2> QED
    BY <2>1, <2>2 DEF OutcomeBatches, DerivationBatches
<1>3. PICK f : b = <<f>> /\ Closing(f)
  BY <1>2
<1>4. f \in Facts
  <2>1. b \in Seq(Facts) /\ Len(b) = 1 /\ b[1] = f
    BY <1>3, ClosingBatch DEF Batch
  <2> QED
    BY <2>1
<1>5. Admits(Summary(s), f)
  <2>1. Summary(s).prior = s /\ Summary(s).roots = Cases(s)
    BY DEF Summary
  <2>2. f.kind = "outcome" /\ f.attack # None => Prior(Summary(s), f.attack, {"attack"}, f.case)
    BY <1>3, <2>1 DEF Prior, Where
  <2>3. s # <<>>
    BY <1>3 DEF Cases, Where
  <2>4. WellFormed(f)
    BY <1>3 DEF WellFormed
  <2> QED
    BY <1>3, <2>1, <2>2, <2>3, <2>4 DEF Admits
<1> QED
  BY <1>3, <1>4, <1>5, AcceptedOne

\* The attacks of a selected round, which are admitted one after the other
LEMMA RoundAdmitted ==
    ASSUME NEW s \in Seq(Facts), Admitted(s), NEW v \in {1, 2}, NEW case \in Cases(s), NEW n \in Nat,
           v = 1 => n <= 2, NEW b \in Selections(s, v, case, n)
    PROVE  /\ b \in Seq(Facts) /\ Admitted(s \o b)
           /\ \A i \in 1 .. Len(b) : b[i].kind = "attack" /\ b[i].case = case /\ b[i].round = n
<1> DEFINE C == {Attack(v, case, n, targets, options) :
                    targets \in (SUBSET Within(s, Intents, case)) \ {{}}, options \in {{}, Options}}
<1>1. ASSUME NEW f \in C
      PROVE  /\ f \in Facts /\ f.kind = "attack" /\ f.case = case /\ f.round = n /\ f.v = v
             /\ f.targets # {} /\ f.targets \subseteq Within(s, Intents, case)
  <2>1. PICK targets \in (SUBSET Within(s, Intents, case)) \ {{}}, options \in {{}, Options} :
            f = Attack(v, case, n, targets, options)
    OBVIOUS
  <2>2. targets \subseteq Nat /\ case \in Nat /\ options \subseteq Options
    BY DEF Within, Where, Cases
  <2> QED
    BY <2>1, <2>2 DEF Attack, Facts
<1>2. b \in UNION {[1 .. j -> C] : j \in 0 .. MaxAttacks}
  BY DEF Selections
<1> HIDE DEF C
<1>3. PICK j \in 0 .. MaxAttacks : b \in [1 .. j -> C]
  BY <1>2
<1>4. b \in Seq(C) /\ Len(b) = j
  BY <1>3, CaseAssumption
<1>5. b \in Seq(Facts) /\ \A i \in 1 .. Len(b) : b[i] \in C
  BY <1>1, <1>4
<1>6. ASSUME NEW i \in 1 .. Len(b) PROVE Admits(Summary(s \o SubSeq(b, 1, i - 1)), b[i])
  <2> DEFINE w == SubSeq(b, 1, i - 1)
             u == s \o w
  <2>1. w \in Seq(Facts)
    BY <1>5
  <2>2. Len(u) >= Len(s) /\ Len(s) \in Nat /\ Len(u) \in Nat /\ \A k \in 1 .. Len(s) : u[k] = s[k]
    BY <2>1
  <2> HIDE DEF u
  <2>3. Summary(u).prior = u /\ Summary(u).roots = Cases(u)
    BY DEF Summary
  <2>4. case \in Cases(u)
    BY <2>2 DEF Cases, Where
  <2>5. \A t \in b[i].targets : Prior(Summary(u), t, Intents, case)
    <3>1. \A t \in Within(s, Intents, case) :
             t \in 1 .. Len(s) /\ s[t].kind \in Intents /\ s[t].case = case
      BY DEF Within, Where
    <3>2. \A t \in Within(s, Intents, case) :
             t \in 1 .. Len(u) /\ u[t].kind \in Intents /\ u[t].case = case
      BY <2>2, <3>1
    <3>3. b[i].targets \subseteq Within(s, Intents, case)
      BY <1>1, <1>5
    <3> QED
      BY <2>3, <3>2, <3>3 DEF Prior
  <2>6. WellFormed(b[i])
    BY <1>1, <1>5 DEF WellFormed
  <2>7. Admits(Summary(u), b[i])
    BY <1>1, <1>5, <2>3, <2>4, <2>5, <2>6 DEF Admits
  <2> QED
    BY <2>7 DEF u
<1> QED
  BY <1>1, <1>5, <1>6, Extended

\* review add, with version 1
LEMMA ReviewV1Accepted ==
    ASSUME NEW s \in Seq(Facts), ValidSequence(s), NEW b \in ReviewBatchesV1(s)
    PROVE  ValidSequence(s \o b)
<1>1. PICK case \in Cases(s), n \in 1 .. 2 : b \in Selections(s, 1, case, n)
  BY DEF ReviewBatchesV1
<1>2. Admitted(s) /\ n \in Nat /\ n <= 2
  BY ValidIffAdmitted
<1>3. b \in Seq(Facts) /\ Admitted(s \o b) /\ \A i \in 1 .. Len(b) : b[i].kind = "attack"
  BY <1>1, <1>2, RoundAdmitted
<1> QED
  BY <1>3, Accepted

\* review add, with version 2
LEMMA ReviewV2Accepted ==
    ASSUME NEW s \in Seq(Facts), ValidSequence(s), NEW b \in ReviewBatchesV2(s)
    PROVE  ValidSequence(s \o b)
<1>1. PICK case \in Cases(s), n \in 1 .. MaxFacts, max \in Policies : b \in RoundsV2(s, case, n, max)
  BY DEF ReviewBatchesV2
<1> DEFINE recorded == {s[i].round : i \in Within(s, {"review_round"}, case)}
           Record(a) == ReviewRound(case, n, max, {Len(s) + i : i \in 1 .. Len(a)})
<1>2. RoundGate(s, case, n, max, recorded)
  BY <1>1 DEF RoundsV2
<1>3. n <= max /\ n \notin recorded
  BY <1>2 DEF RoundGate
<1>4. PICK a \in Selections(s, 2, case, n) : b = a \o <<Record(a)>>
  BY <1>1, <1>2 DEF RoundsV2
<1>5. Admitted(s) /\ n \in Nat /\ max \in Nat /\ case \in Nat
  BY ValidIffAdmitted, CaseAssumption DEF Cases, Where
<1>6. /\ a \in Seq(Facts) /\ Admitted(s \o a)
      /\ \A i \in 1 .. Len(a) : a[i].kind = "attack" /\ a[i].case = case /\ a[i].round = n
  BY <1>5, RoundAdmitted
<1> DEFINE r == Record(a)
           u == s \o a
<1>7. /\ r.kind = "review_round" /\ r.case = case /\ r.round = n /\ r.max = max
      /\ r.selected = {Len(s) + i : i \in 1 .. Len(a)} /\ r \in Facts
  <2>1. {Len(s) + i : i \in 1 .. Len(a)} \subseteq Nat
    BY <1>6
  <2> QED
    BY <1>5, <2>1 DEF ReviewRound, Facts
<1> HIDE DEF r
<1>8. /\ u \in Seq(Facts) /\ Len(u) = Len(s) + Len(a) /\ Len(s) \in Nat /\ Len(a) \in Nat
      /\ \A i \in 1 .. Len(s) : u[i] = s[i]
      /\ \A i \in 1 .. Len(a) : u[Len(s) + i] = a[i]
  BY <1>6
<1>9. Append(u, r) = s \o b /\ b \in Seq(Facts)
  <2>1. b = a \o <<r>>
    BY <1>4 DEF r
  <2> HIDE DEF u
  <2>2. Append(u, r) = u \o <<r>> /\ <<r>> \in Seq(Facts) /\ b \in Seq(Facts)
    BY <1>6, <1>7, <1>8, <2>1
  <2>3. (s \o a) \o <<r>> = s \o (a \o <<r>>)
    BY <1>6, <2>2
  <2> QED
    BY <2>1, <2>2, <2>3 DEF u
<1> HIDE DEF u
<1>10. /\ Summary(u).prior = u /\ Summary(u).roots = Cases(u)
       /\ Summary(u).rounds = {<<u[i].case, u[i].round>> : i \in Where(u, {"review_round"})}
  BY DEF Summary
<1>11. \A i \in Where(u, {"review_round"}) : i \in Where(s, {"review_round"}) /\ u[i] = s[i]
  <2> SUFFICES ASSUME NEW i \in Where(u, {"review_round"})
               PROVE  i \in Where(s, {"review_round"}) /\ u[i] = s[i]
    OBVIOUS
  <2>1. i \in 1 .. Len(u) /\ u[i].kind = "review_round"
    BY DEF Where
  <2>2. CASE i <= Len(s)
    BY <1>8, <2>1, <2>2 DEF Where
  <2>3. CASE i > Len(s)
    <3>1. i - Len(s) \in 1 .. Len(a) /\ i = Len(s) + (i - Len(s))
      BY <1>8, <2>1, <2>3
    <3>2. u[i].kind = "attack"
      BY <1>6, <1>8, <3>1
    <3> QED
      BY <2>1, <3>2
  <2>4. i <= Len(s) \/ i > Len(s)
    BY <1>8, <2>1
  <2> QED
    BY <2>2, <2>3, <2>4
<1>12. <<case, n>> \notin Summary(u).rounds
  <2>1. \A i \in Where(u, {"review_round"}) : u[i].case = case => u[i].round # n
    <3> SUFFICES ASSUME NEW i \in Where(u, {"review_round"}), u[i].case = case, u[i].round = n
                 PROVE  FALSE
      OBVIOUS
    <3>1. i \in Within(s, {"review_round"}, case) /\ s[i].round = n
      BY <1>11 DEF Within
    <3> QED
      BY <1>3, <3>1
  <2> QED
    BY <1>10, <2>1
<1>13. AdmitsRound(Summary(u), r)
  <2>1. ASSUME NEW x \in r.selected
        PROVE  Prior(Summary(u), x, {"attack"}, case) /\ Summary(u).prior[x].round = n
    <3>1. PICK i \in 1 .. Len(a) : x = Len(s) + i
      BY <1>7, <2>1
    <3>2. x \in 1 .. Len(u) /\ u[x] = a[i]
      BY <1>8, <3>1
    <3> QED
      BY <1>6, <1>10, <3>2 DEF Prior
  <2> QED
    BY <1>7, <1>12, <2>1 DEF AdmitsRound
<1>14. Admits(Summary(u), r)
  <2>1. case \in Cases(u)
    BY <1>8 DEF Cases, Where
  <2>2. WellFormed(r)
    BY <1>3, <1>7 DEF WellFormed
  <2> QED
    BY <1>7, <1>10, <1>13, <2>1, <2>2 DEF Admits
<1>15. Admitted(Append(u, r))
  BY <1>6, <1>7, <1>8, <1>14, AdmittedAppend DEF u
<1>16. \A i \in 1 .. Len(b) : b[i].kind # "ruling"
  <2> SUFFICES ASSUME NEW i \in 1 .. Len(b) PROVE b[i].kind # "ruling"
    OBVIOUS
  <2>1. Len(b) = Len(a) + 1 /\ b[Len(a) + 1] = r /\ \A k \in 1 .. Len(a) : b[k] = a[k]
    BY <1>4, <1>6 DEF r
  <2>2. i \in 1 .. Len(a) \/ i = Len(a) + 1
    BY <1>6, <2>1
  <2> QED
    BY <1>6, <1>7, <2>1, <2>2
<1> QED
  BY <1>9, <1>15, <1>16, Accepted

\* On no ledger that commands lead to does build_ruling_batch, append_attack_round,
\* build_outcome or submit_derivation make a batch that validate_fact_sequence
\* refuses, but for a choice the attack lacks or a ruling its own model refuses.
THEOREM BuiltIsAccepted == Spec => []BuildersAccepted
<1>1. IInv /\ ValidSequence(facts) => BuildersAccepted
  <2> SUFFICES ASSUME IInv, ValidSequence(facts) PROVE BuildersAccepted
    OBVIOUS
  <2>1. facts \in Seq(Facts) /\ History(facts) /\ Latest(facts)
    BY DEF IInv
  <2>2. ASSUME NEW b \in RulingBatches(facts),
               ChoiceFits(facts[b[1].attack].options, b[1].verdict, b[1].choice), WellFormed(b[1])
        PROVE  ValidSequence(facts \o b)
    BY <2>1, <2>2, RulingAccepted
  <2>3. \A b \in ReviewBatchesV1(facts) : ValidSequence(facts \o b)
    BY <2>1, ReviewV1Accepted
  <2>4. \A b \in ReviewBatchesV2(facts) : ValidSequence(facts \o b)
    BY <2>1, ReviewV2Accepted
  <2>5. \A b \in OutcomeBatches(facts) \cup DerivationBatches(facts) : ValidSequence(facts \o b)
    BY <2>1, ClosingAccepted
  <2> QED
    BY <2>2, <2>3, <2>4, <2>5 DEF BuildersAccepted
<1> QED
  BY <1>1, LegalInvariant, PTL

=============================================================================
