------------------------------ MODULE Selection -----------------------------
(***************************************************************************)
(* The selection policy of a review round: which of the candidates of the  *)
(* reviewers become attacks.  It is written twice in the repository: the   *)
(* product assembles rounds with attacks.py, the evaluation harness checks *)
(* its selector with a policy of its own.  The reviewers' files are        *)
(* validated one by one, then assembled.                                   *)
(*                                                                         *)
(* A candidate is a record of its class, its counts of settled and silent  *)
(* decisions, its render cost, and the two digests that break ties: of the *)
(* record that the product keeps, and of its content as the harness has    *)
(* it, without the review id.                                              *)
(***************************************************************************)
EXTENDS Naturals, FiniteSets, FiniteSetsExt, SequencesExt

CONSTANTS
    Class,      \* the classes of reviews, one reviewer each
    Garbage     \* a file that holds no batch

MaxSelected == 3

-----------------------------------------------------------------------------
\* How candidates are compared under a policy p, which gives each a score and a digest

Total(score, S) == MapThenSumSet(LAMBDA c : score[c], S)

OfClass(S, k) == {c \in S : c.klass = k}

ManyClasses(S) == \E c, d \in S : c.klass # d.klass

RanksBefore(p, c, d) ==
    \/ p.score[c] > p.score[d]
    \/ p.score[c] = p.score[d] /\ p.digest[c] < p.digest[d]

\* Sorted by score and digest: at each position the candidate with as many before it
Ranked(p, S) ==
    [i \in 1 .. Cardinality(S) |->
        CHOOSE c \in S : Cardinality({d \in S : RanksBefore(p, d, c)}) = i - 1]

\* The sorted digests of S come before those of T, a set of the same size
Precedes(p, S, T) ==
    \E c \in S \ T : \A d \in (S \cup T) \ (S \cap T) : p.digest[c] <= p.digest[d]

Best(p, sets) == {S \in sets : \A T \in sets : Total(p.score, T) <= Total(p.score, S)}

Least(p, sets) == CHOOSE S \in sets : \A T \in sets \ {S} : Precedes(p, S, T)

-----------------------------------------------------------------------------
\* The product: attacks.py

\* candidate_score, in ninths
CandidateScore(c) ==
    LET units == CASE c.cost = "trivial" -> 9 [] c.cost = "cheap" -> 3 [] OTHER -> 1
    IN  (c.settles + c.silent) * units

ProductOrder(S) == [score |-> [c \in S |-> CandidateScore(c)], digest |-> [c \in S |-> c.digest]]

\* _composition_is_valid
CompositionIsValid(S) ==
    /\ Cardinality(S) <= MaxSelected
    /\ Cardinality(S) > 1 => ManyClasses(S)
    /\ Cardinality(OfClass(S, "prototype")) <= 1
    /\ Cardinality(OfClass(S, "omission")) <= 2

\* _select_records: sizes from three down, the first with a valid set
SelectRecords(S) ==
    LET Valid(n) == {T \in kSubset(n, S) : CompositionIsValid(T)}
        size == CHOOSE n \in 1 .. MaxSelected :
                    Valid(n) # {} /\ \A m \in n + 1 .. MaxSelected : Valid(m) = {}
    IN  IF S = {} THEN <<>>
        ELSE Ranked(ProductOrder(S), Least(ProductOrder(S), Best(ProductOrder(S), Valid(size))))

-----------------------------------------------------------------------------
\* The harness: _select_reviews

\* The cost divides, again in ninths
ReviewScore(c) ==
    LET costs == [trivial |-> 1, cheap |-> 3, expensive |-> 9]
    IN  ((c.settles + c.silent) * 9) \div costs[c.cost]

HarnessOrder(S) == [score |-> [c \in S |-> ReviewScore(c)], digest |-> [c \in S |-> c.content]]

\* Two reviews with one content, which it refuses
Repeats(S) == \E c, d \in S : c # d /\ c.content = d.content

\* Variant: two omissions are one too many
AllowsOneOmission(S) ==
    /\ Cardinality(S) <= 1 \/ ManyClasses(S)
    /\ Cardinality(OfClass(S, "prototype")) <= 1
    /\ Cardinality(OfClass(S, "omission")) <= 1

Allows(S) ==
    /\ Cardinality(S) <= 1 \/ ManyClasses(S)
    /\ Cardinality(OfClass(S, "prototype")) <= 1
    /\ Cardinality(OfClass(S, "omission")) <= 2

\* All feasible sets first, then the largest of them
SelectReviews(S) ==
    LET feasible == {T \in UNION {kSubset(n, S) : n \in 1 .. MaxSelected} : Allows(T)}
        largest == {T \in feasible : \A U \in feasible : Cardinality(U) <= Cardinality(T)}
    IN  IF feasible = {} THEN <<>>
        ELSE Ranked(HarnessOrder(S), Least(HarnessOrder(S), Best(HarnessOrder(S), largest)))

-----------------------------------------------------------------------------
\* Files of reviewers.  A batch names its class and lists its candidates, which
\* its schema requires to be of that class.

Batch(k, s) == [reviewer |-> k, candidates |-> s]

\* Variant: a batch of another role is taken for this one's
PrepareAnyRole(k, raw) ==
    IF raw # Garbage /\ \A i \in DOMAIN raw.candidates : raw.candidates[i].klass = raw.reviewer
    THEN raw ELSE Batch(k, <<>>)

\* prepare_review_batch: anything but a batch of this reviewer becomes the empty one
Prepare(k, raw) ==
    IF raw # Garbage /\ raw.reviewer = k /\ \A i \in DOMAIN raw.candidates : raw.candidates[i].klass = k
    THEN raw ELSE Batch(k, <<>>)

\* assemble_attack_round, and _assemble_from_values of the RPC: one batch for
\* each class, and no candidate twice
Assembles(batches) ==
    /\ {b.reviewer : b \in batches} = Class /\ Cardinality(batches) = Cardinality(Class)
    /\ \A b \in batches : IsInjective(b.candidates)

=============================================================================
