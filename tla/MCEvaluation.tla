---------------------------- MODULE MCEvaluation ----------------------------
(***************************************************************************)
(* A small instance of Evaluation: two classes of reviewers, two rounds    *)
(* and answers that take every path of both conditions.                    *)
(***************************************************************************)
EXTENDS Evaluation

Candidate(k, settles, cost, digest, content) ==
    [klass |-> k, settles |-> settles, silent |-> 1, cost |-> cost, digest |-> digest,
     content |-> content, id |-> digest]

TwoClasses == {"omission", "prototype"}

o1 == Candidate("omission", 1, "trivial", 1, 1)
o2 == Candidate("omission", 2, "cheap", 2, 2)
q1 == Candidate("prototype", 1, "expensive", 3, 3)

\* The same review once more
twin == [o2 EXCEPT !.id = 9]

\* Every composition rule can bind, and scores tie, also where the digests differ in order
EightCandidates ==
    {o1, o2, q1, Candidate("omission", 1, "trivial", 4, 5), Candidate("prototype", 1, "trivial", 5, 4),
     Candidate("boundary", 2, "cheap", 6, 6), Candidate("boundary", 3, "expensive", 7, 7),
     Candidate("conflict", 1, "expensive", 8, 8)}

Offers(k, round) ==
    CASE k = "prototype" -> IF round = 1 THEN {{}, {q1}} ELSE {{}}
      [] k = "omission" -> IF round = 1 THEN {{}, {o1}} ELSE {{o1}, {o2}, {o2, twin}}

SmallAnswers(id, request) ==
    CASE id[1] = "reviewer" -> {<<"ok", S>> : S \in Offers(id[2], id[3])} \cup
                               IF id[3] = 1 THEN {<<"bad">>} ELSE {}
      [] id[1] = "selector" -> {<<"ok", <<>>>>} \cup
                               IF Repeats(request) THEN {} ELSE {<<"ok", SelectReviews(request)>>}
      [] id[1] = "principal" -> {<<"ok", "intended">>, <<"leak", "intended">>} \cup
                                IF request[1] = o1 THEN {<<"ok", "amend">>} ELSE {}
      [] id[1] = "scorer" -> {<<"ok", "complete">>, <<"bad">>}
      [] id[1] = "naive_baseline" -> {<<"ok", <<>>>>} \cup
                                     IF id[2] = 1 \/ request # <<>> THEN {<<"ok", <<"q">>>>} ELSE {}
      [] id[1] = "baseline_principal" -> {<<"ok", "a">>, <<"leak", "a">>}
      [] OTHER -> {<<"ok", request>>}

Labels == {<<"falsiq", "vague", "baseline">>}
Judging == {<<"vague", "baseline", "falsiq">>}

=============================================================================
