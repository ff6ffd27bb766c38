--------------------------- MODULE MCCorpusRelease --------------------------
(***************************************************************************)
(* Small instances of CorpusRelease: a corpus of two tasks in one stratum, *)
(* one of which is held out; a later edition of one task, and a corpus     *)
(* that nobody has approved.                                               *)
(***************************************************************************)
EXTENDS CorpusRelease, TLC

CONSTANTS t1, t2, old, new

SmallTasks == {t1, t2}
OneStratum == {"mined"}
TwoTasks == [s \in OneStratum |-> 2]
OneHeld == [s \in OneStratum |-> 1]

Edition(body, curated) ==
    [t \in SmallTasks |->
        [stratum |-> "mined", curated |-> curated, body |-> IF t = t1 THEN body ELSE old]]

SmallCorpora == {Edition(old, TRUE), Edition(new, TRUE), Edition(new, FALSE)}

Symmetry == Permutations(Release) \cup Permutations(PublicPath) \cup Permutations(PrivatePath)

=============================================================================
