---------------------------- MODULE MCDerivePublish -------------------------
(***************************************************************************)
(* Small instances of DerivePublish: two responses that share their stubs  *)
(* and one that does not, and interchangeable processes.                   *)
(***************************************************************************)
EXTENDS DerivePublish

CONSTANTS t1, t2, s1, s2

SmallResponses == {[text |-> t1, stubs |-> s1], [text |-> t2, stubs |-> s1]}
MixedResponses == {[text |-> t1, stubs |-> s1], [text |-> t2, stubs |-> s2]}
Symmetry == Permutations(Proc)

=============================================================================
