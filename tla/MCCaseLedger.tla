---------------------------- MODULE MCCaseLedger ----------------------------
(***************************************************************************)
(* Small instances of CaseLedger: the processes are interchangeable.       *)
(***************************************************************************)
EXTENDS CaseLedger

Symmetry == Permutations(Proc)

=============================================================================
