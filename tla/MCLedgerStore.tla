--------------------------- MODULE MCLedgerStore ---------------------------
(***************************************************************************)
(* Small instances of LedgerStore: processes and batches are sets of model *)
(* values, interchangeable in every safety property.                       *)
(***************************************************************************)
EXTENDS LedgerStore, TLC

Symmetry == Permutations(Proc) \cup Permutations(Batch)

=============================================================================
