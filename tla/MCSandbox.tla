------------------------------ MODULE MCSandbox -----------------------------
(***************************************************************************)
(* Small instances of Sandbox: interchangeable processes and ids.          *)
(***************************************************************************)
EXTENDS Sandbox

Symmetry == Permutations(Proc) \cup Permutations(Id)

=============================================================================
