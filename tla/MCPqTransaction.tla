---------------------------- MODULE MCPqTransaction ----------------------------
(* The constants of the transaction objects for TLC. *)
EXTENDS PqTransaction, TLC

(* Objects differ in their names only. *)
AnyOrder == Permutations(Tx)
=============================================================================
