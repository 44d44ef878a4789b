------------------------------ MODULE MCFinalDelivery ------------------------------
(* Small instances of FinalDelivery for TLC. *)
EXTENDS FinalDelivery, TLC

\* The answer grew by a chunk when v0.14 split it for presentation.
SmallChunks == [answer |-> 3, legacy |-> 2, other |-> 1]

\* Executions differ only by what they computed, which Init chooses.
ExecutorSymmetry == Permutations(Executors)

=============================================================================
