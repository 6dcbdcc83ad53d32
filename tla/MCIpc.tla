------------------------------- MODULE MCIpc -------------------------------
(* Small instances of Ipc: a task that interrupt handlers inform and       *)
(* processes that differ in nothing but their names.                       *)
EXTENDS Ipc

MCSymmetry == Permutations(Proc \ IntTask)
=============================================================================
