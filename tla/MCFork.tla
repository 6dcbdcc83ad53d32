------------------------------- MODULE MCFork -------------------------------
(* A small instance of Fork: the first process and its first child fork,    *)
(* each as often as there are slots and once more; the others only live.    *)
EXTENDS Fork, TLC

MCProgram == InitProc :> {"FORK"} @@ 1 :> {"FORK", "FILE"} @@ 2 :> {} @@ 3 :> {}
=============================================================================
