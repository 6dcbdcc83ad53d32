------------------------------ MODULE MCFiles ------------------------------
(* Small instances of Files: names of one length differ in nothing else,   *)
(* nor do the processes that run from the start.                           *)
EXTENDS Files, TLC

MCSymmetry == Permutations(Name \ LongName) \cup Permutations(Proc)
=============================================================================
