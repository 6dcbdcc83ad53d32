----------------------------- MODULE MCReadWrite -----------------------------
(* A small instance of ReadWrite: two files of three sectors of two bytes,   *)
(* a buffer of two sectors; the first file is open twice, the second once,   *)
(* and once without O_RDWR.                                                  *)
EXTENDS ReadWrite, TLC

MCFileOf == 1 :> 1 @@ 2 :> 1 @@ 3 :> 2 @@ 4 :> 2
MCData == {<<1, 2, 3, 4, 5, 6, 7>>, <<7, 6, 5, 4, 3, 2, 1>>}
=============================================================================
