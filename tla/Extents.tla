------------------------------ MODULE Extents ------------------------------
(***************************************************************************)
(* What the two bit maps of the disk are to the rest of FS (Files): inodes *)
(* and extents are given out lowest first, each to one file at a time, and *)
(* come back when the file is removed.  FS stops when there are none left. *)
(***************************************************************************)
EXTENDS Naturals

CONSTANTS Num         \* the inodes for files

VARIABLES room,       \* the extents for files are 1 .. room
          owned,      \* owned[n]: the extent of inode n, or 0
          stopped

vars == <<room, owned, stopped>>

FreeInodes  == {n \in Num : owned[n] = 0}
FreeExtents == {x \in 1 .. room : \A n \in Num : owned[n] # x}

Least(S) == CHOOSE x \in S : \A y \in S : x <= y

Init ==
    /\ room \in Nat
    /\ owned = [n \in Num |-> 0]
    /\ stopped = FALSE

Create ==
    /\ ~ stopped /\ FreeInodes # {} /\ FreeExtents # {}
    /\ owned' = [owned EXCEPT ![Least(FreeInodes)] = Least(FreeExtents)]
    /\ UNCHANGED <<room, stopped>>

Full ==
    /\ ~ stopped /\ (FreeInodes = {} \/ FreeExtents = {})
    /\ stopped' = TRUE
    /\ UNCHANGED <<room, owned>>

Remove(n) ==
    /\ ~ stopped /\ owned[n] # 0
    /\ owned' = [owned EXCEPT ![n] = 0]
    /\ UNCHANGED <<room, stopped>>

Next == Create \/ Full \/ \E n \in Num : Remove(n)

Spec == Init /\ [][Next]_vars
=============================================================================
