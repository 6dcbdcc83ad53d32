------------------------------ MODULE Bitmaps ------------------------------
(***************************************************************************)
(* The inode map and the sector map on disk, bit by bit: alloc_imap_bit    *)
(* and alloc_smap_bit (fs/open.c) when a file is created, the loops of     *)
(* do_unlink (fs/link.c) when one is removed, both by way of fsbuf.        *)
(*                                                                         *)
(* The bits of a map are numbered through its sectors; a map is the set of *)
(* those that are 1.  The one sector of the inode map is imap.  Bit b of   *)
(* the sector map stands for sector n_1st_sect + b - 1; bit 0 is reserved. *)
(***************************************************************************)
EXTENDS DiskMaps, FiniteSets

VARIABLES
    imap, smap,
    fsbuf,          \* the sector of the sector map read last, a set of bits
    op              \* the local variables of the function FS is in, and where

vars == <<nr_smap_sects, imap, smap, start, fsbuf, op, failed>>

Idle == [pc |-> "idle"]

\* mkfs: the root directory has the first extent.
Init ==
    /\ nr_smap_sects \in SmapSects
    /\ imap = 0 .. FIRST_INODE - 1
    /\ smap = 0 .. NR_SECTS
    /\ start = [n \in FileInode |-> 0]
    /\ fsbuf = {}
    /\ op = Idle
    /\ failed = "no"

Least(S) == CHOOSE x \in S : \A y \in S : x <= y

min(a, b) == IF a < b THEN a ELSE b

\* RD_SECT and WR_SECT of sector s of the sector map.
Read(s) == {b \in 0 .. SECTOR_BITS - 1 : s * SECTOR_BITS + b \in smap}

Write(s, bits) ==
    {b \in smap : b \div SECTOR_BITS # s} \cup {s * SECTOR_BITS + b : b \in bits}

At(pc) == failed = "no" /\ op.pc = pc

Asserts(ok) == failed' = IF ok THEN failed ELSE "assert"

-----------------------------------------------------------------------------
(***************************************************************************)
(* create_file.                                                            *)
(***************************************************************************)

\* alloc_imap_bit: of a full map it returns 0 (the panic comes after return).
AllocInode ==
    LET free == (0 .. SECTOR_BITS - 1) \ imap
        n    == IF free = {} THEN 0 ELSE Least(free)
    IN
    /\ At("idle")
    /\ imap' = imap \cup {n}
    /\ op' = [pc |-> "scan", inode |-> n, i |-> 0, left |-> NR_SECTS, first |-> 0]
    /\ UNCHANGED <<nr_smap_sects, smap, start, fsbuf, failed>>

\* alloc_smap_bit, sector i: it looks for the first 0 unless it has found it,
\* and takes the bits from there, or from the start, on; first is nr_free_sect.
ScanSector ==
    LET bits == Read(op.i)
        free == (0 .. SECTOR_BITS - 1) \ bits
        from == IF op.first # 0 THEN 0 ELSE Least(free)
        took == from .. min(from + op.left, SECTOR_BITS) - 1
    IN
    /\ At("scan") /\ op.i < nr_smap_sects /\ op.left > 0
    /\ IF op.first = 0 /\ free = {}
       THEN /\ fsbuf' = bits
            /\ op' = [op EXCEPT !.i = @ + 1]
            /\ UNCHANGED <<smap, failed>>
       ELSE /\ Asserts(took \cap bits = {})
            /\ fsbuf' = bits \cup took
            /\ smap' = Write(op.i, fsbuf')
            /\ op' = [op EXCEPT !.i = @ + 1, !.left = @ - Cardinality(took),
                                !.first = IF @ = 0 THEN op.i * SECTOR_BITS + from ELSE @]
    /\ UNCHANGED <<nr_smap_sects, imap, start>>

\* assert(nr_sects_to_alloc == 0); then new_inode, where inode 0 is a null
\* pointer.
NewInode ==
    /\ At("scan") /\ (op.i = nr_smap_sects \/ op.left = 0)
    /\ op' = Idle
    /\ IF op.left > 0 \/ op.inode = 0
       THEN failed' = (IF op.left > 0 THEN "assert" ELSE "null") /\ UNCHANGED start
       ELSE start' = [start EXCEPT ![op.inode] = op.first] /\ UNCHANGED failed
    /\ UNCHANGED <<nr_smap_sects, imap, smap, fsbuf>>

-----------------------------------------------------------------------------
(***************************************************************************)
(* do_unlink of a file that is not open.                                   *)
(***************************************************************************)

\* The bit of imap, and the first byte: of its bits, those of the extent.
FreeFirst(n) ==
    LET bit  == start[n]
        byte == bit \div BITS
        s    == byte \div SECTOR_SIZE
        i    == byte % SECTOR_SIZE
        k    == bit % BITS
        gone == i * BITS + k .. i * BITS + min(k + NR_SECTS, BITS) - 1
    IN
    /\ At("idle") /\ bit # 0
    /\ Asserts(n \in imap /\ gone \subseteq Read(s))
    /\ imap' = imap \ {n}
    /\ fsbuf' = Read(s) \ gone
    /\ op' = [pc |-> "free", inode |-> n, s |-> s, i |-> i + 1,
              bytes |-> (NR_SECTS - (BITS - k)) \div BITS,
              left |-> NR_SECTS - Cardinality(gone)]
    /\ UNCHANGED <<nr_smap_sects, smap, start>>

\* Mutant: at the end of a sector the next is read, and this one not written.
NextUnwritten(bits) ==
    LET over == op.i = SECTOR_SIZE
        s    == IF over THEN op.s + 1 ELSE op.s
        i    == IF over THEN 0 ELSE op.i
        old  == IF over THEN Read(s) ELSE fsbuf
        gone == {i * BITS + b : b \in bits}
    IN
    /\ Asserts(gone \subseteq old)
    /\ fsbuf' = old \ gone
    /\ op' = [op EXCEPT !.s = s, !.i = i + 1, !.bytes = @ - 1, !.left = @ - Cardinality(bits)]
    /\ UNCHANGED smap

\* The next byte loses its bits; at the end of a sector that one is written and
\* the byte is the first of the next.
NextByte(bits) ==
    LET over == op.i = SECTOR_SIZE
        s    == IF over THEN op.s + 1 ELSE op.s
        i    == IF over THEN 0 ELSE op.i
        old  == IF over THEN Read(s) ELSE fsbuf
        gone == {i * BITS + b : b \in bits}
    IN
    /\ Asserts(gone \subseteq old)
    /\ fsbuf' = old \ gone
    /\ smap' = IF over THEN Write(op.s, fsbuf) ELSE smap
    /\ op' = [op EXCEPT !.s = s, !.i = i + 1, !.bytes = @ - 1, !.left = @ - Cardinality(bits)]

FreeByte ==
    /\ At("free") /\ op.bytes > 0
    /\ NextByte(0 .. BITS - 1)
    /\ UNCHANGED <<nr_smap_sects, imap, start>>

FreeLast ==
    /\ At("free") /\ op.bytes = 0
    /\ NextByte(0 .. op.left - 1)
    /\ UNCHANGED <<nr_smap_sects, imap, start>>

\* The last sector is written, and the inode cleared.
FreeInode ==
    /\ At("free") /\ op.bytes < 0
    /\ smap' = Write(op.s, fsbuf)
    /\ start' = [start EXCEPT ![op.inode] = 0]
    /\ op' = Idle
    /\ UNCHANGED <<nr_smap_sects, imap, fsbuf, failed>>

-----------------------------------------------------------------------------
Next ==
    \/ AllocInode \/ ScanSector \/ NewInode
    \/ (\E n \in FileInode : FreeFirst(n)) \/ FreeByte \/ FreeLast \/ FreeInode

Spec == Init /\ [][Next]_vars

=============================================================================
