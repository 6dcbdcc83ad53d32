------------------------------ MODULE DiskMaps ------------------------------
(***************************************************************************)
(* What the bits of the two maps on disk are about: which file has which   *)
(* extent.  Bitmaps says how FS sets and clears the bits.                  *)
(*                                                                         *)
(* In the code a byte has 8 bits, a sector 512 bytes, a file 2048 sectors, *)
(* and the first inode for files is 5.                                     *)
(***************************************************************************)
EXTENDS Integers

CONSTANTS
    BITS,          \* in a byte
    SECTOR_SIZE,   \* in bytes
    NR_SECTS,      \* NR_DEFAULT_FILE_SECTS, the sectors of a file
    FIRST_INODE,   \* NR_CONSOLES + 2, the first inode for files
    SmapSects      \* how many sectors the sector map may have

ASSUME BitmapsAssumption ==
    /\ BITS \in Nat \ {0} /\ SECTOR_SIZE \in Nat \ {0}
    /\ NR_SECTS \in Nat /\ NR_SECTS % BITS = 0 /\ NR_SECTS >= BITS /\ NR_SECTS < SECTOR_SIZE * BITS
    /\ FIRST_INODE \in 2 .. SECTOR_SIZE * BITS
    /\ SmapSects \subseteq Nat \ {0}

VARIABLES
    nr_smap_sects,  \* of the super block
    start,          \* start[n]: the first bit of the extent of inode n, or 0
    failed          \* "no", "assert", or "null": inode 0 is dereferenced

SECTOR_BITS == SECTOR_SIZE * BITS
FileInode   == FIRST_INODE .. SECTOR_BITS - 1

-----------------------------------------------------------------------------
(***************************************************************************)
(* The property.                                                           *)
(***************************************************************************)

\* The extents follow each other after bit 0; that of the root directory is 0.
ExtentOf(b) == IF b # 0 /\ (b - 1) % NR_SECTS = 0 THEN (b - 1) \div NR_SECTS ELSE b

Maps == INSTANCE Extents WITH
    Num     <- FileInode,
    room    <- (nr_smap_sects * SECTOR_BITS - 1) \div NR_SECTS - 1,
    owned   <- [n \in FileInode |-> ExtentOf(start[n])],
    stopped <- failed # "no"

\* Bit by bit, across bytes and sectors, the maps are what Files takes them
\* for: no bit of another file is set or cleared, none is forgotten, and the
\* assertions on single bits hold, in whatever order files are created and
\* removed.  Only a full map stops FS (open.c:174-258, link.c:71-119).
KeepsExtents == Maps!Spec
=============================================================================
