----------------------------- MODULE ReadWrite -----------------------------
(***************************************************************************)
(* do_rdwt (fs/read_write.c) on regular files: the loop that moves a       *)
(* request chunk by chunk through fsbuf.  FS serves one request at a time, *)
(* and a process waits for its answer.                                     *)
(*                                                                         *)
(* The disk is a row of bytes; the extents of the files follow each other, *)
(* as those that alloc_smap_bit hands out one after another do.            *)
(***************************************************************************)
EXTENDS Integers, Sequences

CONSTANTS
    NFile,          \* files
    Fd, FileOf,     \* the entries of f_desc_table in use, and their inodes
    RdWr,           \* those opened with O_RDWR
    SECTOR_SIZE,
    NR_SECTS,       \* NR_DEFAULT_FILE_SECTS, the sectors of a file
    FSBUF_SECTS,    \* FSBUF_SIZE, in sectors
    NSect,          \* sectors of the disk
    Data,           \* what writers may have in their buffers, and how many
    Length,         \*   bytes anybody may ask for
    MaxCalls,       \* bound of the model: requests
    MaxPos          \* bound of the model: the farthest end of a request

File == 1 .. NFile
Byte == {0} \cup UNION {{d[k] : k \in DOMAIN d} : d \in Data}
Capacity == NR_SECTS * SECTOR_SIZE

ASSUME ReadWriteAssumption ==
    /\ NFile \in Nat /\ SECTOR_SIZE \in Nat \ {0} /\ NR_SECTS \in Nat \ {0}
    /\ FSBUF_SECTS \in Nat \ {0} /\ NSect \in Nat
    /\ FileOf \in [Fd -> File] /\ RdWr \subseteq Fd
    /\ Length \subseteq Nat /\ MaxPos \in Nat /\ Data \subseteq Seq(Nat)
    /\ \A d \in Data, len \in Length : len <= Len(d)
    /\ NFile * NR_SECTS <= NSect
    /\ (NFile - 1) * NR_SECTS + MaxPos \div SECTOR_SIZE + FSBUF_SECTS <= NSect

VARIABLES
    disk,           \* disk[a]: the byte at address a
    i_size,         \* of each file's inode, which sync_inode keeps on disk, too
    fd_pos,         \* of each open file
    fsbuf,
    rw,             \* the request and the variables of do_rdwt, or NoCall
    got,            \* the buffer of a reader, as far as it has been filled
    answer,         \* what do_rdwt returned last
    calls           \* how many requests there were

vars == <<disk, i_size, fd_pos, fsbuf, rw, got, answer, calls>>

NoCall == [op |-> "none"]

SectorBytes(n) == 0 .. n * SECTOR_SIZE - 1

TypeOK ==
    /\ disk \in [SectorBytes(NSect) -> Byte]
    /\ i_size \in [File -> 0 .. MaxPos]
    /\ fd_pos \in [Fd -> 0 .. MaxPos]
    /\ fsbuf \in [SectorBytes(FSBUF_SECTS) -> Byte]
    /\ rw.op \in {"none", "READ", "WRITE"}
    /\ got \in Seq(Byte)
    /\ answer \in -1 .. MaxPos

\* The files have just been created.
Init ==
    /\ disk = [a \in SectorBytes(NSect) |-> 0]
    /\ i_size = [f \in File |-> 0]
    /\ fd_pos = [fd \in Fd |-> 0]
    /\ fsbuf = [b \in SectorBytes(FSBUF_SECTS) |-> 0]
    /\ rw = NoCall
    /\ got = <<>> /\ answer = 0 /\ calls = 0

min(a, b) == IF a < b THEN a ELSE b

i_start_sect(f) == (f - 1) * NR_SECTS

-----------------------------------------------------------------------------
\* The file was not opened with O_RDWR.
Refuse(fd) ==
    /\ rw = NoCall /\ fd \notin RdWr /\ calls < MaxCalls
    /\ answer' = -1 /\ calls' = calls + 1
    /\ UNCHANGED <<disk, i_size, fd_pos, fsbuf, rw, got>>

\* The sector the request ends in; of one that fills the file the sector after.
SectMax(f, op, end) ==
    i_start_sect(f) + min(end, IF op = "READ" THEN i_size[f] ELSE Capacity) \div SECTOR_SIZE

\* A request of len bytes; everything before the loop.
Begin(fd, op, len, data) ==
    LET f       == FileOf[fd]
        pos     == fd_pos[fd]
        sectMin == i_start_sect(f) + pos \div SECTOR_SIZE
        sectMax == SectMax(f, op, pos + len)
    IN
    /\ rw = NoCall /\ fd \in RdWr /\ calls < MaxCalls /\ pos + len <= MaxPos
    /\ rw' = [op |-> op, fd |-> fd, from |-> pos, len |-> len, data |-> data,
              i |-> sectMin, sectMax |-> sectMax,
              chunk |-> min(sectMax - sectMin + 1, FSBUF_SECTS),
              off |-> pos % SECTOR_SIZE, done |-> 0, loaded |-> FALSE]
    /\ got' = <<>> /\ calls' = calls + 1
    /\ UNCHANGED <<disk, i_size, fd_pos, fsbuf, answer>>

\* The next chunk's place on the disk and its bytes.
Address == rw.i * SECTOR_SIZE
Chunk   == SectorBytes(rw.chunk)

\* Mutant: only a read reads the chunk.
LoadedForReads == IF rw.op = "READ" THEN Chunk ELSE {}

\* What of fsbuf rw_sector(DEV_READ) fills.
Loaded == Chunk

ReadChunk ==
    /\ rw # NoCall /\ rw.i <= rw.sectMax /\ ~ rw.loaded
    /\ fsbuf' = [b \in DOMAIN fsbuf |-> IF b \in Loaded THEN disk[Address + b] ELSE fsbuf[b]]
    /\ rw' = [rw EXCEPT !.loaded = TRUE]
    /\ UNCHANGED <<disk, i_size, fd_pos, got, answer, calls>>

\* How many bytes of the request this chunk has.
Bytes == min(rw.len - rw.done, rw.chunk * SECTOR_SIZE - rw.off)

\* fsbuf with the caller's bytes, when they are written.
Filled ==
    [b \in DOMAIN fsbuf |->
        IF b \in rw.off .. rw.off + Bytes - 1 THEN rw.data[rw.done + b - rw.off + 1] ELSE fsbuf[b]]

\* Mutant: the offset in the first sector is applied to every chunk.
NextOffKept == rw.off

\* The chunks after the first one are used from their start on.
NextOff == 0

\* The two phys_copy, rw_sector(DEV_WRITE), and the end of the loop's body.
MoveChunk ==
    /\ rw # NoCall /\ rw.loaded
    /\ IF rw.op = "READ"
       THEN /\ got' = got \o [k \in 1 .. Bytes |-> fsbuf[rw.off + k - 1]]
            /\ UNCHANGED <<disk, fsbuf>>
       ELSE /\ fsbuf' = Filled
            /\ disk' = [a \in DOMAIN disk |->
                 IF a - Address \in Chunk THEN Filled[a - Address] ELSE disk[a]]
            /\ UNCHANGED got
    /\ fd_pos' = [fd_pos EXCEPT ![rw.fd] = @ + Bytes]
    /\ rw' = [rw EXCEPT !.off = NextOff, !.done = @ + Bytes, !.i = @ + rw.chunk, !.loaded = FALSE]
    /\ UNCHANGED <<i_size, answer, calls>>

\* The file may have grown; sync_inode then leaves a sector of the inode array
\* in fsbuf, whose bytes are 0 here.
Grow ==
    LET f == FileOf[rw.fd] IN
    IF fd_pos[rw.fd] > i_size[f]
    THEN /\ i_size' = [i_size EXCEPT ![f] = fd_pos[rw.fd]]
         /\ fsbuf' = [b \in DOMAIN fsbuf |-> IF b \in SectorBytes(1) THEN 0 ELSE fsbuf[b]]
    ELSE UNCHANGED <<i_size, fsbuf>>

Return ==
    /\ rw # NoCall /\ rw.i > rw.sectMax
    /\ Grow
    /\ answer' = rw.done
    /\ rw' = NoCall
    /\ UNCHANGED <<disk, fd_pos, got, calls>>

Next ==
    \/ \E fd \in Fd : Refuse(fd)
    \/ \E fd \in Fd, len \in Length :
          Begin(fd, "READ", len, <<>>) \/ \E data \in Data : Begin(fd, "WRITE", len, data)
    \/ ReadChunk \/ MoveChunk \/ Return

Spec == Init /\ [][Next]_vars

-----------------------------------------------------------------------------
(***************************************************************************)
(* Properties.                                                             *)
(***************************************************************************)

\* do_rdwt keeps the promise of Store: of a request inside the file exactly the
\* bytes asked for move, in order, to or from where the position says, however
\* they fall into sectors and chunks, and no other byte of any file changes
\* (read_write.c:68-105).
Request ==
    IF rw = NoCall THEN rw
    ELSE [op |-> rw.op, fd |-> rw.fd, from |-> rw.from, len |-> rw.len, data |-> rw.data, done |-> rw.done]

Files == INSTANCE Store WITH
    content <- [f \in File |-> [b \in 0 .. Capacity - 1 |-> disk[i_start_sect(f) * SECTOR_SIZE + b]]],
    size <- i_size, pos <- fd_pos, call <- Request

KeepsPromise == Files!Spec

\* Whatever a request asks for, also beyond the end of a file, a byte of the
\* disk only changes to the byte of the request that belongs at that address:
\* reads change none, and the sectors a chunk has besides the request's bytes
\* are written back as they were (read_write.c:92-98).
WritesInPlace ==
    [][\A a \in DOMAIN disk :
          disk'[a] # disk[a] =>
              LET k == a - i_start_sect(FileOf[rw.fd]) * SECTOR_SIZE - rw.from IN
                  rw.op = "WRITE" /\ k \in 0 .. rw.len - 1 /\ disk'[a] = rw.data[k + 1]]_vars
=============================================================================
