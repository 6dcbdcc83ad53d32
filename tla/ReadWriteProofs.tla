-------------------------- MODULE ReadWriteProofs --------------------------
(***************************************************************************)
(* do_rdwt for sectors, buffers, extents and requests of any size: type    *)
(* correctness, WritesInPlace, and that it keeps the promise of Store.     *)
(*                                                                         *)
(* The invariant is about the loop.  Until all bytes have been moved, the  *)
(* next one on the disk (i * SECTOR_SIZE + off) is the next one of the     *)
(* request; and a chunk that has been read is the same in fsbuf and on the *)
(* disk, so that writing all of it back changes the request's bytes only.  *)
(***************************************************************************)
EXTENDS ReadWrite, TLAPS

\* The address of the first byte of f.
Base(f) == i_start_sect(f) * SECTOR_SIZE

RequestSet ==
    [op : {"READ", "WRITE"}, fd : RdWr, from : Nat, len : Length, data : Data \cup {<<>>},
     i : Nat, sectMax : Nat, chunk : Int, off : Nat, done : Nat, loaded : BOOLEAN]

RequestOK ==
    /\ rw \in RequestSet
    /\ rw.op = "WRITE" => rw.data \in Data
    /\ rw.from + rw.len <= MaxPos
    /\ rw.done <= rw.len
    /\ fd_pos[rw.fd] = rw.from + rw.done

ChunkOK ==
    /\ rw.sectMax = SectMax(FileOf[rw.fd], rw.op, rw.from + rw.len)
    /\ rw.off < SECTOR_SIZE
    /\ rw.chunk <= FSBUF_SECTS
    /\ rw.i <= rw.sectMax => rw.chunk >= 1

InPlace ==
    rw.done < rw.len =>
        rw.i * SECTOR_SIZE + rw.off = Base(FileOf[rw.fd]) + rw.from + rw.done

LoadedOK ==
    rw.loaded =>
        /\ rw.i <= rw.sectMax
        /\ \A b \in Chunk : fsbuf[b] = disk[Address + b]

LoopInv == rw # NoCall => RequestOK /\ ChunkOK /\ InPlace /\ LoadedOK

Inv == TypeOK /\ LoopInv

-----------------------------------------------------------------------------
(***************************************************************************)
(* Arithmetic.                                                             *)
(***************************************************************************)

\* A position falls into a sector and an offset in it.
LEMMA SectorAndOffset ==
    ASSUME NEW a \in Nat, NEW s \in Nat \ {0}
    PROVE  /\ a \div s \in Nat
           /\ a % s \in 0 .. s - 1
           /\ (a \div s) * s + (a % s) = a
  BY SMT

\* Later positions are in later sectors.
LEMMA SectorsInOrder ==
    ASSUME NEW a \in Nat, NEW b \in Nat, NEW s \in Nat \ {0}, a <= b
    PROVE  a \div s <= b \div s
  BY SMT

LEMMA Distributes ==
    ASSUME NEW a \in Int, NEW b \in Int, NEW s \in Int
    PROVE  (a + b) * s = a * s + b * s
  BY SMT

LEMMA Monotone ==
    ASSUME NEW a \in Int, NEW b \in Int, NEW s \in Nat, a <= b
    PROVE  a * s <= b * s
  BY SMT

LEMMA Product ==
    ASSUME NEW a \in Nat, NEW b \in Nat
    PROVE  a * b \in Nat
  BY SMT

\* The extents are in the order of the files, on the disk.
LEMMA Starts ==
    ASSUME NEW f \in File
    PROVE  /\ i_start_sect(f) \in Nat
           /\ i_start_sect(f) <= (NFile - 1) * NR_SECTS
           /\ Base(f) \in Nat
  <1>1. NFile \in Nat /\ NR_SECTS \in Nat /\ SECTOR_SIZE \in Nat
    BY ReadWriteAssumption
  <1>2. f - 1 \in Nat /\ NFile - 1 \in Int /\ f - 1 <= NFile - 1
    BY <1>1 DEF File
  <1>3. (f - 1) * NR_SECTS \in Nat
    BY <1>1, <1>2, Product
  <1>4. (f - 1) * NR_SECTS <= (NFile - 1) * NR_SECTS
    BY <1>1, <1>2, Monotone
  <1>5. (f - 1) * NR_SECTS * SECTOR_SIZE \in Nat
    BY <1>1, <1>3, Product
  <1>6. QED
    BY <1>3, <1>4, <1>5 DEF i_start_sect, Base

\* The last sector of a request is the one it ends in, or before it.
LEMMA LastSector ==
    ASSUME NEW f \in File, NEW op, NEW end \in Nat, i_size[f] \in Nat
    PROVE  /\ SectMax(f, op, end) \in Nat
           /\ SectMax(f, op, end) <= i_start_sect(f) + (end \div SECTOR_SIZE)
           /\ end <= (IF op = "READ" THEN i_size[f] ELSE Capacity) =>
                 SectMax(f, op, end) = i_start_sect(f) + (end \div SECTOR_SIZE)
  <1> DEFINE bound == IF op = "READ" THEN i_size[f] ELSE Capacity
             cut == min(end, bound)
  <1>1. SECTOR_SIZE \in Nat \ {0} /\ NR_SECTS \in Nat
    BY ReadWriteAssumption
  <1>2. Capacity \in Nat
    BY <1>1, Product DEF Capacity
  <1>3. cut \in Nat /\ cut <= end /\ (end <= bound => cut = end)
    BY <1>2 DEF min
  <1>4. SectMax(f, op, end) = i_start_sect(f) + (cut \div SECTOR_SIZE)
    BY DEF SectMax
  <1>5. cut \div SECTOR_SIZE \in Nat /\ end \div SECTOR_SIZE \in Nat
    BY <1>1, <1>3, SectorAndOffset
  <1>6. cut \div SECTOR_SIZE <= end \div SECTOR_SIZE
    BY <1>1, <1>3, SectorsInOrder
  <1>7. i_start_sect(f) \in Nat
    BY Starts
  <1>8. end <= bound => SectMax(f, op, end) = i_start_sect(f) + (end \div SECTOR_SIZE)
    BY <1>3, <1>4
  <1> HIDE DEF cut
  <1>9. SectMax(f, op, end) \in Nat /\ SectMax(f, op, end) <= i_start_sect(f) + (end \div SECTOR_SIZE)
    BY <1>4, <1>5, <1>6, <1>7
  <1>10. QED
    BY <1>8, <1>9

\* A chunk of a request is on the disk.
LEMMA ChunkOnDisk ==
    ASSUME NEW f \in File, NEW op, NEW end \in 0 .. MaxPos, i_size[f] \in Nat,
           NEW i \in Nat, i <= SectMax(f, op, end),
           NEW chunk \in Int, chunk <= FSBUF_SECTS,
           NEW b \in SectorBytes(chunk)
    PROVE  i * SECTOR_SIZE + b \in SectorBytes(NSect)
  <1>1. /\ SECTOR_SIZE \in Nat \ {0} /\ MaxPos \in Nat /\ FSBUF_SECTS \in Nat /\ NSect \in Nat
        /\ (NFile - 1) * NR_SECTS + (MaxPos \div SECTOR_SIZE) + FSBUF_SECTS <= NSect
        /\ NFile \in Nat /\ NR_SECTS \in Nat
        /\ end \in Nat /\ end <= MaxPos
    BY ReadWriteAssumption
  <1>2. i <= i_start_sect(f) + (end \div SECTOR_SIZE)
    <2>1. SectMax(f, op, end) \in Nat /\ SectMax(f, op, end) <= i_start_sect(f) + (end \div SECTOR_SIZE)
      BY LastSector, <1>1
    <2>2. i_start_sect(f) + (end \div SECTOR_SIZE) \in Int
      <3>1. i_start_sect(f) \in Nat
        BY Starts
      <3>2. end \div SECTOR_SIZE \in Nat
        BY <1>1, SectorAndOffset
      <3>3. QED
        BY <3>1, <3>2
    <2>3. QED
      BY <2>1, <2>2
  <1>3. end \div SECTOR_SIZE <= MaxPos \div SECTOR_SIZE
    BY <1>1, SectorsInOrder
  <1>4. end \div SECTOR_SIZE \in Nat /\ MaxPos \div SECTOR_SIZE \in Nat
    BY <1>1, SectorAndOffset
  <1>5. i_start_sect(f) \in Nat /\ i_start_sect(f) <= (NFile - 1) * NR_SECTS
    BY Starts
  <1>6. (NFile - 1) * NR_SECTS \in Int
    BY <1>1
  <1>7. i + chunk <= NSect
    BY <1>1, <1>2, <1>3, <1>4, <1>5, <1>6
  <1>8. (i + chunk) * SECTOR_SIZE <= NSect * SECTOR_SIZE
    BY <1>1, <1>7, Monotone
  <1>9. (i + chunk) * SECTOR_SIZE = i * SECTOR_SIZE + chunk * SECTOR_SIZE
    BY <1>1, Distributes
  <1>10. i * SECTOR_SIZE \in Nat /\ chunk * SECTOR_SIZE \in Int /\ NSect * SECTOR_SIZE \in Nat
    BY <1>1, Product
  <1>11. b \in Nat /\ b < chunk * SECTOR_SIZE
    BY <1>10 DEF SectorBytes
  <1>12. QED
    BY <1>8, <1>9, <1>10, <1>11 DEF SectorBytes

LEMMA ChunkInBuffer ==
    ASSUME RequestOK, ChunkOK, rw.i <= rw.sectMax
    PROVE  Chunk \subseteq SectorBytes(FSBUF_SECTS)
  <1>1. SECTOR_SIZE \in Nat \ {0} /\ FSBUF_SECTS \in Nat \ {0}
    BY ReadWriteAssumption
  <1>2. rw.chunk \in Nat /\ rw.chunk <= FSBUF_SECTS
    BY DEF RequestOK, RequestSet, ChunkOK
  <1>3. rw.chunk * SECTOR_SIZE <= FSBUF_SECTS * SECTOR_SIZE
    BY <1>1, <1>2, Monotone
  <1>4. rw.chunk * SECTOR_SIZE \in Nat /\ FSBUF_SECTS * SECTOR_SIZE \in Nat
    BY <1>1, <1>2, Product
  <1>5. QED
    BY <1>3, <1>4 DEF Chunk, SectorBytes

\* The writers' data are bytes.
LEMMA DataBytes ==
    ASSUME NEW d \in Data, NEW len \in Length, NEW k \in 1 .. len
    PROVE  d[k] \in Byte
  <1>1. d \in Seq(Nat) /\ len \in Nat /\ len <= Len(d)
    BY ReadWriteAssumption
  <1>2. k \in DOMAIN d
    BY <1>1
  <1>3. QED
    BY <1>2 DEF Byte

\* What the current chunk has of the request.
LEMMA BytesOfChunk ==
    ASSUME RequestOK, ChunkOK, LoadedOK, rw.loaded
    PROVE  /\ Bytes \in Nat /\ rw.done + Bytes <= rw.len
           /\ rw.chunk \in Nat \ {0} /\ rw.chunk * SECTOR_SIZE \in Nat
           /\ rw.off + Bytes <= rw.chunk * SECTOR_SIZE
           /\ Bytes = rw.len - rw.done \/ Bytes = rw.chunk * SECTOR_SIZE - rw.off
  <1>1. SECTOR_SIZE \in Nat \ {0} /\ Length \subseteq Nat
    BY ReadWriteAssumption
  <1>2. /\ rw.off \in Nat /\ rw.done \in Nat /\ rw.len \in Nat /\ rw.chunk \in Int
        /\ rw.done <= rw.len /\ rw.off < SECTOR_SIZE /\ rw.chunk >= 1
    BY <1>1 DEF RequestOK, ChunkOK, LoadedOK, RequestSet
  <1>3. rw.chunk * SECTOR_SIZE \in Nat /\ 1 * SECTOR_SIZE <= rw.chunk * SECTOR_SIZE
    BY <1>1, <1>2, Product, Monotone
  <1>4. QED
    BY <1>1, <1>2, <1>3 DEF Bytes, min

\* Where its bytes are: in the chunk, on the disk, and at their place in the
\* file.
LEMMA NextBytes ==
    ASSUME TypeOK, RequestOK, ChunkOK, InPlace, LoadedOK, rw.loaded,
           NEW k \in 0 .. Bytes - 1
    PROVE  /\ rw.off + k \in Chunk
           /\ Address + rw.off + k \in SectorBytes(NSect)
           /\ Address + rw.off + k = Base(FileOf[rw.fd]) + rw.from + rw.done + k
           /\ fsbuf[rw.off + k] = disk[Address + rw.off + k]
           /\ rw.done + k \in Nat /\ rw.done + k < rw.len
  <1>1. /\ Bytes \in Nat /\ rw.done + Bytes <= rw.len
        /\ rw.chunk * SECTOR_SIZE \in Nat
        /\ rw.off + Bytes <= rw.chunk * SECTOR_SIZE
    BY BytesOfChunk
  <1>2. /\ SECTOR_SIZE \in Nat \ {0} /\ Length \subseteq Nat /\ MaxPos \in Nat
        /\ FileOf \in [Fd -> File] /\ RdWr \subseteq Fd
    BY ReadWriteAssumption
  <1>3. /\ rw.off \in Nat /\ rw.done \in Nat /\ rw.len \in Nat /\ rw.from \in Nat
        /\ rw.i \in Nat /\ rw.chunk \in Int /\ rw.fd \in RdWr
        /\ rw.from + rw.len <= MaxPos
    BY <1>2 DEF RequestOK, RequestSet
  <1>4. FileOf[rw.fd] \in File
    BY <1>2, <1>3
  <1>5. rw.off + k \in Chunk
    BY <1>1, <1>3 DEF Chunk, SectorBytes
  <1>6. Address \in Nat /\ Base(FileOf[rw.fd]) \in Nat
    BY <1>2, <1>3, <1>4, Product, Starts DEF Address
  <1>7. Address + rw.off + k \in SectorBytes(NSect)
    <2>1. i_size[FileOf[rw.fd]] \in Nat
      BY <1>2, <1>4 DEF TypeOK
    <2>2. /\ rw.i <= SectMax(FileOf[rw.fd], rw.op, rw.from + rw.len)
          /\ rw.chunk <= FSBUF_SECTS
      BY DEF ChunkOK, LoadedOK
    <2>3. rw.from + rw.len \in 0 .. MaxPos
      BY <1>2, <1>3
    <2>4. rw.off + k \in SectorBytes(rw.chunk)
      BY <1>5 DEF Chunk
    <2>5. rw.i * SECTOR_SIZE + (rw.off + k) \in SectorBytes(NSect)
      BY <1>3, <1>4, <2>1, <2>2, <2>3, <2>4, ChunkOnDisk
    <2>6. QED
      BY <1>3, <1>6, <2>5 DEF Address
  <1>8. Address + rw.off + k = Base(FileOf[rw.fd]) + rw.from + rw.done + k
    <2>1. rw.done < rw.len
      BY <1>1, <1>3
    <2>2. Address + rw.off = Base(FileOf[rw.fd]) + rw.from + rw.done
      BY <2>1 DEF InPlace, Address
    <2>3. QED
      BY <2>2
  <1>9. fsbuf[rw.off + k] = disk[Address + rw.off + k]
    <2>1. fsbuf[rw.off + k] = disk[Address + (rw.off + k)]
      BY <1>5 DEF LoadedOK
    <2>2. Address + (rw.off + k) = Address + rw.off + k
      BY <1>3, <1>6
    <2>3. QED
      BY <2>1, <2>2
  <1>10. rw.done + k \in Nat /\ rw.done + k < rw.len
    BY <1>1, <1>3
  <1>11. QED
    BY <1>5, <1>7, <1>8, <1>9, <1>10

-----------------------------------------------------------------------------
(***************************************************************************)
(* The invariant.                                                          *)
(***************************************************************************)

LEMMA Initially == Init => Inv
  <1> SUFFICES ASSUME Init PROVE Inv
    OBVIOUS
  <1>1. MaxPos \in Nat /\ 0 \in Byte
    BY ReadWriteAssumption DEF Byte
  <1>2. TypeOK
    BY <1>1 DEF Init, TypeOK, NoCall
  <1>3. LoopInv
    BY DEF Init, LoopInv
  <1>4. QED
    BY <1>2, <1>3 DEF Inv

LEMMA RefuseKeeps ==
    ASSUME Inv, NEW fd \in Fd, Refuse(fd)
    PROVE  Inv'
  <1>1. MaxPos \in Nat
    BY ReadWriteAssumption
  <1>2. TypeOK'
    BY <1>1 DEF Inv, TypeOK, Refuse
  <1>3. LoopInv'
    BY DEF LoopInv, Refuse
  <1>4. QED
    BY <1>2, <1>3 DEF Inv

LEMMA BeginKeeps ==
    ASSUME Inv, NEW fd \in Fd, NEW op \in {"READ", "WRITE"}, NEW len \in Length,
           NEW data \in Data \cup {<<>>}, op = "WRITE" => data \in Data,
           Begin(fd, op, len, data)
    PROVE  Inv'
  <1> DEFINE f       == FileOf[fd]
             pos     == fd_pos[fd]
             sectMin == i_start_sect(f) + (pos \div SECTOR_SIZE)
             sectMax == SectMax(f, op, pos + len)
             chunk   == min(sectMax - sectMin + 1, FSBUF_SECTS)
  <1>1. /\ SECTOR_SIZE \in Nat \ {0} /\ FSBUF_SECTS \in Nat \ {0} /\ MaxPos \in Nat
        /\ Length \subseteq Nat /\ FileOf \in [Fd -> File]
    BY ReadWriteAssumption
  <1>2. /\ fd \in RdWr /\ f \in File /\ pos \in Nat /\ len \in Nat
        /\ pos + len <= MaxPos /\ i_size[f] \in Nat
    BY <1>1 DEF Begin, Inv, TypeOK
  <1>3. rw' = [op |-> op, fd |-> fd, from |-> pos, len |-> len, data |-> data,
               i |-> sectMin, sectMax |-> sectMax, chunk |-> chunk,
               off |-> pos % SECTOR_SIZE, done |-> 0, loaded |-> FALSE]
    BY DEF Begin
  <1>4. /\ pos \div SECTOR_SIZE \in Nat
        /\ pos % SECTOR_SIZE \in 0 .. SECTOR_SIZE - 1
        /\ (pos \div SECTOR_SIZE) * SECTOR_SIZE + (pos % SECTOR_SIZE) = pos
    BY <1>1, <1>2, SectorAndOffset
  <1>5. i_start_sect(f) \in Nat /\ Base(f) \in Nat
    BY <1>2, Starts
  <1>6. sectMin \in Nat
    BY <1>4, <1>5
  <1>7. sectMax \in Nat
    <2>1. pos + len \in Nat
      BY <1>2
    <2>2. QED
      BY <1>2, <2>1, LastSector
  <1>8. sectMin * SECTOR_SIZE = Base(f) + (pos \div SECTOR_SIZE) * SECTOR_SIZE
    BY <1>1, <1>4, <1>5, Distributes DEF Base
  <1> HIDE DEF sectMin, sectMax
  <1>9. chunk \in Int /\ chunk <= FSBUF_SECTS /\ (sectMin <= sectMax => chunk >= 1)
    BY <1>1, <1>6, <1>7 DEF min
  <1> HIDE DEF chunk
  <1>10. TypeOK'
    <2>1. rw'.op \in {"none", "READ", "WRITE"} /\ got' \in Seq(Byte)
      BY <1>3 DEF Begin
    <2>2. QED
      BY <2>1 DEF Begin, Inv, TypeOK
  <1>11. RequestOK'
    <2>1. rw' \in RequestSet
      BY <1>2, <1>3, <1>4, <1>6, <1>7, <1>9 DEF RequestSet
    <2>2. fd_pos'[fd] = pos
      BY DEF Begin
    <2>3. QED
      BY <1>2, <1>3, <2>1, <2>2 DEF RequestOK
  <1>12. ChunkOK'
    <2>1. /\ rw'.fd = fd /\ rw'.op = op /\ rw'.from = pos /\ rw'.len = len
          /\ rw'.i = sectMin /\ rw'.sectMax = sectMax /\ rw'.chunk = chunk
          /\ rw'.off < SECTOR_SIZE
      BY <1>1, <1>3, <1>4
    <2>2. i_size' = i_size
      BY DEF Begin
    <2>3. SectMax(FileOf[rw.fd], rw.op, rw.from + rw.len)' = sectMax
      BY <2>1, <2>2 DEF SectMax, sectMax
    <2>4. QED
      BY <1>9, <2>1, <2>3 DEF ChunkOK
  <1>13. InPlace'
    <2>1. (pos \div SECTOR_SIZE) * SECTOR_SIZE \in Nat
      BY <1>1, <1>4, Product
    <2>2. sectMin * SECTOR_SIZE + (pos % SECTOR_SIZE) = Base(f) + pos
      BY <1>4, <1>5, <1>8, <2>1
    <2>3. Base(f)' = Base(f)
      BY DEF Base, i_start_sect
    <2>4. rw'.i * SECTOR_SIZE + rw'.off = Base(FileOf[rw'.fd]) + rw'.from + rw'.done
      BY <1>2, <1>3, <1>5, <2>2
    <2>5. QED
      BY <2>4 DEF InPlace
  <1>14. LoadedOK'
    BY <1>3 DEF LoadedOK
  <1>15. QED
    BY <1>10, <1>11, <1>12, <1>13, <1>14 DEF Inv, LoopInv

LEMMA ReadChunkKeeps ==
    ASSUME Inv, ReadChunk
    PROVE  Inv'
  <1>1. /\ RequestOK /\ ChunkOK /\ InPlace
        /\ rw \in RequestSet /\ rw.i <= rw.sectMax
    BY DEF Inv, LoopInv, ReadChunk, RequestOK
  <1>2. /\ SECTOR_SIZE \in Nat \ {0} /\ FSBUF_SECTS \in Nat \ {0} /\ MaxPos \in Nat
        /\ Length \subseteq Nat /\ FileOf \in [Fd -> File] /\ RdWr \subseteq Fd
    BY ReadWriteAssumption
  <1>3. /\ FileOf[rw.fd] \in File /\ rw.from + rw.len \in 0 .. MaxPos
        /\ rw.i \in Nat /\ rw.chunk \in Nat /\ rw.chunk <= FSBUF_SECTS
        /\ i_size[FileOf[rw.fd]] \in Nat
    <2>1. rw.fd \in RdWr /\ rw.from \in Nat /\ rw.len \in Nat /\ rw.i \in Nat /\ rw.chunk \in Int
      BY <1>1, <1>2 DEF RequestSet
    <2>2. FileOf[rw.fd] \in File
      BY <1>2, <2>1
    <2>3. rw.from + rw.len \in 0 .. MaxPos
      BY <1>1, <1>2, <2>1 DEF RequestOK
    <2>4. rw.chunk \in Nat /\ rw.chunk <= FSBUF_SECTS
      BY <1>1, <2>1 DEF ChunkOK
    <2>5. i_size[FileOf[rw.fd]] \in Nat
      BY <1>2, <2>2 DEF Inv, TypeOK
    <2>6. QED
      BY <2>1, <2>2, <2>3, <2>4, <2>5
  <1>4. Chunk \subseteq SectorBytes(FSBUF_SECTS)
    BY <1>1, ChunkInBuffer
  <1>5. ASSUME NEW b \in Chunk PROVE disk[Address + b] \in Byte
    <2>1. b \in SectorBytes(rw.chunk)
      BY <1>5 DEF Chunk
    <2>2. rw.i <= SectMax(FileOf[rw.fd], rw.op, rw.from + rw.len)
      BY <1>1 DEF ChunkOK
    <2>3. rw.i * SECTOR_SIZE + b \in SectorBytes(NSect)
      BY <1>3, <2>1, <2>2, ChunkOnDisk
    <2>4. QED
      BY <2>3 DEF Address, Inv, TypeOK
  <1>6. rw' = [rw EXCEPT !.loaded = TRUE]
    BY DEF ReadChunk
  <1>7. /\ rw' \in RequestSet /\ rw'.loaded
        /\ rw'.op = rw.op /\ rw'.fd = rw.fd /\ rw'.from = rw.from /\ rw'.len = rw.len
        /\ rw'.data = rw.data /\ rw'.i = rw.i /\ rw'.sectMax = rw.sectMax
        /\ rw'.chunk = rw.chunk /\ rw'.off = rw.off /\ rw'.done = rw.done
    BY <1>1, <1>6 DEF RequestSet
  <1>8. DOMAIN fsbuf = SectorBytes(FSBUF_SECTS)
    BY DEF Inv, TypeOK
  <1>9. \A b \in SectorBytes(FSBUF_SECTS) :
           fsbuf'[b] = IF b \in Chunk THEN disk[Address + b] ELSE fsbuf[b]
    BY <1>8 DEF ReadChunk, Loaded
  <1>10. TypeOK'
    <2>1. fsbuf' \in [SectorBytes(FSBUF_SECTS) -> Byte]
      BY <1>5, <1>8 DEF ReadChunk, Loaded, Inv, TypeOK
    <2>2. rw'.op \in {"none", "READ", "WRITE"}
      BY <1>7 DEF RequestSet
    <2>3. QED
      BY <2>1, <2>2 DEF ReadChunk, Inv, TypeOK
  <1>11. RequestOK'
    BY <1>1, <1>7 DEF ReadChunk, RequestOK
  <1>12. ChunkOK'
    BY <1>1, <1>7 DEF ReadChunk, ChunkOK, SectMax
  <1>13. InPlace'
    BY <1>1, <1>7 DEF InPlace, Base
  <1>14. LoadedOK'
    <2>1. Chunk' = Chunk /\ Address' = Address /\ disk' = disk
      BY <1>7 DEF Chunk, Address, ReadChunk
    <2>2. \A b \in Chunk : fsbuf'[b] = disk[Address + b]
      BY <1>4, <1>9
    <2>3. QED
      BY <1>1, <1>7, <2>1, <2>2 DEF LoadedOK
  <1>15. QED
    BY <1>10, <1>11, <1>12, <1>13, <1>14 DEF Inv, LoopInv

\* What a write of a chunk does to the byte at address a: of the request's bytes
\* those whose place is in this chunk are put there, all others are kept.
LEMMA ChunkWritten ==
    ASSUME Inv, MoveChunk, rw.op = "WRITE", NEW a \in SectorBytes(NSect)
    PROVE  LET k == a - Base(FileOf[rw.fd]) - rw.from IN
           disk'[a] = IF k \in rw.done .. rw.done + Bytes - 1 THEN rw.data[k + 1] ELSE disk[a]
  <1> DEFINE base == Base(FileOf[rw.fd])
             k    == a - base - rw.from
             b    == a - Address
  <1>1. RequestOK /\ ChunkOK /\ InPlace /\ LoadedOK /\ rw.loaded
    BY DEF Inv, LoopInv, MoveChunk
  <1>2. /\ Bytes \in Nat /\ rw.done + Bytes <= rw.len
        /\ rw.chunk * SECTOR_SIZE \in Nat
        /\ rw.off + Bytes <= rw.chunk * SECTOR_SIZE
    BY <1>1, BytesOfChunk
  <1>3. SECTOR_SIZE \in Nat \ {0} /\ NSect \in Nat /\ Length \subseteq Nat
        /\ FileOf \in [Fd -> File] /\ RdWr \subseteq Fd
    BY ReadWriteAssumption
  <1>4. /\ rw.off \in Nat /\ rw.done \in Nat /\ rw.len \in Nat /\ rw.from \in Nat
        /\ rw.i \in Nat /\ rw.fd \in RdWr
    BY <1>1, <1>3 DEF RequestOK, RequestSet
  <1>5. Address \in Nat /\ base \in Nat /\ a \in Nat
    <2>1. Address \in Nat
      BY <1>3, <1>4, Product DEF Address
    <2>2. base \in Nat
      BY <1>3, <1>4, Starts
    <2>3. a \in Nat
      BY <1>3, Product DEF SectorBytes
    <2>4. QED
      BY <2>1, <2>2, <2>3
  <1>6. Chunk \subseteq DOMAIN fsbuf
    BY <1>1, ChunkInBuffer DEF LoadedOK, Inv, TypeOK
  <1>7. disk'[a] = IF b \in Chunk THEN Filled[b] ELSE disk[a]
    BY DEF MoveChunk, Inv, TypeOK
  <1>8. ASSUME b \in Chunk PROVE Filled[b] = IF b \in rw.off .. rw.off + Bytes - 1
                                            THEN rw.data[rw.done + b - rw.off + 1] ELSE disk[a]
    <2>1. fsbuf[b] = disk[Address + b]
      BY <1>1, <1>8 DEF LoadedOK
    <2>2. Address + b = a
      BY <1>5
    <2>3. QED
      BY <1>6, <1>8, <2>1, <2>2 DEF Filled
  <1>9. b \in rw.off .. rw.off + Bytes - 1 => b \in Chunk
    BY <1>2, <1>4, <1>5 DEF Chunk, SectorBytes
  <1>10. disk'[a] = IF b \in rw.off .. rw.off + Bytes - 1
                    THEN rw.data[rw.done + b - rw.off + 1] ELSE disk[a]
    BY <1>7, <1>8, <1>9
  <1>11. CASE Bytes = 0
    BY <1>4, <1>10, <1>11
  <1>12. CASE Bytes > 0
    <2>1. rw.done < rw.len
      BY <1>2, <1>4, <1>12
    <2>2. Address + rw.off = base + rw.from + rw.done
      BY <1>1, <2>1 DEF InPlace, Address
    <2> HIDE DEF base
    <2>3. k = rw.done + b - rw.off /\ k \in Int /\ b \in Int
      BY <1>4, <1>5, <2>2
    <2> HIDE DEF k, b
    <2>4. b \in rw.off .. rw.off + Bytes - 1 <=> k \in rw.done .. rw.done + Bytes - 1
      BY <1>2, <1>4, <2>3
    <2>5. disk'[a] = IF k \in rw.done .. rw.done + Bytes - 1 THEN rw.data[k + 1] ELSE disk[a]
      BY <1>10, <2>3, <2>4
    <2>6. QED
      BY <2>5 DEF k, base
  <1>13. QED
    BY <1>2, <1>11, <1>12

LEMMA MoveChunkKeeps ==
    ASSUME Inv, MoveChunk
    PROVE  Inv'
  <1>1. /\ RequestOK /\ ChunkOK /\ InPlace /\ LoadedOK /\ rw.loaded
        /\ rw \in RequestSet /\ rw.i <= rw.sectMax /\ rw # NoCall
    BY DEF Inv, LoopInv, MoveChunk, RequestOK, LoadedOK
  <1>2. /\ Bytes \in Nat /\ rw.done + Bytes <= rw.len
        /\ rw.chunk \in Nat \ {0} /\ rw.chunk * SECTOR_SIZE \in Nat
        /\ rw.off + Bytes <= rw.chunk * SECTOR_SIZE
        /\ Bytes = rw.len - rw.done \/ Bytes = rw.chunk * SECTOR_SIZE - rw.off
    BY <1>1, BytesOfChunk
  <1>3. SECTOR_SIZE \in Nat \ {0} /\ NSect \in Nat /\ MaxPos \in Nat /\ Length \subseteq Nat
        /\ FileOf \in [Fd -> File] /\ RdWr \subseteq Fd
    BY ReadWriteAssumption
  <1>4. /\ rw.off \in Nat /\ rw.done \in Nat /\ rw.len \in Nat /\ rw.from \in Nat
        /\ rw.i \in Nat /\ rw.fd \in RdWr /\ rw.len \in Length
    BY <1>1, <1>3 DEF RequestSet
  <1>5. rw' = [rw EXCEPT !.off = 0, !.done = rw.done + Bytes, !.i = rw.i + rw.chunk,
                         !.loaded = FALSE]
    BY DEF MoveChunk, NextOff
  <1>6. /\ rw' \in RequestSet /\ ~ rw'.loaded
        /\ rw'.op = rw.op /\ rw'.fd = rw.fd /\ rw'.from = rw.from /\ rw'.len = rw.len
        /\ rw'.data = rw.data /\ rw'.sectMax = rw.sectMax /\ rw'.chunk = rw.chunk
        /\ rw'.i = rw.i + rw.chunk /\ rw'.off = 0 /\ rw'.done = rw.done + Bytes
    <2>1. rw.done + Bytes \in Nat /\ rw.i + rw.chunk \in Nat /\ 0 \in Nat
      BY <1>2, <1>4
    <2>2. rw' \in RequestSet
      BY <1>1, <1>5, <2>1 DEF RequestSet
    <2>3. QED
      BY <1>1, <1>5, <2>2 DEF RequestSet
  <1>7. /\ fd_pos' = [fd_pos EXCEPT ![rw.fd] = fd_pos[rw.fd] + Bytes]
        /\ fd_pos[rw.fd] = rw.from + rw.done
        /\ rw.from + rw.len <= MaxPos
    BY <1>1 DEF MoveChunk, RequestOK
  <1>8. Chunk \subseteq DOMAIN fsbuf /\ DOMAIN fsbuf = SectorBytes(FSBUF_SECTS)
    BY <1>1, ChunkInBuffer DEF Inv, TypeOK
  <1>9. TypeOK'
    <2>1. fd_pos' \in [Fd -> 0 .. MaxPos]
      <3>1. fd_pos[rw.fd] + Bytes \in 0 .. MaxPos
        BY <1>2, <1>3, <1>4, <1>7
      <3>2. fd_pos \in [Fd -> 0 .. MaxPos]
        BY DEF Inv, TypeOK
      <3>3. QED
        BY <1>7, <3>1, <3>2
    <2>2. CASE rw.op = "READ"
      <3>1. ASSUME NEW n \in 1 .. Bytes PROVE fsbuf[rw.off + n - 1] \in Byte
        <4>1. rw.off + n - 1 \in Chunk
          BY <1>2, <1>4 DEF Chunk, SectorBytes
        <4>2. QED
          BY <1>8, <4>1 DEF Inv, TypeOK
      <3>2. [n \in 1 .. Bytes |-> fsbuf[rw.off + n - 1]] \in Seq(Byte)
        BY <1>2, <3>1
      <3>3. got' = got \o [n \in 1 .. Bytes |-> fsbuf[rw.off + n - 1]]
        BY <2>2 DEF MoveChunk
      <3>4. got' \in Seq(Byte)
        BY <3>2, <3>3 DEF Inv, TypeOK
      <3>5. QED
        BY <1>6, <2>1, <2>2, <3>4 DEF MoveChunk, Inv, TypeOK
    <2>3. CASE rw.op = "WRITE"
      <3>1. rw.data \in Data
        BY <1>1, <2>3 DEF RequestOK
      <3>2. ASSUME NEW b \in DOMAIN fsbuf, b \in rw.off .. rw.off + Bytes - 1
            PROVE  rw.data[rw.done + b - rw.off + 1] \in Byte
        <4>1. rw.done + b - rw.off + 1 \in 1 .. rw.len
          BY <1>2, <1>4, <3>2
        <4>2. QED
          BY <1>4, <3>1, <4>1, DataBytes
      <3>3. Filled \in [SectorBytes(FSBUF_SECTS) -> Byte]
        BY <1>8, <3>2 DEF Filled, Inv, TypeOK
      <3>4. disk' \in [SectorBytes(NSect) -> Byte]
        <4>1. disk' = [a \in SectorBytes(NSect) |->
                         IF a - Address \in Chunk THEN Filled[a - Address] ELSE disk[a]]
          BY <2>3 DEF MoveChunk, Inv, TypeOK
        <4>2. ASSUME NEW a \in SectorBytes(NSect)
              PROVE  (IF a - Address \in Chunk THEN Filled[a - Address] ELSE disk[a]) \in Byte
          BY <1>8, <3>3 DEF Inv, TypeOK
        <4>3. QED
          BY <4>1, <4>2
      <3>5. fsbuf' = Filled /\ got' = got
        BY <2>3 DEF MoveChunk
      <3>6. QED
        BY <1>6, <2>1, <2>3, <3>3, <3>4, <3>5 DEF MoveChunk, Inv, TypeOK
    <2>4. QED
      BY <1>1, <2>2, <2>3 DEF RequestSet
  <1>10. RequestOK'
    <2>1. fd_pos'[rw.fd] = rw.from + rw.done + Bytes
      BY <1>2, <1>3, <1>4, <1>7 DEF Inv, TypeOK
    <2>2. rw.op = "WRITE" => rw.data \in Data
      BY <1>1 DEF RequestOK
    <2>3. QED
      BY <1>2, <1>4, <1>6, <1>7, <2>1, <2>2 DEF RequestOK
  <1>11. ChunkOK'
    <2>1. i_size' = i_size
      BY DEF MoveChunk
    <2>2. SectMax(FileOf[rw.fd], rw.op, rw.from + rw.len)' = rw.sectMax
      BY <1>1, <1>6, <2>1 DEF ChunkOK, SectMax
    <2>3. QED
      BY <1>1, <1>2, <1>3, <1>6, <2>2 DEF ChunkOK
  <1>12. InPlace'
    <2> SUFFICES ASSUME rw.done + Bytes < rw.len
                 PROVE  (rw.i + rw.chunk) * SECTOR_SIZE + 0
                           = Base(FileOf[rw.fd]) + rw.from + (rw.done + Bytes)
      BY <1>6 DEF InPlace, Base, i_start_sect
    <2>1. rw.done < rw.len /\ Bytes = rw.chunk * SECTOR_SIZE - rw.off
      BY <1>2, <1>4
    <2>2. rw.i * SECTOR_SIZE + rw.off = Base(FileOf[rw.fd]) + rw.from + rw.done
      BY <1>1, <2>1 DEF InPlace
    <2>3. (rw.i + rw.chunk) * SECTOR_SIZE = rw.i * SECTOR_SIZE + rw.chunk * SECTOR_SIZE
      BY <1>2, <1>3, <1>4, Distributes
    <2>4. rw.i * SECTOR_SIZE \in Nat
      BY <1>3, <1>4, Product
    <2>5. Base(FileOf[rw.fd]) \in Nat
      BY <1>3, <1>4, Starts
    <2>6. QED
      BY <1>2, <1>4, <2>1, <2>2, <2>3, <2>4, <2>5
  <1>13. LoadedOK'
    BY <1>6 DEF LoadedOK
  <1>14. QED
    BY <1>9, <1>10, <1>11, <1>12, <1>13 DEF Inv, LoopInv

LEMMA ReturnKeeps ==
    ASSUME Inv, Return
    PROVE  Inv'
  <1>1. RequestOK /\ rw \in RequestSet
    BY DEF Inv, LoopInv, Return, RequestOK
  <1>2. /\ SECTOR_SIZE \in Nat \ {0} /\ FSBUF_SECTS \in Nat \ {0} /\ MaxPos \in Nat
        /\ Length \subseteq Nat /\ FileOf \in [Fd -> File] /\ RdWr \subseteq Fd
    BY ReadWriteAssumption
  <1>3. rw.fd \in RdWr /\ rw.done \in Nat /\ rw.len \in Nat /\ rw.from \in Nat
    BY <1>1, <1>2 DEF RequestSet
  <1>4. i_size' \in [File -> 0 .. MaxPos]
    BY <1>2, <1>3 DEF Return, Grow, Inv, TypeOK
  <1>5. fsbuf' \in [SectorBytes(FSBUF_SECTS) -> Byte]
    <2>1. 0 \in Byte
      BY DEF Byte
    <2>2. QED
      BY <2>1 DEF Return, Grow, Inv, TypeOK
  <1>6. answer' \in -1 .. MaxPos
    BY <1>1, <1>2, <1>3 DEF Return, RequestOK
  <1>7. rw'.op \in {"none", "READ", "WRITE"}
    BY DEF Return, NoCall
  <1>8. TypeOK'
    BY <1>4, <1>5, <1>6, <1>7 DEF Return, Inv, TypeOK
  <1>9. LoopInv'
    BY DEF LoopInv, Return
  <1>10. QED
    BY <1>8, <1>9 DEF Inv

LEMMA NextKeeps == Inv /\ [Next]_vars => Inv'
  <1> SUFFICES ASSUME Inv, [Next]_vars PROVE Inv'
    OBVIOUS
  <1>1. ASSUME NEW fd \in Fd, Refuse(fd) PROVE Inv'
    BY <1>1, RefuseKeeps
  <1>2. ASSUME NEW fd \in Fd, NEW len \in Length, Begin(fd, "READ", len, <<>>) PROVE Inv'
    BY <1>2, BeginKeeps
  <1>3. ASSUME NEW fd \in Fd, NEW len \in Length, NEW data \in Data, Begin(fd, "WRITE", len, data)
        PROVE  Inv'
    BY <1>3, BeginKeeps
  <1>4. CASE ReadChunk
    BY <1>4, ReadChunkKeeps
  <1>5. CASE MoveChunk
    BY <1>5, MoveChunkKeeps
  <1>6. CASE Return
    BY <1>6, ReturnKeeps
  <1>7. CASE UNCHANGED vars
    BY <1>7 DEF vars, Inv, TypeOK, LoopInv, RequestOK, ChunkOK, InPlace, LoadedOK,
                SectMax, Base, i_start_sect, Chunk, Address
  <1>8. QED
    BY <1>1, <1>2, <1>3, <1>4, <1>5, <1>6, <1>7 DEF Next

\* The loop's invariant, for every size of sectors, extents, buffer and request.
THEOREM LoopInvariance == Spec => []Inv
  <1>1. Init => Inv
    BY Initially
  <1>2. Inv /\ [Next]_vars => Inv'
    BY NextKeeps
  <1>3. QED
    BY <1>1, <1>2, PTL DEF Spec

\* do_rdwt is type correct; in particular no position passes MaxPos, and what
\* readers get and the disk has are bytes somebody wrote.
THEOREM ReadWriteTypes == Spec => []TypeOK
  <1>1. Inv => TypeOK
    BY DEF Inv
  <1>2. QED
    BY <1>1, LoopInvariance, PTL

\* A step changes a byte of the disk only to the byte of the request that
\* belongs there.
LEMMA StepInPlace ==
    ASSUME Inv, Next, NEW a \in DOMAIN disk, disk'[a] # disk[a]
    PROVE  LET k == a - i_start_sect(FileOf[rw.fd]) * SECTOR_SIZE - rw.from IN
           rw.op = "WRITE" /\ k \in 0 .. rw.len - 1 /\ disk'[a] = rw.data[k + 1]
  <1> DEFINE k == a - Base(FileOf[rw.fd]) - rw.from
  <1>1. MoveChunk /\ rw.op # "READ"
    BY DEF Next, Refuse, Begin, ReadChunk, MoveChunk, Return
  <1>2. RequestOK /\ ChunkOK /\ LoadedOK /\ rw.loaded
    BY <1>1 DEF Inv, LoopInv, MoveChunk
  <1>3. rw.op = "WRITE" /\ rw.done \in Nat /\ rw.len \in Nat
    BY <1>1, <1>2, ReadWriteAssumption DEF RequestOK, RequestSet
  <1>4. Bytes \in Nat /\ rw.done + Bytes <= rw.len
    BY <1>2, BytesOfChunk
  <1>5. a \in SectorBytes(NSect)
    BY DEF Inv, TypeOK
  <1>6. disk'[a] = IF k \in rw.done .. rw.done + Bytes - 1 THEN rw.data[k + 1] ELSE disk[a]
    BY <1>1, <1>3, <1>5, ChunkWritten
  <1> HIDE DEF k
  <1>7. k \in rw.done .. rw.done + Bytes - 1 /\ disk'[a] = rw.data[k + 1]
    BY <1>6
  <1>8. k \in 0 .. rw.len - 1
    BY <1>3, <1>4, <1>7
  <1>9. QED
    BY <1>3, <1>7, <1>8 DEF k, Base

\* Reads change no byte of the disk, and writes those of the request only, each
\* to what the caller wants there: for every size of sectors, extents, buffer
\* and request, and for requests beyond the end of a file, too.
THEOREM BytesInPlace == Spec => WritesInPlace
  <1> DEFINE A == \A a \in DOMAIN disk :
                     disk'[a] # disk[a] =>
                         LET k == a - i_start_sect(FileOf[rw.fd]) * SECTOR_SIZE - rw.from IN
                             rw.op = "WRITE" /\ k \in 0 .. rw.len - 1 /\ disk'[a] = rw.data[k + 1]
  <1>1. Inv /\ [Next]_vars => [A]_vars
    BY StepInPlace
  <1>2. QED
    BY <1>1, LoopInvariance, PTL DEF Spec, WritesInPlace

-----------------------------------------------------------------------------
(***************************************************************************)
(* do_rdwt implements Store, for sectors, buffers, extents and requests of *)
(* any size.  The chunk moved is Store's Transfer: the loop's invariant    *)
(* says that it is the next one of the request, and that the extents lie   *)
(* apart keeps it out of other files.  That a request inside the file has  *)
(* been moved as a whole when the loop ends is what SectMax is for.        *)
(***************************************************************************)

Content == [f \in File |-> [b \in 0 .. Capacity - 1 |-> disk[i_start_sect(f) * SECTOR_SIZE + b]]]

\* An extent lies behind those of the files before it.
LEMMA ExtentsApart ==
    ASSUME NEW f \in File, NEW g \in File, f < g
    PROVE  Base(f) + Capacity <= Base(g)
  <1>1. NFile \in Nat /\ NR_SECTS \in Nat /\ SECTOR_SIZE \in Nat
    BY ReadWriteAssumption
  <1>2. f - 1 \in Nat /\ g - 1 \in Nat /\ (f - 1) + 1 <= g - 1
    BY <1>1 DEF File
  <1>3. /\ ((f - 1) + 1) * NR_SECTS <= (g - 1) * NR_SECTS
        /\ ((f - 1) + 1) * NR_SECTS = (f - 1) * NR_SECTS + 1 * NR_SECTS
    <2>1. ((f - 1) + 1) * NR_SECTS <= (g - 1) * NR_SECTS
      BY <1>1, <1>2, Monotone
    <2>2. ((f - 1) + 1) * NR_SECTS = (f - 1) * NR_SECTS + 1 * NR_SECTS
      BY <1>1, <1>2, Distributes
    <2>3. QED
      BY <2>1, <2>2
  <1>4. (f - 1) * NR_SECTS \in Nat /\ (g - 1) * NR_SECTS \in Nat
    BY <1>1, <1>2, Product
  <1>5. (f - 1) * NR_SECTS + NR_SECTS <= (g - 1) * NR_SECTS
    BY <1>1, <1>3, <1>4
  <1>6. ((f - 1) * NR_SECTS + NR_SECTS) * SECTOR_SIZE <= ((g - 1) * NR_SECTS) * SECTOR_SIZE
    BY <1>1, <1>4, <1>5, Monotone
  <1>7. ((f - 1) * NR_SECTS + NR_SECTS) * SECTOR_SIZE
           = ((f - 1) * NR_SECTS) * SECTOR_SIZE + NR_SECTS * SECTOR_SIZE
    BY <1>1, <1>4, Distributes
  <1>8. QED
    BY <1>6, <1>7 DEF Base, i_start_sect, Capacity

\* An extent is on the disk.
LEMMA ExtentOnDisk ==
    ASSUME NEW f \in File, NEW b \in 0 .. Capacity - 1
    PROVE  Base(f) + b \in SectorBytes(NSect)
  <1>1. /\ NFile \in Nat /\ NR_SECTS \in Nat /\ SECTOR_SIZE \in Nat /\ NSect \in Nat
        /\ NFile * NR_SECTS <= NSect
    BY ReadWriteAssumption
  <1>2. f \in Nat /\ f - 1 \in Nat /\ f <= NFile
    BY <1>1 DEF File
  <1>3. f * NR_SECTS <= NFile * NR_SECTS /\ f * NR_SECTS \in Nat /\ NFile * NR_SECTS \in Nat
    <2>1. f * NR_SECTS <= NFile * NR_SECTS
      BY <1>1, <1>2, Monotone
    <2>2. QED
      BY <1>1, <1>2, <2>1, Product
  <1>4. f * NR_SECTS <= NSect
    BY <1>1, <1>3
  <1>5. (f * NR_SECTS) * SECTOR_SIZE <= NSect * SECTOR_SIZE
    BY <1>1, <1>3, <1>4, Monotone
  <1>6. f * NR_SECTS = (f - 1) * NR_SECTS + 1 * NR_SECTS
    <2>1. ((f - 1) + 1) * NR_SECTS = (f - 1) * NR_SECTS + 1 * NR_SECTS
      BY <1>1, <1>2, Distributes
    <2>2. (f - 1) + 1 = f
      BY <1>2
    <2>3. QED
      BY <2>1, <2>2
  <1>7. (f - 1) * NR_SECTS \in Nat /\ 1 * NR_SECTS = NR_SECTS
    BY <1>1, <1>2, Product
  <1>8. ((f - 1) * NR_SECTS + NR_SECTS) * SECTOR_SIZE
           = ((f - 1) * NR_SECTS) * SECTOR_SIZE + NR_SECTS * SECTOR_SIZE
    BY <1>1, <1>7, Distributes
  <1>9. Base(f) + Capacity <= NSect * SECTOR_SIZE
    BY <1>5, <1>6, <1>7, <1>8 DEF Base, i_start_sect, Capacity
  <1>10. Base(f) \in Nat /\ Capacity \in Nat /\ NSect * SECTOR_SIZE \in Nat
    <2>1. Base(f) \in Nat
      BY Starts
    <2>2. QED
      BY <1>1, <2>1, Product DEF Capacity
  <1>11. b \in Nat /\ b < Capacity
    BY <1>10
  <1>12. QED
    BY <1>9, <1>10, <1>11 DEF SectorBytes

-----------------------------------------------------------------------------
LEMMA InitPromised == Init => Files!Init
  <1> SUFFICES ASSUME Init PROVE Files!Init
    OBVIOUS
  <1>1. 0 \in Byte /\ MaxPos \in Nat /\ NR_SECTS \in Nat /\ SECTOR_SIZE \in Nat
    BY ReadWriteAssumption DEF Byte
  <1>2. Capacity \in Nat
    BY <1>1, Product DEF Capacity
  <1>3. ASSUME NEW f \in File, NEW b \in 0 .. Capacity - 1
        PROVE  disk[i_start_sect(f) * SECTOR_SIZE + b] \in Byte
    <2>1. i_start_sect(f) * SECTOR_SIZE + b \in SectorBytes(NSect)
      BY ExtentOnDisk DEF Base
    <2>2. QED
      BY <1>1, <2>1 DEF Init
  <1>4. Content \in [File -> [0 .. Capacity - 1 -> Byte]]
    BY <1>3 DEF Content
  <1>5. i_size \in [File -> 0 .. Capacity]
    BY <1>2 DEF Init
  <1>6. Request = Files!NoCall
    BY DEF Init, Request, NoCall, Files!NoCall
  <1>7. QED
    BY <1>4, <1>5, <1>6 DEF Init, Files!Init, Content

LEMMA RefusePromised ==
    ASSUME NEW fd \in Fd, Refuse(fd)
    PROVE  Files!Refuse
  <1>1. Request = Files!NoCall /\ Request' = Request
    BY DEF Refuse, Request, NoCall, Files!NoCall
  <1>2. Content' = Content
    BY DEF Refuse, Content, i_start_sect
  <1>3. QED
    BY <1>1, <1>2 DEF Refuse, Files!Refuse, Content

LEMMA BeginPromised ==
    ASSUME NEW fd \in Fd, NEW op \in {"READ", "WRITE"}, NEW len, NEW data,
           Begin(fd, op, len, data)
    PROVE  Files!Begin
  <1>1. rw'.op = op /\ rw'.fd = fd /\ rw'.from = fd_pos[fd] /\ rw'.done = 0
    BY DEF Begin
  <1>2. rw' # NoCall
    BY <1>1 DEF NoCall
  <1>3. /\ Request'.op = op /\ Request'.fd = fd /\ Request'.from = fd_pos[fd]
        /\ Request'.done = 0
    BY <1>1, <1>2 DEF Request
  <1>4. Request = Files!NoCall
    BY DEF Begin, Request, NoCall, Files!NoCall
  <1>5. Content' = Content
    BY DEF Begin, Content, i_start_sect
  <1>6. QED
    BY <1>3, <1>4, <1>5 DEF Begin, Files!Begin, Content

LEMMA ReadChunkPromised ==
    ASSUME Inv, ReadChunk
    PROVE  UNCHANGED Files!vars
  <1>1. rw \in RequestSet /\ rw # NoCall
    BY DEF Inv, LoopInv, ReadChunk, RequestOK
  <1>2. /\ rw'.loaded
        /\ rw'.op = rw.op /\ rw'.fd = rw.fd /\ rw'.from = rw.from /\ rw'.len = rw.len
        /\ rw'.data = rw.data /\ rw'.done = rw.done /\ rw.op # "none"
    BY <1>1 DEF ReadChunk, RequestSet
  <1>3. rw' # NoCall
    BY <1>1, <1>2 DEF NoCall
  <1>4. Request' = Request
    BY <1>1, <1>2, <1>3 DEF Request
  <1>5. Content' = Content
    BY DEF ReadChunk, Content, i_start_sect
  <1>6. QED
    BY <1>4, <1>5 DEF ReadChunk, Files!vars, Content

\* The request in Store's terms.
LEMMA RequestFields ==
    ASSUME rw # NoCall
    PROVE  /\ Request.op = rw.op /\ Request.fd = rw.fd /\ Request.from = rw.from
           /\ Request.len = rw.len /\ Request.data = rw.data /\ Request.done = rw.done
           /\ rw.op \in {"READ", "WRITE"} => Request # Files!NoCall
  BY DEF Request, Files!NoCall

LEMMA LoopFacts ==
    ASSUME Inv, rw # NoCall
    PROVE  /\ RequestOK /\ ChunkOK /\ InPlace /\ LoadedOK
           /\ rw.op \in {"READ", "WRITE"} /\ rw.fd \in RdWr /\ rw.fd \in Fd
           /\ rw.from \in Nat /\ rw.len \in Nat /\ rw.done \in Nat /\ rw.off \in Nat
           /\ rw.i \in Nat /\ rw.done <= rw.len
           /\ FileOf[rw.fd] \in File
           /\ Base(FileOf[rw.fd]) \in Nat
           /\ Capacity \in Nat /\ SECTOR_SIZE \in Nat \ {0}
  <1>1. RequestOK /\ ChunkOK /\ InPlace /\ LoadedOK
    BY DEF Inv, LoopInv
  <1>2. /\ SECTOR_SIZE \in Nat \ {0} /\ NR_SECTS \in Nat /\ Length \subseteq Nat
        /\ FileOf \in [Fd -> File] /\ RdWr \subseteq Fd
    BY ReadWriteAssumption
  <1>3. /\ rw.op \in {"READ", "WRITE"} /\ rw.fd \in RdWr
        /\ rw.from \in Nat /\ rw.len \in Nat /\ rw.done \in Nat /\ rw.off \in Nat
        /\ rw.i \in Nat /\ rw.done <= rw.len
    BY <1>1, <1>2 DEF RequestOK, RequestSet
  <1>4. Capacity \in Nat
    BY <1>2, Product DEF Capacity
  <1>5. rw.fd \in Fd /\ FileOf[rw.fd] \in File
    BY <1>2, <1>3
  <1>6. QED
    BY <1>1, <1>2, <1>3, <1>4, <1>5, Starts

\* A chunk of a request that stays in its extent, as the files see it.
LEMMA ChunkTransferred ==
    ASSUME Inv, MoveChunk, rw.op = "WRITE", rw.from + rw.len <= Capacity,
           NEW g \in File, NEW b \in 0 .. Capacity - 1
    PROVE  disk'[Base(g) + b] =
              IF g = FileOf[rw.fd] /\ b \in rw.from + rw.done .. rw.from + rw.done + Bytes - 1
              THEN rw.data[b - rw.from + 1] ELSE disk[Base(g) + b]
  <1> DEFINE f == FileOf[rw.fd]
             a == Base(g) + b
             k == a - Base(f) - rw.from
  <1>1. /\ rw # NoCall /\ rw.loaded
        /\ RequestOK /\ ChunkOK /\ LoadedOK /\ f \in File
        /\ rw.from \in Nat /\ rw.len \in Nat /\ rw.done \in Nat
        /\ Base(f) \in Nat /\ Capacity \in Nat
    BY LoopFacts DEF MoveChunk
  <1>2. Bytes \in Nat /\ rw.done + Bytes <= rw.len
    BY <1>1, BytesOfChunk
  <1>3. Base(g) \in Nat
    BY Starts
  <1>4. disk'[a] = IF k \in rw.done .. rw.done + Bytes - 1 THEN rw.data[k + 1] ELSE disk[a]
    <2>1. a \in SectorBytes(NSect)
      BY ExtentOnDisk
    <2>2. QED
      BY <2>1, ChunkWritten
  <1>5. CASE g = f
    <2>1. k = b - rw.from /\ b \in Nat
      BY <1>1, <1>3, <1>5
    <2> HIDE DEF k, a
    <2>2. k \in rw.done .. rw.done + Bytes - 1
             <=> b \in rw.from + rw.done .. rw.from + rw.done + Bytes - 1
      BY <1>1, <1>2, <2>1
    <2>3. QED
      BY <1>4, <1>5, <2>1, <2>2 DEF a
  <1>6. CASE g # f
    <2>1. Base(f) + Capacity <= Base(g) \/ Base(g) + Capacity <= Base(f)
      <3>1. f < g \/ g < f
        BY <1>1, <1>6, ReadWriteAssumption DEF File
      <3>2. QED
        BY <1>1, <3>1, ExtentsApart
    <2>2. b \in Nat /\ b < Capacity
      BY <1>1
    <2>3. k \notin rw.done .. rw.done + Bytes - 1
      BY <1>1, <1>2, <1>3, <2>1, <2>2
    <2> HIDE DEF k
    <2>4. QED
      BY <1>4, <1>6, <2>3
  <1>7. QED
    BY <1>5, <1>6

LEMMA MoveChunkPromised ==
    ASSUME Inv, MoveChunk
    PROVE  Files!Next
  <1> DEFINE f == FileOf[rw.fd]
  <1>1. rw # NoCall /\ rw.loaded
    BY DEF MoveChunk
  <1>2. /\ RequestOK /\ ChunkOK /\ InPlace /\ LoadedOK
        /\ rw.op \in {"READ", "WRITE"} /\ rw.fd \in RdWr /\ rw.fd \in Fd
        /\ rw.from \in Nat /\ rw.len \in Nat /\ rw.done \in Nat /\ rw.off \in Nat
        /\ f \in File /\ Base(f) \in Nat /\ Capacity \in Nat /\ SECTOR_SIZE \in Nat \ {0}
    BY <1>1, LoopFacts
  <1>3. Bytes \in Nat /\ rw.done + Bytes <= rw.len
    BY <1>1, <1>2, BytesOfChunk
  <1>4. /\ rw'.op = rw.op /\ rw'.fd = rw.fd /\ rw'.from = rw.from /\ rw'.len = rw.len
        /\ rw'.data = rw.data /\ rw'.done = rw.done + Bytes
    BY <1>2 DEF MoveChunk, RequestOK, RequestSet
  <1>5. rw' # NoCall
    BY <1>2, <1>4 DEF NoCall
  <1>6. /\ Request.op = rw.op /\ Request.fd = rw.fd /\ Request.from = rw.from
        /\ Request.len = rw.len /\ Request.data = rw.data /\ Request.done = rw.done
        /\ Request # Files!NoCall
    BY <1>1, <1>2, RequestFields
  <1>7. Request' = [Request EXCEPT !.done = Request.done + Bytes]
    BY <1>1, <1>4, <1>5 DEF Request
  <1>8. fd_pos' = [fd_pos EXCEPT ![rw.fd] = fd_pos[rw.fd] + Bytes]
    BY DEF MoveChunk
  <1>9. PICK n \in Nat : n = Bytes
    BY <1>3
  <1>10. ASSUME Files!Transfer(n) PROVE Files!Next
    <2>1. n \in 0 .. Request.len
      BY <1>2, <1>3, <1>6, <1>9
    <2>2. QED
      BY <1>6, <1>10, <2>1 DEF Files!Next
  <1>11. CASE Files!Inside(Request)
    <2>1. rw.from + rw.len <= Capacity
      BY <1>6, <1>11 DEF Files!Inside
    <2>2. CASE rw.op = "READ"
      <3>1. got' = got \o [k \in 1 .. Bytes |-> fsbuf[rw.off + k - 1]] /\ disk' = disk
        BY <2>2 DEF MoveChunk
      <3>2. ASSUME NEW k \in 1 .. Bytes
            PROVE  fsbuf[rw.off + k - 1] = Content[f][rw.from + rw.done + (k - 1)]
        <4>1. k - 1 \in 0 .. Bytes - 1 /\ rw.off + (k - 1) = rw.off + k - 1
          BY <1>2, <1>3
        <4>2. fsbuf[rw.off + (k - 1)] = disk[Base(f) + rw.from + rw.done + (k - 1)]
          BY <1>1, <1>2, <4>1, NextBytes DEF Inv
        <4>3. rw.from + rw.done + (k - 1) \in 0 .. Capacity - 1
          BY <1>2, <1>3, <2>1
        <4>4. Base(f) + rw.from + rw.done + (k - 1) = Base(f) + (rw.from + rw.done + (k - 1))
          BY <1>2
        <4>5. Content[f][rw.from + rw.done + (k - 1)] = disk[Base(f) + (rw.from + rw.done + (k - 1))]
          BY <1>2, <4>3 DEF Content, Base
        <4>6. QED
          BY <4>1, <4>2, <4>4, <4>5
      <3>3. got' = got \o [k \in 1 .. Bytes |-> Content[f][rw.from + rw.done + (k - 1)]]
        BY <3>1, <3>2
      <3>4. Content' = Content
        BY <3>1 DEF Content, i_start_sect
      <3>5. Files!Transfer(n)
        BY <1>3, <1>9, <1>6, <1>7, <1>8, <1>11, <2>2, <3>3, <3>4
           DEF Files!Transfer, MoveChunk, Content
      <3>6. QED
        BY <1>10, <3>5
    <2>3. CASE rw.op = "WRITE"
      <3> DEFINE moved == [b \in 0 .. Capacity - 1 |->
                    IF b \in rw.from + rw.done + 0 .. rw.from + rw.done + (Bytes - 1)
                    THEN rw.data[b - rw.from + 1] ELSE Content[f][b]]
      <3>1. ASSUME NEW g \in File
            PROVE  Content'[g] = IF g = f THEN moved ELSE Content[g]
        <4>1. ASSUME NEW b \in 0 .. Capacity - 1
              PROVE  /\ Content'[g][b] = disk'[Base(g) + b]
                     /\ Content[g][b] = disk[Base(g) + b]
          BY DEF Content, Base, i_start_sect
        <4>2. ASSUME NEW b \in 0 .. Capacity - 1
              PROVE  Content'[g][b] = IF g = f THEN moved[b] ELSE Content[g][b]
          <5>1. disk'[Base(g) + b] =
                   IF g = f /\ b \in rw.from + rw.done .. rw.from + rw.done + Bytes - 1
                   THEN rw.data[b - rw.from + 1] ELSE disk[Base(g) + b]
            BY <2>1, <2>3, ChunkTransferred
          <5>2. /\ rw.from + rw.done + 0 = rw.from + rw.done
                /\ rw.from + rw.done + (Bytes - 1) = rw.from + rw.done + Bytes - 1
            BY <1>2, <1>3
          <5>3. QED
            BY <4>1, <5>1, <5>2
        <4>3. /\ Content'[g] = [b \in 0 .. Capacity - 1 |-> Content'[g][b]]
              /\ Content[g] = [b \in 0 .. Capacity - 1 |-> Content[g][b]]
          BY DEF Content
        <4>4. moved = [b \in 0 .. Capacity - 1 |-> moved[b]]
          OBVIOUS
        <4> HIDE DEF moved
        <4>5. QED
          BY <4>2, <4>3, <4>4
      <3>2. /\ Content' = [g \in File |-> Content'[g]]
            /\ Content = [g \in File |-> Content[g]]
        BY DEF Content
      <3>3. Content' = [Content EXCEPT ![f] = moved]
        <4> HIDE DEF moved
        <4>1. QED
          BY <1>2, <3>1, <3>2
      <3>4. got' = got
        BY <2>3 DEF MoveChunk
      <3>5. Files!Transfer(n)
        BY <1>3, <1>9, <1>6, <1>7, <1>8, <1>11, <2>3, <3>3, <3>4
           DEF Files!Transfer, MoveChunk, Content
      <3>6. QED
        BY <1>10, <3>5
    <2>4. QED
      BY <1>2, <2>2, <2>3
  <1>12. CASE ~ Files!Inside(Request)
    <2>1. /\ Request'.op = Request.op /\ Request'.fd = Request.fd
          /\ Request'.from = Request.from /\ Request'.len = Request.len
      BY <1>4, <1>5, <1>6 DEF Request
    <2>2. i_size' = i_size
      BY DEF MoveChunk
    <2>3. ~ Files!Inside(Request)'
      BY <1>12, <2>1, <2>2 DEF Files!Inside
    <2>4. \A fd \in Fd \ {Request.fd} : fd_pos'[fd] = fd_pos[fd]
      BY <1>6, <1>8 DEF Inv, TypeOK
    <2>5. Files!Beyond
      BY <1>6, <1>12, <2>1, <2>2, <2>3, <2>4 DEF Files!Beyond
    <2>6. QED
      BY <2>5 DEF Files!Next
  <1>13. QED
    BY <1>11, <1>12

\* When the loop ends, a request inside the file has been moved as a whole.
LEMMA AllMoved ==
    ASSUME Inv, Return, Files!Inside(Request)
    PROVE  rw.done = rw.len
  <1> DEFINE f   == FileOf[rw.fd]
             end == rw.from + rw.len
             last == end \div SECTOR_SIZE
  <1>1. rw # NoCall /\ rw.i > rw.sectMax
    BY DEF Return
  <1>2. /\ ChunkOK /\ InPlace
        /\ rw.from \in Nat /\ rw.len \in Nat /\ rw.done \in Nat /\ rw.off \in Nat
        /\ rw.i \in Nat /\ rw.done <= rw.len
        /\ f \in File /\ Base(f) \in Nat /\ SECTOR_SIZE \in Nat \ {0}
    BY <1>1, LoopFacts
  <1>3. end <= (IF rw.op = "READ" THEN i_size[f] ELSE Capacity)
    <2>1. Request.op = rw.op /\ Request.fd = rw.fd /\ Request.from = rw.from /\ Request.len = rw.len
      BY <1>1, RequestFields
    <2>2. QED
      BY <2>1 DEF Files!Inside
  <1>4. rw.sectMax = i_start_sect(f) + last
    <2>1. i_size[f] \in Nat
      BY <1>2, ReadWriteAssumption DEF Inv, TypeOK
    <2>2. end \in Nat
      BY <1>2
    <2>3. SectMax(f, rw.op, end) = i_start_sect(f) + last
      BY <1>2, <1>3, <2>1, <2>2, LastSector
    <2>4. QED
      BY <2>3, <1>2 DEF ChunkOK
  <1>5. /\ last \in Nat
        /\ end % SECTOR_SIZE \in 0 .. SECTOR_SIZE - 1
        /\ last * SECTOR_SIZE + (end % SECTOR_SIZE) = end
    <2>1. end \in Nat
      BY <1>2
    <2>2. QED
      BY <1>2, <2>1, SectorAndOffset
  <1>6. i_start_sect(f) \in Nat
    BY <1>2, Starts
  <1> HIDE DEF last, f
  <1>7. i_start_sect(f) + (last + 1) <= rw.i
    BY <1>1, <1>2, <1>4, <1>5, <1>6
  <1>8. /\ (i_start_sect(f) + (last + 1)) * SECTOR_SIZE <= rw.i * SECTOR_SIZE
        /\ (i_start_sect(f) + (last + 1)) * SECTOR_SIZE = Base(f) + (last + 1) * SECTOR_SIZE
        /\ (last + 1) * SECTOR_SIZE = last * SECTOR_SIZE + 1 * SECTOR_SIZE
    <2>1. last + 1 \in Nat /\ i_start_sect(f) + (last + 1) \in Nat
      BY <1>5, <1>6
    <2>2. (i_start_sect(f) + (last + 1)) * SECTOR_SIZE <= rw.i * SECTOR_SIZE
      BY <1>2, <1>7, <2>1, Monotone
    <2>3. (i_start_sect(f) + (last + 1)) * SECTOR_SIZE = Base(f) + (last + 1) * SECTOR_SIZE
      BY <1>2, <1>6, <2>1, Distributes DEF Base
    <2>4. (last + 1) * SECTOR_SIZE = last * SECTOR_SIZE + 1 * SECTOR_SIZE
      BY <1>2, <1>5, Distributes
    <2>5. QED
      BY <2>2, <2>3, <2>4
  <1>9. last * SECTOR_SIZE \in Nat /\ rw.i * SECTOR_SIZE \in Nat
    BY <1>2, <1>5, Product
  <1>10. Base(f) + end < rw.i * SECTOR_SIZE
    BY <1>2, <1>5, <1>8, <1>9
  <1>11. rw.done < rw.len => rw.i * SECTOR_SIZE + rw.off = Base(f) + rw.from + rw.done
    BY <1>2 DEF InPlace, f
  <1>12. QED
    BY <1>2, <1>9, <1>10, <1>11

LEMMA ReturnPromised ==
    ASSUME Inv, Return
    PROVE  Files!Next
  <1>1. rw # NoCall /\ rw' = NoCall
    BY DEF Return
  <1>2. rw.op \in {"READ", "WRITE"} /\ rw.fd \in Fd /\ FileOf[rw.fd] \in File
    BY <1>1, LoopFacts
  <1>3. /\ Request.op = rw.op /\ Request.fd = rw.fd /\ Request.from = rw.from
        /\ Request.len = rw.len /\ Request.data = rw.data /\ Request.done = rw.done
        /\ Request # Files!NoCall
    BY <1>1, <1>2, RequestFields
  <1>4. Request' = Files!NoCall
    BY <1>1 DEF Request, NoCall, Files!NoCall
  <1>5. Content' = Content
    BY DEF Return, Content, i_start_sect
  <1>6. /\ i_size' = [i_size EXCEPT ![FileOf[rw.fd]] =
                        IF fd_pos[rw.fd] > i_size[FileOf[rw.fd]]
                        THEN fd_pos[rw.fd] ELSE i_size[FileOf[rw.fd]]]
        /\ i_size' \in [File -> Int]
    <2>1. i_size \in [File -> Int] /\ fd_pos[rw.fd] \in Int
      BY <1>2, ReadWriteAssumption DEF Inv, TypeOK
    <2>2. CASE fd_pos[rw.fd] > i_size[FileOf[rw.fd]]
      <3>1. i_size' = [i_size EXCEPT ![FileOf[rw.fd]] = fd_pos[rw.fd]]
        BY <2>2 DEF Return, Grow
      <3>2. QED
        BY <1>2, <2>1, <2>2, <3>1
    <2>3. CASE ~ (fd_pos[rw.fd] > i_size[FileOf[rw.fd]])
      <3>1. i_size' = i_size
        BY <2>3 DEF Return, Grow
      <3>2. QED
        BY <1>2, <2>1, <2>3, <3>1
    <2>4. QED
      BY <2>2, <2>3
  <1>7. CASE Files!Inside(Request)
    <2>1. rw.done = rw.len
      BY <1>7, AllMoved
    <2>2. Files!Return
      BY <1>3, <1>4, <1>5, <1>6, <1>7, <2>1 DEF Files!Return, Return, Content
    <2>3. QED
      BY <2>2 DEF Files!Next
  <1>8. CASE ~ Files!Inside(Request)
    <2>1. \A f \in File \ {FileOf[Request.fd]} : i_size'[f] = i_size[f]
      BY <1>2, <1>3, <1>6, ReadWriteAssumption DEF Inv, TypeOK
    <2>2. fd_pos' = fd_pos
      BY DEF Return
    <2>3. Files!Beyond
      BY <1>3, <1>4, <1>8, <2>1, <2>2 DEF Files!Beyond
    <2>4. QED
      BY <2>3 DEF Files!Next
  <1>9. QED
    BY <1>7, <1>8

LEMMA StepPromised == Inv /\ [Next]_vars => [Files!Next]_(Files!vars)
  <1> SUFFICES ASSUME Inv, [Next]_vars PROVE [Files!Next]_(Files!vars)
    OBVIOUS
  <1>1. ASSUME NEW fd \in Fd, Refuse(fd) PROVE Files!Next
    BY <1>1, RefusePromised DEF Files!Next
  <1>2. ASSUME NEW fd \in Fd, NEW len \in Length, Begin(fd, "READ", len, <<>>) PROVE Files!Next
    BY <1>2, BeginPromised DEF Files!Next
  <1>3. ASSUME NEW fd \in Fd, NEW len \in Length, NEW data \in Data, Begin(fd, "WRITE", len, data)
        PROVE  Files!Next
    BY <1>3, BeginPromised DEF Files!Next
  <1>4. CASE ReadChunk
    BY <1>4, ReadChunkPromised
  <1>5. CASE MoveChunk
    BY <1>5, MoveChunkPromised
  <1>6. CASE Return
    BY <1>6, ReturnPromised
  <1>7. CASE UNCHANGED vars
    <2>1. Request' = Request /\ Content' = Content
      BY <1>7 DEF vars, Request, Content, i_start_sect
    <2>2. QED
      BY <1>7, <2>1 DEF vars, Files!vars, Content
  <1>8. QED
    BY <1>1, <1>2, <1>3, <1>4, <1>5, <1>6, <1>7 DEF Next

\* do_rdwt implements Store for every size of sectors, extents, buffer and
\* request.
THEOREM StoreRefinement == Spec => KeepsPromise
  <1>1. Init => Files!Init
    BY InitPromised
  <1>2. Inv /\ [Next]_vars => [Files!Next]_(Files!vars)
    BY StepPromised
  <1>3. QED
    BY <1>1, <1>2, LoopInvariance, PTL DEF Spec, KeepsPromise, Files!Spec
=============================================================================
