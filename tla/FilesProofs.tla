---------------------------- MODULE FilesProofs ----------------------------
(***************************************************************************)
(* Proofs about Files for any number of processes, names, descriptors,     *)
(* inodes and extents, and any size of the directory and its sectors; and, *)
(* in the second part, that Bitmaps implements Extents for any sizes.      *)
(***************************************************************************)
EXTENDS Files, DiskMaps, FiniteSetTheorems, WellFoundedInduction, TLAPS

(***************************************************************************)
(* The inductive invariant.                                                *)
(***************************************************************************)

Users(s) == {d \in Desc : fd_inode[d] = s}

\* The inodes mkfs makes stay.
Mounted ==
    /\ ROOT_INODE \in imap /\ TTY_INODE \in imap
    /\ inode_array[ROOT_INODE].i_mode # REGULAR
    /\ inode_array[TTY_INODE].i_mode # REGULAR

Counted == \A s \in Slot : i_cnt[s] >= Cardinality(Users(s))

\* An inode in use is cached in one slot, marked as used, and as on disk.
CacheExact ==
    \A s \in Slot : i_cnt[s] > 0 =>
        /\ i_num[s] \in imap
        /\ \A t \in Slot : (i_cnt[t] > 0 /\ i_num[t] = i_num[s]) => t = s
        /\ inode_array[i_num[s]] = [i_mode |-> i_mode[s], i_start_sect |-> i_start_sect[s]]

Regular == {n \in Num : inode_array[n].i_mode = REGULAR}

\* What ExtentsExact says, with an owner for each extent instead of a count.
ExtentsOwned ==
    halted = "no" =>
        /\ Regular = imap \ {ROOT_INODE, TTY_INODE}
        /\ smap = {inode_array[n].i_start_sect : n \in Regular}
        /\ \A m, n \in Regular : inode_array[m].i_start_sect = inode_array[n].i_start_sect => m = n

FilesInv ==
    /\ TypeOK /\ Mounted /\ Counted /\ CacheExact
    /\ ExtentsOwned /\ NamesResolve /\ UnlinkFindsEntry

-----------------------------------------------------------------------------
(***************************************************************************)
(* Lemmas about the helpers.                                               *)
(***************************************************************************)

LEMMA LeastOf ==
    ASSUME NEW S \in SUBSET Nat, S # {}
    PROVE  Least(S) \in S /\ \A y \in S : Least(S) <= y
<1>1. PICK x \in S : \A y \in S : <<y, x>> \notin OpToRel(<, Nat)
  BY WFMin, NatLessThanWellFounded, Zenon
<1>2. \A y \in S : x <= y
  <2> SUFFICES ASSUME NEW y \in S, y < x PROVE FALSE
    OBVIOUS
  <2>1. <<y, x>> \in OpToRel(<, Nat)
    BY DEF OpToRel
  <2> QED BY <1>1, <2>1, Zenon
<1> HIDE <1>1
<1> QED BY <1>2 DEF Least

\* Constants and variables have the types that the provers need to know.
LEMMA Sets ==
    /\ ROOT_INODE \in Num /\ TTY_INODE \in Num
    /\ Slot \subseteq Nat \ {0} /\ Num \subseteq Nat \ {0} /\ Extent \subseteq Nat \ {0}
    /\ Fd \subseteq Nat /\ Desc \subseteq Nat \ {0} /\ MaxEntries \in Nat /\ MaxEntries >= 2
    /\ PerBlock \in Nat /\ PerBlock >= 2 /\ NR_INODE \in Nat /\ NR_INODE >= 1
    /\ IsFiniteSet(Desc) /\ IsFiniteSet(Num)
<1>1. NR_FILE_DESC \in Nat \ {0} /\ NR_FILES \in Nat \ {0} /\ NR_INODE \in Nat \ {0}
  BY FilesAssumption, Zenon
<1>2. NInode \in Nat /\ NInode >= 2 /\ NExtent \in Nat
  BY FilesAssumption, Zenon
<1>3. PerBlock \in Nat /\ PerBlock >= 2 /\ MaxEntries \in Nat /\ MaxEntries >= 2
  BY FilesAssumption, Zenon
<1>4. IsFiniteSet(Desc) /\ IsFiniteSet(Num)
  BY <1>1, <1>2, FS_Interval DEF Desc, Num
<1> QED BY <1>1, <1>2, <1>3, <1>4 DEF ROOT_INODE, TTY_INODE, Num, Slot, Extent, Fd, Desc

LEMMA Types ==
    ASSUME FilesInv
    PROVE  /\ filp \in [Proc \cup Child -> [Fd -> Desc \cup {0}]]
           /\ \A q \in Proc \cup Child, fd \in Fd : filp[q][fd] \in Desc \cup {0}
           /\ fd_inode \in [Desc -> Slot \cup {0}] /\ fd_cnt \in [Desc -> Nat]
           /\ i_cnt \in [Slot -> Nat] /\ \A s \in Slot : i_cnt[s] \in Nat
<1>1. /\ filp \in [Proc \cup Child -> [Fd -> Desc \cup {0}]]
      /\ fd_inode \in [Desc -> Slot \cup {0}] /\ fd_cnt \in [Desc -> Nat]
      /\ i_cnt \in [Slot -> Nat]
  BY DEF FilesInv, TypeOK
<1> QED BY <1>1

LEMMA UsersFinite ==
    ASSUME NEW s
    PROVE  /\ IsFiniteSet(Users(s)) /\ Cardinality(Users(s)) \in Nat
           /\ IsFiniteSet(Users(s)') /\ Cardinality(Users(s)') \in Nat
<1>1. Users(s) \subseteq Desc /\ Users(s)' \subseteq Desc
  BY DEF Users
<1>2. IsFiniteSet(Users(s)) /\ IsFiniteSet(Users(s)')
  BY <1>1, Sets, FS_Subset
<1> QED BY <1>2, FS_CardinalityType

\* What fork counts is finite.
LEMMA FdsFinite ==
    ASSUME NEW q, NEW x
    PROVE  Cardinality(FdsOf(q, x)) \in Nat /\ Cardinality(FdsInto(q, x)) \in Nat
<1>1. NR_FILES \in Nat
  BY FilesAssumption, Zenon
<1>2. IsFiniteSet(Fd)
  BY <1>1, FS_Interval DEF Fd
<1>3. FdsOf(q, x) \subseteq Fd /\ FdsInto(q, x) \subseteq Fd
  BY DEF FdsOf, FdsInto
<1>4. IsFiniteSet(FdsOf(q, x)) /\ IsFiniteSet(FdsInto(q, x))
  BY <1>2, <1>3, FS_Subset
<1> QED BY <1>4, FS_CardinalityType

\* A name that is found leads to an inode in use.
LEMMA Found ==
    ASSUME FilesInv, halted = "no", NEW name, search_file(name) # 0
    PROVE  search_file(name) \in imap /\ search_file(name) \in Num
<1> DEFINE E == {e \in Searched : root_dir[e].name = name}
<1>1. CASE name = "/"
  BY <1>1, Sets DEF FilesInv, Mounted, search_file
<1>2. CASE name # "/"
  <2>1. E # {} /\ search_file(name) = root_dir[Least(E)].inode_nr
    BY <1>2 DEF search_file
  <2>2. Least(E) \in E
    BY <2>1, LeastOf DEF Searched
  <2>3. Least(E) \in 1 .. MaxEntries
    BY <2>2 DEF Searched
  <2> QED BY <2>1, <2>3 DEF FilesInv, NamesResolve, TypeOK
<1> QED BY <1>1, <1>2

\* get_inode finds the slot that caches the inode, or a free one; either way
\* the inode it gives is the one on disk.
LEMMA SlotFound ==
    ASSUME FilesInv, NEW n \in Num, Room(n)
    PROVE  /\ SlotOf(n) \in Slot
           /\ Inode(n) = inode_array[n]
           /\ Cnt(n) = i_cnt[SlotOf(n)] + 1
           /\ Cached(n) # {} => i_cnt[SlotOf(n)] > 0 /\ i_num[SlotOf(n)] = n
           /\ Cached(n) = {} => i_cnt[SlotOf(n)] = 0
<1>1. CASE Cached(n) # {}
  <2>1. SlotOf(n) \in Cached(n)
    BY <1>1, LeastOf, Sets DEF SlotOf, Cached
  <2> QED BY <1>1, <2>1 DEF FilesInv, CacheExact, Cached, Inode, Cnt
<1>2. CASE Cached(n) = {}
  <2>1. SlotOf(n) \in FreeSlots
    BY <1>2, LeastOf, Sets DEF SlotOf, FreeSlots, Room
  <2> QED BY <1>2, <2>1 DEF FreeSlots, Inode, Cnt
<1> QED BY <1>1, <1>2

\* What get_inode does to the cache, whichever slot it takes.
LEMMA Taken ==
    ASSUME FilesInv, NEW n \in imap, Room(n), get_inode(n), UNCHANGED <<imap, inode_array>>
    PROVE  /\ i_num' \in [Slot -> Num \cup {0}] /\ i_cnt' \in [Slot -> Nat]
           /\ i_mode' \in [Slot -> Mode] /\ i_start_sect' \in [Slot -> Extent \cup {0}]
           /\ i_cnt'[SlotOf(n)] = i_cnt[SlotOf(n)] + 1
           /\ \A s \in Slot : s # SlotOf(n) => i_cnt'[s] = i_cnt[s]
           /\ CacheExact'
<1>1. n \in Num
  BY DEF FilesInv, TypeOK
<1>2. /\ SlotOf(n) \in Slot /\ Inode(n) = inode_array[n] /\ Cnt(n) = i_cnt[SlotOf(n)] + 1
      /\ Cached(n) # {} => i_cnt[SlotOf(n)] > 0 /\ i_num[SlotOf(n)] = n
      /\ Cached(n) = {} => i_cnt[SlotOf(n)] = 0
  BY <1>1, SlotFound
<1>3. inode_array[n] = [i_mode |-> inode_array[n].i_mode, i_start_sect |-> inode_array[n].i_start_sect]
      /\ inode_array[n].i_mode \in Mode /\ inode_array[n].i_start_sect \in Extent \cup {0}
  BY <1>1 DEF FilesInv, TypeOK
<1>4. /\ i_num' \in [Slot -> Num \cup {0}] /\ i_cnt' \in [Slot -> Nat]
      /\ i_mode' \in [Slot -> Mode] /\ i_start_sect' \in [Slot -> Extent \cup {0}]
  <2>1. /\ i_num' = [i_num EXCEPT ![SlotOf(n)] = n]
        /\ i_cnt' = [i_cnt EXCEPT ![SlotOf(n)] = i_cnt[SlotOf(n)] + 1]
        /\ i_mode' = [i_mode EXCEPT ![SlotOf(n)] = inode_array[n].i_mode]
        /\ i_start_sect' = [i_start_sect EXCEPT ![SlotOf(n)] = inode_array[n].i_start_sect]
    BY <1>2 DEF get_inode
  <2>2. /\ i_num \in [Slot -> Num \cup {0}] /\ i_cnt \in [Slot -> Nat]
        /\ i_mode \in [Slot -> Mode] /\ i_start_sect \in [Slot -> Extent \cup {0}]
    BY DEF FilesInv, TypeOK
  <2> QED BY <1>1, <1>2, <1>3, <2>1, <2>2
<1>5. /\ i_cnt'[SlotOf(n)] = i_cnt[SlotOf(n)] + 1 /\ i_num'[SlotOf(n)] = n
      /\ i_mode'[SlotOf(n)] = inode_array[n].i_mode
      /\ i_start_sect'[SlotOf(n)] = inode_array[n].i_start_sect
      /\ \A s \in Slot : s # SlotOf(n) =>
           /\ i_cnt'[s] = i_cnt[s] /\ i_num'[s] = i_num[s] /\ i_mode'[s] = i_mode[s]
           /\ i_start_sect'[s] = i_start_sect[s]
  BY <1>2 DEF get_inode, FilesInv, TypeOK
<1>6. \A s \in Slot : (i_cnt[s] > 0 /\ i_num[s] = n) => s = SlotOf(n)
  BY <1>2 DEF Cached, FilesInv, CacheExact
<1>7. CacheExact'
  BY <1>2, <1>3, <1>5, <1>6 DEF FilesInv, CacheExact
<1> QED BY <1>4, <1>5, <1>7

\* A new descriptor adds one user to its slot.
LEMMA Connected ==
    ASSUME FilesInv, NEW q \in Proc \cup Child, NEW s \in Slot, Connect(q, s)
    PROVE  /\ filp' \in [Proc \cup Child -> [Fd -> Desc \cup {0}]]
           /\ fd_inode' \in [Desc -> Slot \cup {0}] /\ fd_cnt' \in [Desc -> Nat]
           /\ Cardinality(Users(s)') <= Cardinality(Users(s)) + 1
           /\ \A t \in Slot : t # s => Cardinality(Users(t)') <= Cardinality(Users(t))
           /\ \A d \in Desc : fd_inode[d] # 0 => fd_inode'[d] = fd_inode[d]
<1> DEFINE fd == Least(FreeFds(q))
           d0 == Least(FreeDescs)
<1>1. fd \in Fd /\ filp[q][fd] = 0
  BY LeastOf, Sets DEF Connect, FreeFds
<1>2. d0 \in Desc /\ fd_inode[d0] = 0
  BY LeastOf, Sets DEF Connect, FreeDescs
<1>3. /\ filp' = [filp EXCEPT ![q][fd] = d0] /\ fd_inode' = [fd_inode EXCEPT ![d0] = s]
      /\ fd_cnt' = [fd_cnt EXCEPT ![d0] = 1]
  BY DEF Connect
<1> HIDE DEF fd, d0
<1>4. filp' \in [Proc \cup Child -> [Fd -> Desc \cup {0}]]
  BY <1>1, <1>2, <1>3 DEF FilesInv, TypeOK
<1>5. fd_inode' \in [Desc -> Slot \cup {0}] /\ fd_cnt' \in [Desc -> Nat]
  BY <1>2, <1>3 DEF FilesInv, TypeOK
<1>6. Users(s)' \subseteq Users(s) \cup {d0}
  BY <1>2, <1>3 DEF Users, FilesInv, TypeOK
<1>7. Cardinality(Users(s)') <= Cardinality(Users(s)) + 1
  <2>1. IsFiniteSet(Users(s)) /\ Cardinality(Users(s)) \in Nat
    BY UsersFinite
  <2>2. /\ IsFiniteSet(Users(s) \cup {d0})
        /\ Cardinality(Users(s) \cup {d0}) <= Cardinality(Users(s)) + 1
        /\ Cardinality(Users(s) \cup {d0}) \in Nat
    <3>1. /\ IsFiniteSet(Users(s) \cup {d0})
          /\ Cardinality(Users(s) \cup {d0}) =
               IF d0 \in Users(s) THEN Cardinality(Users(s)) ELSE Cardinality(Users(s)) + 1
      BY <2>1, FS_AddElement, Zenon
    <3> QED BY <2>1, <3>1
  <2>3. Cardinality(Users(s)') <= Cardinality(Users(s) \cup {d0}) /\ IsFiniteSet(Users(s)')
    BY <1>6, <2>2, FS_Subset
  <2>4. Cardinality(Users(s)') \in Nat
    BY <2>3, FS_CardinalityType
  <2> QED BY <2>1, <2>2, <2>3, <2>4
<1>8. ASSUME NEW t \in Slot, t # s PROVE Cardinality(Users(t)') <= Cardinality(Users(t))
  <2>1. Users(t)' \subseteq Users(t)
    BY <1>2, <1>3, <1>8 DEF Users, FilesInv, TypeOK
  <2> QED BY <2>1, UsersFinite, FS_Subset
<1>9. \A d \in Desc : fd_inode[d] # 0 => fd_inode'[d] = fd_inode[d]
  BY <1>2, <1>3 DEF FilesInv, TypeOK
<1> QED BY <1>4, <1>5, <1>7, <1>8, <1>9

-----------------------------------------------------------------------------
(***************************************************************************)
(* The invariant holds at the start.                                       *)
(***************************************************************************)

LEMMA FilesInit == Init => FilesInv
<1> SUFFICES ASSUME Init PROVE FilesInv
  OBVIOUS
<1>1. TypeOK
  <2>1. filp \in [Proc \cup Child -> [Fd -> Desc \cup {0}]] /\ used \in SUBSET (Proc \cup Child)
    BY DEF Init
  <2>2. fd_inode \in [Desc -> Slot \cup {0}] /\ fd_cnt \in [Desc -> Nat]
    BY DEF Init
  <2>3. /\ i_num \in [Slot -> Num \cup {0}] /\ i_cnt \in [Slot -> Nat]
        /\ i_mode \in [Slot -> Mode] /\ i_start_sect \in [Slot -> Extent \cup {0}]
    BY Sets DEF Init, Mode
  <2>4. imap \in SUBSET Num /\ smap \in SUBSET Extent
    BY Sets DEF Init
  <2>5. inode_array \in [Num -> [i_mode : Mode, i_start_sect : Extent \cup {0}]]
    <3>1. \A n \in Num : inode_array[n] \in [i_mode : Mode, i_start_sect : Extent \cup {0}]
      BY DEF Init, Mode, ROOT_INODE, TTY_INODE
    <3> QED BY <3>1 DEF Init
  <2>6. root_dir \in [1 .. MaxEntries -> [inode_nr : Num \cup {0}, name : Name \cup {"", ".", TTY_NAME}]]
    BY Sets DEF Init, Free
  <2>7. nr_dir_entries \in 0 .. MaxEntries
    BY Sets DEF Init
  <2>8. halted = "no"
    BY DEF Init
  <2> QED BY <2>1, <2>2, <2>3, <2>4, <2>5, <2>6, <2>7, <2>8 DEF TypeOK
<1>2. Mounted
  BY Sets DEF Init, Mounted, ROOT_INODE, TTY_INODE, DIRECTORY, CHAR_SPECIAL, REGULAR
<1>3. Counted
  <2> SUFFICES ASSUME NEW s \in Slot PROVE i_cnt[s] >= Cardinality(Users(s))
    BY DEF Counted
  <2>1. Users(s) = {}
    BY Sets DEF Init, Users, Slot
  <2>2. Cardinality(Users(s)) = 0
    BY <2>1, FS_EmptySet
  <2> QED BY <2>2 DEF Init
<1>4. CacheExact
  <2>1. inode_array[ROOT_INODE] = [i_mode |-> DIRECTORY, i_start_sect |-> 0]
    BY Sets DEF Init, ROOT_INODE, TTY_INODE
  <2>2. \A s \in Slot : i_cnt[s] > 0 =>
          s = 1 /\ i_num[s] = ROOT_INODE /\ i_mode[s] = DIRECTORY /\ i_start_sect[s] = 0
    BY DEF Init
  <2>3. ROOT_INODE \in imap
    BY DEF Init
  <2> QED BY <2>1, <2>2, <2>3 DEF CacheExact
<1>5. ExtentsOwned
  <2>1. Regular = {}
    BY DEF Init, Regular, ROOT_INODE, TTY_INODE, DIRECTORY, CHAR_SPECIAL, REGULAR, CLEARED
  <2> QED BY <2>1 DEF Init, ExtentsOwned
<1>6. NamesResolve
  BY Sets DEF Init, NamesResolve, Free, ROOT_INODE, TTY_INODE
<1>7. UnlinkFindsEntry
  BY DEF Init, UnlinkFindsEntry
<1> QED BY <1>1, <1>2, <1>3, <1>4, <1>5, <1>6, <1>7 DEF FilesInv

-----------------------------------------------------------------------------
(***************************************************************************)
(* Every action keeps it.                                                  *)
(***************************************************************************)

LEMMA StopKeeps ==
    ASSUME FilesInv, halted = "no", Stop("panic"), UNCHANGED disk
    PROVE  FilesInv'
<1> USE DEF FilesInv, Stop, tables, cache, disk
<1>1. TypeOK' /\ Mounted'
  BY DEF TypeOK, Mounted
<1>2. Counted' /\ CacheExact'
  BY DEF Counted, CacheExact, Users
<1>3. ExtentsOwned' /\ NamesResolve' /\ UnlinkFindsEntry'
  BY DEF ExtentsOwned, NamesResolve, UnlinkFindsEntry
<1> QED BY <1>1, <1>2, <1>3

LEMMA OpenFileKeeps ==
    ASSUME FilesInv, halted = "no", NEW q \in Proc \cup Child, NEW name, OpenFile(q, name)
    PROVE  FilesInv'
<1> DEFINE n == search_file(name)
<1>1. n \in imap /\ n \in Num
  BY Found DEF OpenFile
<1>2. Room(n) /\ get_inode(n) /\ Connect(q, SlotOf(n)) /\ UNCHANGED disk
  BY DEF OpenFile
<1>3. PICK s \in Slot : s = SlotOf(n)
  BY <1>1, <1>2, SlotFound
<1> HIDE DEF n
<1>4. UNCHANGED <<imap, smap, inode_array, root_dir, nr_dir_entries, used, halted>>
  BY <1>2 DEF disk, Connect
<1>5. /\ i_num' \in [Slot -> Num \cup {0}] /\ i_cnt' \in [Slot -> Nat]
      /\ i_mode' \in [Slot -> Mode] /\ i_start_sect' \in [Slot -> Extent \cup {0}]
      /\ i_cnt'[s] = i_cnt[s] + 1 /\ \A t \in Slot : t # s => i_cnt'[t] = i_cnt[t]
      /\ CacheExact'
  BY <1>1, <1>2, <1>3, <1>4, Taken
<1>6. /\ filp' \in [Proc \cup Child -> [Fd -> Desc \cup {0}]]
      /\ fd_inode' \in [Desc -> Slot \cup {0}] /\ fd_cnt' \in [Desc -> Nat]
      /\ Cardinality(Users(s)') <= Cardinality(Users(s)) + 1
      /\ \A t \in Slot : t # s => Cardinality(Users(t)') <= Cardinality(Users(t))
  BY <1>2, <1>3, Connected
<1>7. TypeOK'
  BY <1>4, <1>5, <1>6 DEF FilesInv, TypeOK
<1>8. Counted'
  <2> SUFFICES ASSUME NEW t \in Slot PROVE i_cnt'[t] >= Cardinality(Users(t)')
    BY DEF Counted
  <2>1. i_cnt[t] >= Cardinality(Users(t)) /\ i_cnt[t] \in Nat /\ Cardinality(Users(t)) \in Nat
    BY UsersFinite DEF FilesInv, Counted, TypeOK
  <2>2. Cardinality(Users(t)') \in Nat
    BY UsersFinite
  <2> QED BY <1>5, <1>6, <2>1, <2>2
<1>9. Mounted' /\ ExtentsOwned' /\ NamesResolve' /\ UnlinkFindsEntry'
  BY <1>4 DEF FilesInv, Mounted, ExtentsOwned, Regular, NamesResolve, UnlinkFindsEntry
<1> QED BY <1>5, <1>7, <1>8, <1>9 DEF FilesInv

LEMMA UnlinkRefusedKeeps ==
    ASSUME FilesInv, halted = "no", NEW name, UnlinkRefused(name)
    PROVE  FilesInv'
<1> DEFINE n == search_file(name)
           s == SlotOf(n)
<1>1. n \in imap /\ n \in Num
  BY Found DEF UnlinkRefused
<1>2. Room(n) /\ get_inode(n) /\ UNCHANGED <<used, tables, disk, halted>>
  BY DEF UnlinkRefused
<1> HIDE DEF n, s
<1>3. /\ UNCHANGED <<imap, smap, inode_array, root_dir, nr_dir_entries, used, halted>>
      /\ UNCHANGED <<filp, fd_inode, fd_cnt>>
  BY <1>2 DEF disk, tables
<1>4. /\ i_num' \in [Slot -> Num \cup {0}] /\ i_cnt' \in [Slot -> Nat]
      /\ i_mode' \in [Slot -> Mode] /\ i_start_sect' \in [Slot -> Extent \cup {0}]
      /\ i_cnt'[s] = i_cnt[s] + 1 /\ \A t \in Slot : t # s => i_cnt'[t] = i_cnt[t]
      /\ CacheExact'
  BY <1>1, <1>2, <1>3, Taken DEF s
<1>5. TypeOK'
  BY <1>3, <1>4 DEF FilesInv, TypeOK
<1>6. Counted'
  <2> SUFFICES ASSUME NEW t \in Slot PROVE i_cnt'[t] >= Cardinality(Users(t)')
    BY DEF Counted
  <2>1. i_cnt[t] >= Cardinality(Users(t)) /\ i_cnt[t] \in Nat /\ Cardinality(Users(t)) \in Nat
    BY UsersFinite DEF FilesInv, Counted, TypeOK
  <2>2. Users(t)' = Users(t)
    BY <1>3 DEF Users
  <2> QED BY <1>4, <2>1, <2>2
<1>7. Mounted' /\ ExtentsOwned' /\ NamesResolve' /\ UnlinkFindsEntry'
  BY <1>3 DEF FilesInv, Mounted, ExtentsOwned, Regular, NamesResolve, UnlinkFindsEntry
<1> QED BY <1>4, <1>5, <1>6, <1>7 DEF FilesInv

LEMMA CreateFailsKeeps ==
    ASSUME FilesInv, halted = "no", NEW q, NEW name, CreateFails(q, name)
    PROVE  FilesInv'
<1>1. alloc_imap_bit \in Num
  <2>1. Num \ imap # {} /\ Num \ imap \subseteq Nat
    BY Sets DEF CreateFails, FilesInv, TypeOK
  <2> QED BY <2>1, LeastOf DEF alloc_imap_bit
<1>2. imap \subseteq imap' /\ imap' \in SUBSET Num
  BY <1>1 DEF CreateFails, FilesInv, TypeOK
<1>3. smap' \in SUBSET Extent /\ halted' \in {"panic", "assert(nr_sects)"}
  <2>1. Extent # smap => alloc_smap_bit \in Extent
    <3> SUFFICES ASSUME Extent # smap PROVE alloc_smap_bit \in Extent
      OBVIOUS
    <3>1. Extent \ smap # {} /\ Extent \ smap \subseteq Nat
      BY Sets DEF FilesInv, TypeOK
    <3> QED BY <3>1, LeastOf DEF alloc_smap_bit
  <2> QED BY <2>1 DEF CreateFails, Stop, FilesInv, TypeOK
<1>4. UNCHANGED <<used, filp, fd_inode, fd_cnt, i_num, i_cnt, i_mode, i_start_sect>>
      /\ UNCHANGED <<inode_array, root_dir, nr_dir_entries>>
  BY DEF CreateFails, Stop, tables, cache
<1>5. TypeOK'
  BY <1>2, <1>3, <1>4 DEF FilesInv, TypeOK
<1>6. Mounted' /\ CacheExact'
  BY <1>2, <1>4 DEF FilesInv, Mounted, CacheExact
<1>7. Counted'
  BY <1>4 DEF FilesInv, Counted, Users
<1>8. ExtentsOwned' /\ NamesResolve' /\ UnlinkFindsEntry'
  BY <1>3 DEF ExtentsOwned, NamesResolve, UnlinkFindsEntry
<1> QED BY <1>5, <1>6, <1>7, <1>8 DEF FilesInv

LEMMA CloseFileKeeps ==
    ASSUME FilesInv, halted = "no", NEW q \in Proc \cup Child, NEW fd \in Fd, CloseFile(q, fd)
    PROVE  FilesInv'
<1>1. PICK d \in Desc : d = filp[q][fd]
  <2>1. filp[q][fd] # 0
    BY DEF CloseFile
  <2> QED BY <2>1, Types
<1>2. PICK s \in Slot \cup {0} : s = fd_inode[d]
  BY DEF FilesInv, TypeOK
<1>3. /\ fd_inode' = [fd_inode EXCEPT ![d] = 0] /\ filp' = [filp EXCEPT ![q][fd] = 0]
      /\ UNCHANGED <<used, fd_cnt, i_num, i_mode, i_start_sect>>
      /\ UNCHANGED <<imap, smap, inode_array, root_dir, nr_dir_entries>>
  BY <1>1 DEF CloseFile, disk
<1>4. /\ s # 0 => i_cnt' = [i_cnt EXCEPT ![s] = @ - 1] /\ UNCHANGED halted
      /\ s = 0 => halted' \in {"no", "assert(i_cnt)"} /\ UNCHANGED i_cnt
  BY <1>1, <1>2 DEF CloseFile
<1>5. \A t \in Slot : t # s => Users(t)' = Users(t)
  <2> SUFFICES ASSUME NEW t \in Slot, t # s PROVE Users(t)' = Users(t)
    OBVIOUS
  <2>1. \A x \in Desc : x # d => fd_inode'[x] = fd_inode[x]
    BY <1>3, Types
  <2>2. fd_inode'[d] = 0 /\ t # 0 /\ fd_inode[d] # t
    BY <1>2, <1>3, Types, Sets
  <2> QED BY <2>1, <2>2 DEF Users
<1>6. ASSUME s # 0 PROVE /\ Cardinality(Users(s)') = Cardinality(Users(s)) - 1
                         /\ i_cnt[s] \in Nat /\ i_cnt[s] >= 1
  <2>1. Users(s)' = Users(s) \ {d} /\ d \in Users(s)
    BY <1>1, <1>2, <1>3, <1>6, Sets DEF Users, FilesInv, TypeOK
  <2>2. IsFiniteSet(Users(s)) /\ Cardinality(Users(s)) \in Nat /\ Cardinality(Users(s)') \in Nat
    BY UsersFinite
  <2>3. Cardinality(Users(s) \ {d}) = Cardinality(Users(s)) - 1
    BY <2>1, <2>2, FS_RemoveElement
  <2>4. i_cnt[s] >= Cardinality(Users(s)) /\ i_cnt[s] \in Nat
    BY <1>6 DEF FilesInv, Counted, TypeOK
  <2> QED BY <2>1, <2>2, <2>3, <2>4
<1>7. TypeOK'
  <2>1. i_cnt' \in [Slot -> Nat]
    <3>1. CASE s = 0
      BY <1>4, <3>1, Types
    <3>2. CASE s # 0
      <4>1. i_cnt' = [i_cnt EXCEPT ![s] = @ - 1] /\ i_cnt[s] - 1 \in Nat
        BY <1>4, <1>6, <3>2
      <4> QED BY <4>1, Types
    <3> QED BY <3>1, <3>2
  <2>2. /\ filp' \in [Proc \cup Child -> [Fd -> Desc \cup {0}]]
        /\ fd_inode' \in [Desc -> Slot \cup {0}]
    BY <1>1, <1>3 DEF FilesInv, TypeOK
  <2>3. halted' \in {"no", "assert(i_cnt)"}
    BY <1>4
  <2> QED BY <1>3, <2>1, <2>2, <2>3 DEF FilesInv, TypeOK
<1>8. Counted'
  <2> SUFFICES ASSUME NEW t \in Slot PROVE i_cnt'[t] >= Cardinality(Users(t)')
    BY DEF Counted
  <2>1. i_cnt[t] >= Cardinality(Users(t)) /\ i_cnt[t] \in Nat /\ Cardinality(Users(t)) \in Nat
    BY UsersFinite DEF FilesInv, Counted, TypeOK
  <2>2. CASE t # s
    <3>1. i_cnt'[t] = i_cnt[t]
      BY <1>2, <1>4, <2>2 DEF FilesInv, TypeOK
    <3> QED BY <1>5, <2>1, <2>2, <3>1
  <2>3. CASE t = s
    <3>1. s # 0 /\ i_cnt'[s] = i_cnt[s] - 1
      BY <1>4, <2>3, Sets, Types
    <3> QED BY <1>6, <2>1, <2>3, <3>1
  <2> QED BY <2>2, <2>3
<1>9. CacheExact'
  <2>1. \A t \in Slot : i_cnt'[t] > 0 => i_cnt[t] > 0
    <3>1. CASE s = 0
      BY <1>4, <3>1
    <3>2. CASE s # 0
      <4>1. i_cnt' = [i_cnt EXCEPT ![s] = @ - 1] /\ i_cnt[s] >= 1
        BY <1>4, <1>6, <3>2
      <4> QED BY <4>1, Types
    <3> QED BY <3>1, <3>2
  <2> QED BY <1>3, <2>1 DEF FilesInv, CacheExact
<1>10. Mounted' /\ ExtentsOwned' /\ NamesResolve' /\ UnlinkFindsEntry'
  BY <1>3, <1>4 DEF FilesInv, Mounted, ExtentsOwned, Regular, NamesResolve, UnlinkFindsEntry
<1> QED BY <1>7, <1>8, <1>9, <1>10 DEF FilesInv

LEMMA CloseNotOpenKeeps ==
    ASSUME FilesInv, halted = "no", NEW q, NEW fd, CloseNotOpen(q, fd)
    PROVE  FilesInv'
<1>1. /\ UNCHANGED <<used, tables, cache, disk>>
      /\ halted' \in {"no", "assert(i_cnt)", "exception"}
  BY DEF CloseNotOpen
<1> USE <1>1 DEF FilesInv, tables, cache, disk
<1>2. TypeOK' /\ Mounted'
  BY DEF TypeOK, Mounted
<1>3. Counted' /\ CacheExact'
  BY DEF Counted, CacheExact, Users
<1>4. ExtentsOwned' /\ NamesResolve' /\ UnlinkFindsEntry'
  BY DEF ExtentsOwned, Regular, NamesResolve, UnlinkFindsEntry
<1> QED BY <1>2, <1>3, <1>4

LEMMA ForkKeeps ==
    ASSUME FilesInv, halted = "no", NEW q \in Proc \cup Child, NEW c \in Child, Fork(q, c)
    PROVE  FilesInv'
<1>1. \A d \in Desc : Cardinality(FdsOf(q, d)) \in Nat
  BY FdsFinite
<1>2. /\ used' = used \cup {c} /\ filp' = [filp EXCEPT ![c] = filp[q]]
      /\ fd_cnt' = [d \in Desc |-> fd_cnt[d] + Cardinality(FdsOf(q, d))]
      /\ i_cnt' = [s \in Slot |-> i_cnt[s] + Cardinality(FdsInto(q, s))]
      /\ UNCHANGED <<fd_inode, i_num, i_mode, i_start_sect, halted>>
      /\ UNCHANGED <<imap, smap, inode_array, root_dir, nr_dir_entries>>
  BY DEF Fork, disk
<1>3. ASSUME NEW s \in Slot
      PROVE  /\ Cardinality(FdsInto(q, s)) \in Nat
             /\ i_cnt[s] = 0 => Cardinality(FdsInto(q, s)) = 0
  <2>1. Cardinality(FdsInto(q, s)) \in Nat
    BY FdsFinite
  <2>2. ASSUME i_cnt[s] = 0 PROVE FdsInto(q, s) = {}
    <3>1. i_cnt[s] >= Cardinality(Users(s)) /\ IsFiniteSet(Users(s)) /\ Cardinality(Users(s)) \in Nat
      BY UsersFinite DEF FilesInv, Counted
    <3>2. Users(s) = {}
      BY <2>2, <3>1, FS_EmptySet
    <3>3. \A fd \in Fd : filp[q][fd] # 0 => filp[q][fd] \in Desc
      BY Types
    <3> QED BY <3>2, <3>3 DEF FdsInto, Users
  <2> QED BY <2>1, <2>2, FS_EmptySet
<1>4. TypeOK'
  <2>1. i_cnt' \in [Slot -> Nat]
    BY <1>2, <1>3, Types
  <2>2. filp' \in [Proc \cup Child -> [Fd -> Desc \cup {0}]] /\ used' \in SUBSET (Proc \cup Child)
    BY <1>2 DEF FilesInv, TypeOK
  <2>3. fd_cnt' \in [Desc -> Nat]
    <3>1. \A d \in Desc : fd_cnt[d] + Cardinality(FdsOf(q, d)) \in Nat
      BY <1>1, Types
    <3> QED BY <1>2, <3>1
  <2> QED BY <1>2, <2>1, <2>2, <2>3 DEF FilesInv, TypeOK
<1>5. Counted'
  <2> SUFFICES ASSUME NEW t \in Slot PROVE i_cnt'[t] >= Cardinality(Users(t)')
    BY DEF Counted
  <2>1. i_cnt[t] >= Cardinality(Users(t)) /\ i_cnt[t] \in Nat /\ Cardinality(Users(t)) \in Nat
    BY UsersFinite DEF FilesInv, Counted, TypeOK
  <2>2. Users(t)' = Users(t)
    BY <1>2 DEF Users
  <2>3. i_cnt'[t] = i_cnt[t] + Cardinality(FdsInto(q, t))
    BY <1>2
  <2> QED BY <1>3, <2>1, <2>2, <2>3
<1>6. CacheExact'
  <2>1. \A t \in Slot : i_cnt'[t] > 0 => i_cnt[t] > 0
    <3> SUFFICES ASSUME NEW t \in Slot, i_cnt'[t] > 0, i_cnt[t] = 0 PROVE FALSE
      BY Types
    <3>1. i_cnt'[t] = i_cnt[t] + Cardinality(FdsInto(q, t))
      BY <1>2
    <3> QED BY <1>3, <3>1
  <2> QED BY <1>2, <2>1 DEF FilesInv, CacheExact
<1>7. Mounted' /\ ExtentsOwned' /\ NamesResolve' /\ UnlinkFindsEntry'
  BY <1>2 DEF FilesInv, Mounted, ExtentsOwned, Regular, NamesResolve, UnlinkFindsEntry
<1> QED BY <1>4, <1>5, <1>6, <1>7 DEF FilesInv

LEMMA CreateFileKeeps ==
    ASSUME FilesInv, halted = "no", NEW q \in Proc \cup Child, NEW name \in Name, CreateFile(q, name)
    PROVE  FilesInv'
<1>1. PICK n \in Num \ imap : n = alloc_imap_bit
  <2>1. Num \ imap # {} /\ Num \ imap \subseteq Nat
    BY Sets DEF CreateFile, FilesInv, TypeOK
  <2> QED BY <2>1, LeastOf DEF alloc_imap_bit
<1>2. PICK x \in Extent \ smap : x = alloc_smap_bit
  <2>1. Extent \ smap # {} /\ Extent \ smap \subseteq Nat
    BY Sets DEF CreateFile, FilesInv, TypeOK
  <2> QED BY <2>1, LeastOf DEF alloc_smap_bit
<1>3. Room(n)
  BY <1>1 DEF CreateFile
<1>4. Cached(n) = {} /\ \A t \in Slot : i_cnt[t] > 0 => i_num[t] # n
  BY <1>1 DEF Cached, FilesInv, CacheExact
<1>5. PICK s \in Slot : s = SlotOf(n) /\ i_cnt[s] = 0
  BY <1>1, <1>3, <1>4, SlotFound
<1>6. PICK e \in 1 .. MaxEntries : e = NewEntry /\ e <= nr_dir_entries + 1
  <2>1. nr_dir_entries \in 0 .. MaxEntries /\ NewEntry <= MaxEntries /\ MaxEntries \in Nat
    BY Sets DEF CreateFile, FilesInv, TypeOK
  <2>2. FreeEntries # {} => Least(FreeEntries) \in 1 .. nr_dir_entries
    BY <2>1, LeastOf DEF FreeEntries
  <2> QED BY <2>1, <2>2 DEF NewEntry
<1>7. /\ Connect(q, s)
      /\ imap' = imap \cup {n} /\ smap' = smap \cup {x}
      /\ i_num' = [i_num EXCEPT ![s] = n] /\ i_cnt' = [i_cnt EXCEPT ![s] = 1]
      /\ i_mode' = [i_mode EXCEPT ![s] = REGULAR]
      /\ i_start_sect' = [i_start_sect EXCEPT ![s] = x]
      /\ inode_array' = [inode_array EXCEPT ![n] = [i_mode |-> REGULAR, i_start_sect |-> x]]
      /\ new_dir_entry(n, name)
  BY <1>1, <1>2, <1>5 DEF CreateFile
<1>8. UNCHANGED <<used, halted>>
  BY <1>7 DEF Connect
<1>9. /\ filp' \in [Proc \cup Child -> [Fd -> Desc \cup {0}]]
      /\ fd_inode' \in [Desc -> Slot \cup {0}] /\ fd_cnt' \in [Desc -> Nat]
      /\ Cardinality(Users(s)') <= Cardinality(Users(s)) + 1
      /\ \A t \in Slot : t # s => Cardinality(Users(t)') <= Cardinality(Users(t))
  BY <1>7, Connected
<1>10. \A m \in Num : m # n => inode_array'[m] = inode_array[m]
  BY <1>7 DEF FilesInv, TypeOK
<1>11. inode_array'[n] = [i_mode |-> REGULAR, i_start_sect |-> x]
  BY <1>1, <1>7 DEF FilesInv, TypeOK
<1>12. \* The directory: the entry written leads to n, others are as before or free.
       /\ root_dir' \in [1 .. MaxEntries -> [inode_nr : Num \cup {0}, name : Name \cup {"", ".", TTY_NAME}]]
       /\ nr_dir_entries' \in 0 .. MaxEntries
       /\ root_dir'[e].inode_nr = n
       /\ \A f \in 1 .. MaxEntries : f # e =>
            root_dir'[f].inode_nr = root_dir[f].inode_nr \/ root_dir'[f].inode_nr = 0
  <2> DEFINE spilt == IF name \in LongName /\ e % PerBlock # 0 THEN {e + 1} ELSE {}
             Entry == [inode_nr : Num \cup {0}, name : Name \cup {"", ".", TTY_NAME}]
             new(f) == IF f = e THEN [inode_nr |-> n, name |-> name]
                       ELSE IF f \in spilt THEN [root_dir[f] EXCEPT !.inode_nr = 0]
                       ELSE root_dir[f]
  <2>1. root_dir' = [f \in 1 .. MaxEntries |-> new(f)]
    <3> HIDE DEF spilt
    <3>1. root_dir' = [f \in 1 .. MaxEntries |->
             CASE f = e -> [inode_nr |-> n, name |-> name]
               [] f \in spilt -> [root_dir[f] EXCEPT !.inode_nr = 0]
               [] OTHER -> root_dir[f]]
      BY <1>6, <1>7 DEF new_dir_entry, spilt
    <3>2. e \notin spilt
      BY <1>6 DEF spilt
    <3> QED BY <3>1, <3>2
  <2>2. nr_dir_entries' = IF e > nr_dir_entries THEN e ELSE nr_dir_entries
    BY <1>6, <1>7 DEF new_dir_entry
  <2>3. nr_dir_entries' \in 0 .. MaxEntries
    <3>1. nr_dir_entries \in 0 .. MaxEntries
      BY DEF FilesInv, TypeOK
    <3> QED BY <1>6, <2>2, <3>1, Sets
  <2>4. \A f \in 1 .. MaxEntries : root_dir[f] \in Entry
    BY DEF FilesInv, TypeOK
  <2>5. [inode_nr |-> n, name |-> name] \in Entry
    BY <1>1
  <2> HIDE DEF spilt
  <2>6. ASSUME NEW f \in 1 .. MaxEntries
        PROVE  /\ new(f) \in Entry
               /\ f # e => new(f).inode_nr = root_dir[f].inode_nr \/ new(f).inode_nr = 0
    <3>1. PICK r \in Entry : r = root_dir[f]
      BY <2>4
    <3>2. [r EXCEPT !.inode_nr = 0] \in Entry /\ [r EXCEPT !.inode_nr = 0].inode_nr = 0
      OBVIOUS
    <3> QED BY <2>5, <3>1, <3>2
  <2>7. new(e).inode_nr = n
    OBVIOUS
  <2> HIDE DEF new
  <2> QED BY <2>1, <2>3, <2>6, <2>7
<1>13. TypeOK'
  <2>1. imap' \in SUBSET Num /\ smap' \in SUBSET Extent
    BY <1>1, <1>2, <1>7 DEF FilesInv, TypeOK
  <2>2. /\ i_num' \in [Slot -> Num \cup {0}] /\ i_cnt' \in [Slot -> Nat]
        /\ i_mode' \in [Slot -> Mode] /\ i_start_sect' \in [Slot -> Extent \cup {0}]
    BY <1>1, <1>2, <1>7 DEF FilesInv, TypeOK, Mode
  <2>3. inode_array' \in [Num -> [i_mode : Mode, i_start_sect : Extent \cup {0}]]
    <3>1. [i_mode |-> REGULAR, i_start_sect |-> x] \in [i_mode : Mode, i_start_sect : Extent \cup {0}]
      BY <1>2 DEF Mode
    <3>2. inode_array \in [Num -> [i_mode : Mode, i_start_sect : Extent \cup {0}]]
      BY DEF FilesInv, TypeOK
    <3> QED BY <1>7, <3>1, <3>2
  <2> QED BY <1>8, <1>9, <1>12, <2>1, <2>2, <2>3 DEF FilesInv, TypeOK
<1>14. Mounted'
  BY <1>1, <1>7, <1>10, Sets DEF FilesInv, Mounted
<1>15. Counted'
  <2> SUFFICES ASSUME NEW t \in Slot PROVE i_cnt'[t] >= Cardinality(Users(t)')
    BY DEF Counted
  <2>1. i_cnt[t] >= Cardinality(Users(t)) /\ i_cnt[t] \in Nat /\ Cardinality(Users(t)) \in Nat
    BY UsersFinite, Types DEF FilesInv, Counted
  <2>2. Cardinality(Users(t)') \in Nat
    BY UsersFinite
  <2>3. i_cnt'[s] = 1 /\ (t # s => i_cnt'[t] = i_cnt[t])
    BY <1>7, Types
  <2> QED BY <1>5, <1>9, <2>1, <2>2, <2>3
<1>16. CacheExact'
  <2>1. /\ i_num'[s] = n /\ i_mode'[s] = REGULAR /\ i_start_sect'[s] = x
        /\ \A t \in Slot : t # s =>
             /\ i_cnt'[t] = i_cnt[t] /\ i_num'[t] = i_num[t] /\ i_mode'[t] = i_mode[t]
             /\ i_start_sect'[t] = i_start_sect[t]
    BY <1>7 DEF FilesInv, TypeOK
  <2>2. \A t \in Slot : i_cnt[t] > 0 => i_num[t] \in imap /\ i_num[t] \in Num
    BY DEF FilesInv, CacheExact, TypeOK
  <2> QED BY <1>4, <1>7, <1>10, <1>11, <2>1, <2>2 DEF FilesInv, CacheExact
<1>17. ExtentsOwned'
  <2>1. Regular' = Regular \cup {n} /\ n \notin Regular
    BY <1>1, <1>10, <1>11 DEF Regular, FilesInv, ExtentsOwned
  <2>2. n \notin {ROOT_INODE, TTY_INODE}
    BY <1>1 DEF FilesInv, Mounted
  <2>3. Regular' = imap' \ {ROOT_INODE, TTY_INODE}
    BY <1>7, <2>1, <2>2 DEF FilesInv, ExtentsOwned
  <2>4. \A m \in Regular : inode_array'[m].i_start_sect = inode_array[m].i_start_sect
                           /\ inode_array[m].i_start_sect \in smap
    BY <1>10, <2>1 DEF FilesInv, ExtentsOwned, Regular
  <2>5. inode_array'[n].i_start_sect = x
    BY <1>11
  <2>6. smap' = {inode_array'[m].i_start_sect : m \in Regular'}
    BY <1>7, <2>1, <2>4, <2>5 DEF FilesInv, ExtentsOwned
  <2>7. \A l, m \in Regular' : inode_array'[l].i_start_sect = inode_array'[m].i_start_sect => l = m
    BY <1>2, <2>1, <2>4, <2>5 DEF FilesInv, ExtentsOwned
  <2> QED BY <2>3, <2>6, <2>7 DEF ExtentsOwned
<1>18. NamesResolve'
  BY <1>1, <1>6, <1>7, <1>12, Sets DEF FilesInv, NamesResolve
<1>19. UnlinkFindsEntry'
  BY <1>8 DEF UnlinkFindsEntry
<1> QED BY <1>13, <1>14, <1>15, <1>16, <1>17, <1>18, <1>19 DEF FilesInv

LEMMA UnlinkFileKeeps ==
    ASSUME FilesInv, halted = "no", NEW name, UnlinkFile(name)
    PROVE  FilesInv'
<1>1. PICK n \in Num : n = search_file(name) /\ n \in imap /\ n # 0
  BY Found, Sets DEF UnlinkFile
<1>2. Room(n)
  BY <1>1 DEF UnlinkFile
<1>3. PICK s \in Slot : s = SlotOf(n)
  BY <1>1, <1>2, SlotFound
<1>4. inode_array[n].i_mode = REGULAR /\ Inode(n) = inode_array[n]
  BY <1>1, <1>2, SlotFound DEF UnlinkFile
<1>5. Cached(n) = {} /\ i_cnt[s] = 0
  <2>1. Cnt(n) = 1 /\ Cnt(n) = i_cnt[s] + 1
    BY <1>1, <1>2, <1>3, SlotFound DEF UnlinkFile
  <2>2. i_cnt[s] = 0
    BY <2>1, Types
  <2> QED BY <1>1, <1>2, <1>3, <2>2, SlotFound
<1>6. /\ imap' = imap \ {n} /\ smap' = smap \ {inode_array[n].i_start_sect}
      /\ inode_array' = [inode_array EXCEPT ![n] = [i_mode |-> CLEARED, i_start_sect |-> 0]]
      /\ i_num' = [i_num EXCEPT ![s] = n] /\ i_mode' = [i_mode EXCEPT ![s] = CLEARED]
      /\ i_start_sect' = [i_start_sect EXCEPT ![s] = 0]
      /\ clear_dir_entry(n)
      /\ UNCHANGED <<used, filp, fd_inode, fd_cnt, i_cnt>>
  BY <1>1, <1>3, <1>4 DEF UnlinkFile, tables
<1>7. n \in Regular /\ n \notin {ROOT_INODE, TTY_INODE}
  BY <1>1, <1>4 DEF Regular, FilesInv, Mounted
<1>8. inode_array'[n].i_mode # REGULAR /\ \A m \in Num : m # n => inode_array'[m] = inode_array[m]
  BY <1>6 DEF FilesInv, TypeOK, CLEARED, REGULAR
<1>9. ASSUME Cleared(n) = {}
      PROVE  halted' = "assert(flg)" /\ UNCHANGED <<root_dir, nr_dir_entries>> /\ UnlinkFindsEntry'
  \* The entry that led to n is past the end or in the second sector.
  <2>1. halted' = "assert(flg)" /\ UNCHANGED <<root_dir, nr_dir_entries>>
    BY <1>6, <1>9 DEF clear_dir_entry
  <2>2. \E e \in Searched : root_dir[e].inode_nr = n
    <3> DEFINE E == {e \in Searched : root_dir[e].name = name}
    <3>1. name # "/"
      BY <1>1, <1>7 DEF search_file
    <3>2. E # {} /\ n = root_dir[Least(E)].inode_nr
      BY <1>1, <3>1 DEF search_file
    <3>3. Least(E) \in E
      BY <3>2, LeastOf DEF Searched
    <3> QED BY <3>2, <3>3
  <2>3. PICK e \in 1 .. MaxEntries : root_dir[e].inode_nr = n /\ e <= nr_dir_entries + 1
    BY <2>2 DEF Searched
  <2>4. e > PerBlock \/ e = nr_dir_entries + 1
    <3> SUFFICES ASSUME e <= PerBlock, e # nr_dir_entries + 1 PROVE FALSE
      BY Sets
    <3>1. e \in 1 .. nr_dir_entries
      <4>1. nr_dir_entries \in 0 .. MaxEntries
        BY DEF FilesInv, TypeOK
      <4> QED BY <2>3, <4>1, Sets
    <3>2. (e - 1) \div PerBlock = 0
      <4>1. e - 1 \in 0 .. PerBlock - 1
        BY Sets
      <4> QED BY <4>1, Sets
    <3>3. e \in Cleared(n)
      BY <2>3, <3>1, <3>2 DEF Cleared
    <3> QED BY <1>9, <3>3
  <2>5. root_dir'[e].inode_nr = n /\ n \notin imap' \cup {0} /\ nr_dir_entries' = nr_dir_entries
    BY <1>1, <1>6, <2>1, <2>3
  <2>6. UnlinkFindsEntry'
    BY <2>4, <2>5 DEF UnlinkFindsEntry
  <2> QED BY <2>1, <2>6
<1>10. ASSUME Cleared(n) # {}
       PROVE  /\ halted' = "no" /\ nr_dir_entries' \in 0 .. MaxEntries
              /\ \E e \in 1 .. MaxEntries :
                    root_dir[e].inode_nr = n /\ root_dir' = [root_dir EXCEPT ![e] = Free]
  <2>1. nr_dir_entries \in 0 .. MaxEntries /\ MaxEntries \in Nat
    BY Sets DEF FilesInv, TypeOK
  <2>2. PICK e \in Cleared(n) : e = Least(Cleared(n))
    <3>1. Cleared(n) \in SUBSET Nat
      BY <2>1 DEF Cleared
    <3> QED BY <1>10, <3>1, LeastOf
  <2>3. e \in 1 .. nr_dir_entries /\ root_dir[e].inode_nr = n
    BY <2>2 DEF Cleared
  <2>4. Cardinality({x \in 1 .. e - 1 : root_dir[x].inode_nr # 0}) \in 0 .. MaxEntries
    <3>1. IsFiniteSet(1 .. e - 1) /\ Cardinality(1 .. e - 1) = e - 1
      BY <2>1, <2>3, FS_Interval
    <3> DEFINE In == {x \in 1 .. e - 1 : root_dir[x].inode_nr # 0}
    <3>2. In \in SUBSET (1 .. e - 1)
      OBVIOUS
    <3>3. IsFiniteSet(In) /\ Cardinality(In) <= e - 1
      BY <3>1, <3>2, FS_Subset
    <3>4. Cardinality(In) \in Nat
      BY <3>3, FS_CardinalityType
    <3> QED BY <2>1, <2>3, <3>3, <3>4
  <2>5. /\ root_dir' = [root_dir EXCEPT ![e] = Free] /\ UNCHANGED halted
        /\ nr_dir_entries' =
             IF e = nr_dir_entries THEN Cardinality({x \in 1 .. e - 1 : root_dir[x].inode_nr # 0})
             ELSE nr_dir_entries
    BY <1>6, <1>10, <2>2 DEF clear_dir_entry
  <2>6. e \in 1 .. MaxEntries
    BY <2>1, <2>3
  <2> QED BY <2>1, <2>3, <2>4, <2>5, <2>6
<1>11. TypeOK'
  <2>1. imap' \in SUBSET Num /\ smap' \in SUBSET Extent
    BY <1>6 DEF FilesInv, TypeOK
  <2>2. /\ i_num' \in [Slot -> Num \cup {0}] /\ i_mode' \in [Slot -> Mode]
        /\ i_start_sect' \in [Slot -> Extent \cup {0}]
    BY <1>6 DEF FilesInv, TypeOK, Mode
  <2>3. inode_array' \in [Num -> [i_mode : Mode, i_start_sect : Extent \cup {0}]]
    <3>1. [i_mode |-> CLEARED, i_start_sect |-> 0] \in [i_mode : Mode, i_start_sect : Extent \cup {0}]
      BY DEF Mode
    <3>2. inode_array \in [Num -> [i_mode : Mode, i_start_sect : Extent \cup {0}]]
      BY DEF FilesInv, TypeOK
    <3> QED BY <1>6, <3>1, <3>2
  <2>4. /\ root_dir' \in [1 .. MaxEntries -> [inode_nr : Num \cup {0}, name : Name \cup {"", ".", TTY_NAME}]]
        /\ nr_dir_entries' \in 0 .. MaxEntries /\ halted' \in {"no", "assert(flg)"}
    <3>1. root_dir \in [1 .. MaxEntries -> [inode_nr : Num \cup {0}, name : Name \cup {"", ".", TTY_NAME}]]
          /\ nr_dir_entries \in 0 .. MaxEntries
      BY DEF FilesInv, TypeOK
    <3>2. Free \in [inode_nr : Num \cup {0}, name : Name \cup {"", ".", TTY_NAME}]
      BY DEF Free
    <3> QED BY <1>9, <1>10, <3>1, <3>2
  <2> QED BY <1>6, <2>1, <2>2, <2>3, <2>4 DEF FilesInv, TypeOK
<1>12. Mounted'
  BY <1>6, <1>7, <1>8, Sets DEF FilesInv, Mounted
<1>13. Counted'
  BY <1>6 DEF FilesInv, Counted, Users
<1>14. CacheExact'
  <2>1. \A t \in Slot : i_cnt[t] > 0 => i_num[t] # n /\ t # s /\ i_num[t] \in imap /\ i_num[t] \in Num
    <3> SUFFICES ASSUME NEW t \in Slot, i_cnt[t] > 0
                 PROVE  i_num[t] # n /\ t # s /\ i_num[t] \in imap /\ i_num[t] \in Num
      OBVIOUS
    <3>1. i_num[t] # n /\ t # s
      BY <1>5 DEF Cached
    <3>2. i_num[t] \in imap
      BY DEF FilesInv, CacheExact
    <3> QED BY <3>1, <3>2 DEF FilesInv, TypeOK
  <2>2. \A t \in Slot : t # s =>
          i_num'[t] = i_num[t] /\ i_mode'[t] = i_mode[t] /\ i_start_sect'[t] = i_start_sect[t]
    BY <1>6 DEF FilesInv, TypeOK
  <2> QED BY <1>6, <1>8, <2>1, <2>2 DEF FilesInv, CacheExact
<1>15. ExtentsOwned'
  <2>1. Regular' = Regular \ {n}
    BY <1>8 DEF Regular
  <2>2. /\ Regular = imap \ {ROOT_INODE, TTY_INODE}
        /\ smap = {inode_array[m].i_start_sect : m \in Regular}
        /\ \A l, m \in Regular : inode_array[l].i_start_sect = inode_array[m].i_start_sect => l = m
    BY DEF FilesInv, ExtentsOwned
  <2>3. Regular' = imap' \ {ROOT_INODE, TTY_INODE}
    BY <1>6, <2>1, <2>2
  <2>4. \A m \in Regular' : inode_array'[m].i_start_sect = inode_array[m].i_start_sect
    BY <1>8, <2>1 DEF Regular
  <2>5. smap' = {inode_array'[m].i_start_sect : m \in Regular'}
    BY <1>6, <1>7, <2>1, <2>2, <2>4
  <2> QED BY <2>1, <2>2, <2>3, <2>4, <2>5 DEF ExtentsOwned
<1>16. NamesResolve'
  <2> SUFFICES ASSUME halted' = "no" PROVE NamesResolve'
    BY DEF NamesResolve
  <2>1. PICK e \in 1 .. MaxEntries :
          root_dir[e].inode_nr = n /\ root_dir' = [root_dir EXCEPT ![e] = Free]
    BY <1>9, <1>10
  <2>2. root_dir'[e].inode_nr = 0
        /\ \A f \in 1 .. MaxEntries : f # e => root_dir'[f].inode_nr = root_dir[f].inode_nr
    BY <2>1 DEF FilesInv, TypeOK, Free
  <2> QED BY <1>1, <1>6, <2>1, <2>2 DEF FilesInv, NamesResolve
<1>17. UnlinkFindsEntry'
  BY <1>9, <1>10 DEF UnlinkFindsEntry
<1> QED BY <1>11, <1>12, <1>13, <1>14, <1>15, <1>16, <1>17 DEF FilesInv

-----------------------------------------------------------------------------
LEMMA FilesNext == FilesInv /\ [Next]_vars => FilesInv'
<1> SUFFICES ASSUME FilesInv, [Next]_vars PROVE FilesInv'
  OBVIOUS
<1>1. used \subseteq Proc \cup Child
  BY DEF FilesInv, TypeOK
<1>2. ASSUME halted = "no", NEW q \in used, Open(q) PROVE FilesInv'
  <2>1. CASE OpenFull(q)
    BY <1>2, <2>1, StopKeeps DEF OpenFull
  <2>2. ASSUME NEW name, OpenFile(q, name) PROVE FilesInv'
    BY <1>1, <1>2, <2>2, OpenFileKeeps
  <2>3. ASSUME NEW name, OpenNoInode(q, name) PROVE FilesInv'
    BY <1>2, <2>3, StopKeeps DEF OpenNoInode
  <2>4. ASSUME NEW name \in Name, CreateFile(q, name) PROVE FilesInv'
    BY <1>1, <1>2, <2>4, CreateFileKeeps
  <2>5. ASSUME NEW name, CreateFails(q, name) PROVE FilesInv'
    BY <1>2, <2>5, CreateFailsKeeps
  <2> QED BY <1>2, <2>1, <2>2, <2>3, <2>4, <2>5 DEF Open
<1>3. ASSUME halted = "no", NEW q \in used, NEW fd \in Fd, CloseFile(q, fd) PROVE FilesInv'
  BY <1>1, <1>3, CloseFileKeeps
<1>4. ASSUME halted = "no", NEW q \in used, NEW fd \in Fd, CloseNotOpen(q, fd) PROVE FilesInv'
  BY <1>4, CloseNotOpenKeeps
<1>5. ASSUME halted = "no", Unlink PROVE FilesInv'
  <2>1. ASSUME NEW name, UnlinkRefused(name) PROVE FilesInv'
    BY <1>5, <2>1, UnlinkRefusedKeeps
  <2>2. ASSUME NEW name, UnlinkNoInode(name) PROVE FilesInv'
    BY <1>5, <2>2, StopKeeps DEF UnlinkNoInode
  <2>3. ASSUME NEW name, UnlinkFile(name) PROVE FilesInv'
    BY <1>5, <2>3, UnlinkFileKeeps
  <2> QED BY <1>5, <2>1, <2>2, <2>3 DEF Unlink
<1>6. ASSUME halted = "no", NEW q \in used, NEW c \in Child, Fork(q, c) PROVE FilesInv'
  BY <1>1, <1>6, ForkKeeps
<1>7. CASE UNCHANGED vars
  <2> USE <1>7 DEF FilesInv, vars, tables, cache, disk
  <2>1. TypeOK' /\ Mounted'
    BY DEF TypeOK, Mounted
  <2>2. Counted' /\ CacheExact'
    BY DEF Counted, CacheExact, Users
  <2>3. ExtentsOwned' /\ NamesResolve' /\ UnlinkFindsEntry'
    BY DEF ExtentsOwned, Regular, NamesResolve, UnlinkFindsEntry
  <2> QED BY <2>1, <2>2, <2>3
<1> QED BY <1>2, <1>3, <1>4, <1>5, <1>6, <1>7 DEF Next

-----------------------------------------------------------------------------
(***************************************************************************)
(* Theorems.                                                               *)
(***************************************************************************)

\* Everything the functions of FS rely on about its tables and its disk holds
\* from mkfs on, in whatever order processes open, close, unlink and fork.
THEOREM FilesInvariance == Spec => []FilesInv
  BY FilesInit, FilesNext, PTL DEF Spec

\* The tables of FS keep their types: no index is out of range.
THEOREM FilesTypes == Spec => []TypeOK
<1>1. FilesInv => TypeOK
  BY DEF FilesInv
<1> QED BY <1>1, FilesInvariance, PTL

\* A slot of the inode cache that an open file uses is not given away and its
\* file not removed, for tables of any size (main.c:370, link.c:62).
THEOREM OpenFilesAreKept == Spec => []OpenFilesKept
<1>1. FilesInv => OpenFilesKept
  <2> SUFFICES ASSUME FilesInv, NEW s \in Slot
               PROVE  /\ i_cnt[s] >= Cardinality({d \in Desc : fd_inode[d] = s})
                      /\ i_cnt[s] > 0 =>
                           /\ Cached(i_num[s]) = {s}
                           /\ i_num[s] \in imap
                           /\ inode_array[i_num[s]] = [i_mode |-> i_mode[s], i_start_sect |-> i_start_sect[s]]
    BY DEF OpenFilesKept
  <2>1. i_cnt[s] >= Cardinality({d \in Desc : fd_inode[d] = s})
    BY DEF FilesInv, Counted, Users
  <2>2. i_cnt[s] > 0 => Cached(i_num[s]) = {s}
    BY DEF FilesInv, CacheExact, Cached
  <2> QED BY <2>1, <2>2 DEF FilesInv, CacheExact
<1> QED BY <1>1, FilesInvariance, PTL

\* On a disk of any size files share no sectors and no extent is lost or freed
\* twice (open.c:216, link.c:84).
THEOREM ExtentsAreExact == Spec => []ExtentsExact
<1>1. FilesInv => ExtentsExact
  <2> SUFFICES ASSUME FilesInv, halted = "no"
               PROVE  /\ Regular = imap \ {ROOT_INODE, TTY_INODE}
                      /\ smap = {inode_array[n].i_start_sect : n \in Regular}
                      /\ Cardinality(smap) = Cardinality(Regular)
    BY DEF ExtentsExact, Regular
  <2>1. /\ Regular = imap \ {ROOT_INODE, TTY_INODE}
        /\ smap = {inode_array[n].i_start_sect : n \in Regular}
        /\ \A m, n \in Regular : inode_array[m].i_start_sect = inode_array[n].i_start_sect => m = n
    BY DEF FilesInv, ExtentsOwned
  <2> DEFINE extent == [n \in Regular |-> inode_array[n].i_start_sect]
  <2>2. extent \in Bijection(Regular, smap)
    BY <2>1 DEF Bijection, Injection, Surjection, IsInjective
  <2>3. ExistsBijection(Regular, smap)
    BY <2>2 DEF ExistsBijection
  <2>4. IsFiniteSet(Regular)
    BY Sets, FS_Subset DEF Regular
  <2> QED BY <2>1, <2>3, <2>4, FS_Bijection
<1> QED BY <1>1, FilesInvariance, PTL

\* In a directory of any number of sectors no two names lead to one inode, and
\* none to an inode that is free (misc.c:53, open.c:308, link.c:148).
THEOREM NamesLeadToInodes == Spec => []NamesResolve
<1>1. FilesInv => NamesResolve
  BY DEF FilesInv
<1> QED BY <1>1, FilesInvariance, PTL

\* The assertion that unlink found the entry fails only for an entry in the
\* second sector or later or the one past the end (link.c:161).
THEOREM UnlinkFinds == Spec => []UnlinkFindsEntry
<1>1. FilesInv => UnlinkFindsEntry
  BY DEF FilesInv
<1> QED BY <1>1, FilesInvariance, PTL

\* An open file descriptor changes only by a call of a process that has it,
\* for any number of processes, forked ones included (open.c:59, 157).
THEOREM DescriptorsAreStable == Spec => DescriptorsStable
<1> DEFINE Stable ==
      \A q \in used, fd \in Fd :
          LET d == filp[q][fd] IN
          (d # 0 /\ filp'[q] = filp[q] /\ fd_inode[d] # 0 /\ ~ OthersHave(q, d))
              => fd_inode'[d] = fd_inode[d]
<1>1. ASSUME FilesInv, Next PROVE Stable
  <2> SUFFICES ASSUME NEW q \in used, NEW fd \in Fd, filp[q][fd] # 0, filp'[q] = filp[q],
                      fd_inode[filp[q][fd]] # 0, ~ OthersHave(q, filp[q][fd])
               PROVE  fd_inode'[filp[q][fd]] = fd_inode[filp[q][fd]]
    OBVIOUS
  <2>1. used \subseteq Proc \cup Child
    BY <1>1 DEF FilesInv, TypeOK
  <2>2. PICK d \in Desc : d = filp[q][fd]
    BY <1>1, <2>1, Types
  <2>3. ASSUME NEW r \in used, NEW s \in Slot, Connect(r, s) PROVE fd_inode'[d] = fd_inode[d]
    BY <1>1, <2>1, <2>2, <2>3, Connected
  <2>4. ASSUME NEW r \in used, NEW f \in Fd, CloseFile(r, f) PROVE fd_inode'[d] = fd_inode[d]
    <3>1. /\ filp[r][f] # 0 /\ filp' = [filp EXCEPT ![r][f] = 0]
          /\ fd_inode' = [fd_inode EXCEPT ![filp[r][f]] = 0]
      BY <2>4 DEF CloseFile
    <3>2. r # q
      BY <1>1, <2>1, <3>1, Types
    <3>3. filp[r][f] # d
      BY <2>2, <3>2 DEF OthersHave
    <3> QED BY <1>1, <2>2, <3>1, <3>3, Types
  <2>5. ASSUME NEW r \in used, Open(r) PROVE fd_inode'[d] = fd_inode[d]
    <3>1. ASSUME NEW name, OpenFile(r, name) PROVE fd_inode'[d] = fd_inode[d]
      <4>1. search_file(name) \in Num /\ Room(search_file(name)) /\ Connect(r, SlotOf(search_file(name)))
        BY <1>1, <3>1, Found DEF OpenFile, Next
      <4>2. SlotOf(search_file(name)) \in Slot
        BY <1>1, <4>1, SlotFound
      <4> QED BY <2>3, <4>1, <4>2
    <3>2. ASSUME NEW name, CreateFile(r, name) PROVE fd_inode'[d] = fd_inode[d]
      <4>1. alloc_imap_bit \in Num
        <5>1. Num \ imap # {} /\ Num \ imap \subseteq Nat
          BY <1>1, <3>2, Sets DEF CreateFile, FilesInv, TypeOK
        <5> QED BY <5>1, LeastOf DEF alloc_imap_bit
      <4>2. Room(alloc_imap_bit) /\ Connect(r, SlotOf(alloc_imap_bit))
        BY <3>2 DEF CreateFile
      <4>3. SlotOf(alloc_imap_bit) \in Slot
        BY <1>1, <4>1, <4>2, SlotFound
      <4> QED BY <2>3, <4>2, <4>3
    <3>3. ASSUME NEW name, OpenNoInode(r, name) \/ CreateFails(r, name) \/ OpenFull(r)
          PROVE  fd_inode'[d] = fd_inode[d]
      BY <3>3 DEF OpenNoInode, CreateFails, OpenFull, Stop, tables
    <3> QED BY <2>5, <3>1, <3>2, <3>3 DEF Open
  <2>6. ASSUME Unlink PROVE fd_inode'[d] = fd_inode[d]
    BY <2>6 DEF Unlink, UnlinkRefused, UnlinkNoInode, UnlinkFile, Stop, tables
  <2>7. ASSUME NEW r \in used, NEW c \in Child, Fork(r, c) PROVE fd_inode'[d] = fd_inode[d]
    BY <2>7 DEF Fork
  <2>8. ASSUME NEW r \in used, NEW f \in Fd, CloseNotOpen(r, f) PROVE fd_inode'[d] = fd_inode[d]
    BY <2>8 DEF CloseNotOpen, tables
  <2> QED BY <1>1, <2>2, <2>4, <2>5, <2>6, <2>7, <2>8 DEF Next
<1>2. FilesInv /\ [Next]_vars => [Stable]_vars
  BY <1>1
<1> QED BY <1>2, FilesInvariance, PTL DEF Spec, DescriptorsStable

-----------------------------------------------------------------------------
(***************************************************************************)
(* The two maps bit by bit.  Files has variables imap and smap of its own, *)
(* so those of Bitmaps are renamed.                                        *)
(***************************************************************************)

VARIABLES imap_bits, smap_bits, fsbuf, op

Bits == INSTANCE Bitmaps WITH imap <- imap_bits, smap <- smap_bits

Rooms == (nr_smap_sects * Bits!SECTOR_BITS - 1) \div NR_SECTS - 1

Used == {n \in Bits!FileInode : start[n] # 0}

\* Extent e begins at bit First(e), for e > 0; the extent at b has the bits Held(b).
First(e) == e * NR_SECTS + 1
Held(b) == b .. b + NR_SECTS - 1

\* The bits of the reserved bit, the root directory and the files.
InExtents == {x \in Nat : x <= NR_SECTS \/ \E n \in Used : x \in Held(start[n])}

Placed ==
    /\ nr_smap_sects \in Nat \ {0}
    /\ start \in [Bits!FileInode -> Nat]
    /\ \A n \in Used : \E e \in 1 .. Rooms : start[n] = First(e)
    /\ \A m, n \in Used : start[m] = start[n] => m = n

Inodes(S) == imap_bits = 0 .. FIRST_INODE - 1 \cup S

\* Between two requests.
IdleAt == op = Bits!Idle /\ Inodes(Used) /\ smap_bits = InExtents

\* The inode is the first that was free.
InodeFound ==
    /\ Inodes(Used \cup {op.inode})
    /\ IF op.inode = 0 THEN Used = Bits!FileInode
       ELSE op.inode \in Bits!FileInode \ Used /\ \A m \in Bits!FileInode \ Used : op.inode <= m

\* The sectors before sector i are full, or the first free extent was found: its
\* bits are taken as far as they lie in these.
Search ==
    /\ op.left = NR_SECTS /\ smap_bits = InExtents
    /\ \A x \in Nat : x < op.i * Bits!SECTOR_BITS => x \in smap_bits

FirstFree(e) ==
    /\ \A n \in Used : start[n] # First(e)
    /\ \A d \in 1 .. e - 1 : \E n \in Used : start[n] = First(d)

Reached == op.first + NR_SECTS - op.left

Taking ==
    /\ \E e \in Nat \ {0} : op.first = First(e) /\ FirstFree(e)
    /\ op.left <= NR_SECTS
    /\ smap_bits = InExtents \cup (op.first .. Reached - 1)
    /\ Reached <= op.i * Bits!SECTOR_BITS
    /\ op.left > 0 => Reached = op.i * Bits!SECTOR_BITS

ScanAt ==
    /\ op \in [pc : {"scan"}, inode : Bits!FileInode \cup {0}, i : 0 .. nr_smap_sects, left : Nat, first : Nat]
    /\ InodeFound
    /\ IF op.first = 0 THEN Search ELSE Taking

\* Bytes up to here have been cleared, those of sectors before s on disk too.
Position == op.s * Bits!SECTOR_BITS + op.i * BITS
ClearedTo == IF op.bytes < 0 THEN start[op.inode] + NR_SECTS ELSE Position

FreeAt ==
    /\ op \in [pc : {"free"}, inode : Used, s : Nat, i : 1 .. SECTOR_SIZE, bytes : Int, left : Int]
    /\ Inodes(Used \ {op.inode})
    /\ IF op.bytes < 0
       THEN op.bytes = -1
       ELSE /\ start[op.inode] < Position /\ op.left = start[op.inode] + NR_SECTS - Position
            /\ op.bytes * BITS <= op.left /\ op.left < op.bytes * BITS + BITS
    /\ op.s * Bits!SECTOR_BITS <= ClearedTo /\ ClearedTo <= op.s * Bits!SECTOR_BITS + Bits!SECTOR_BITS
    /\ smap_bits = InExtents \ (start[op.inode] .. op.s * Bits!SECTOR_BITS - 1)
    /\ fsbuf = {b \in 0 .. Bits!SECTOR_BITS - 1 :
                  /\ op.s * Bits!SECTOR_BITS + b \in smap_bits
                  /\ op.s * Bits!SECTOR_BITS + b \notin start[op.inode] .. ClearedTo - 1}

Inv == Placed /\ (IdleAt \/ ScanAt \/ FreeAt)

IInv == failed = "no" => Inv
-----------------------------------------------------------------------------
(***************************************************************************)
(* Arithmetic.                                                             *)
(***************************************************************************)

\* What the sizes are, in the form the proofs use it.
LEMMA Sizes ==
    /\ BITS \in Nat \ {0} /\ SECTOR_SIZE \in Nat \ {0} /\ Bits!SECTOR_BITS \in Nat \ {0}
    /\ Bits!SECTOR_BITS = SECTOR_SIZE * BITS
    /\ NR_SECTS \in Nat \ {0} /\ NR_SECTS >= BITS /\ NR_SECTS < Bits!SECTOR_BITS /\ NR_SECTS % BITS = 0
    /\ FIRST_INODE \in Nat /\ FIRST_INODE >= 2 /\ FIRST_INODE <= Bits!SECTOR_BITS
    /\ Bits!FileInode \subseteq Nat \ {0}
<1>1. Bits!SECTOR_BITS \in Nat \ {0}
  BY BitmapsAssumption DEF Bits!SECTOR_BITS
<1> QED BY <1>1, BitmapsAssumption DEF Bits!SECTOR_BITS, Bits!FileInode

\* Division with remainder.
LEMMA Division ==
    ASSUME NEW a \in Nat, NEW d \in Nat \ {0}
    PROVE  /\ a \div d \in Nat
           /\ a % d \in 0 .. d - 1
           /\ (a \div d) * d + (a % d) = a
  BY SMT

\* Rows of d.
LEMMA Products ==
    ASSUME NEW a \in Nat, NEW d \in Nat
    PROVE  a * d \in Nat /\ (a + 1) * d = a * d + d
  BY SMT

\* A row of d after another.
LEMMA Rows ==
    ASSUME NEW a \in Nat, NEW b \in Nat, NEW d \in Nat, a < b
    PROVE  a * d + d <= b * d
  BY SMT

\* Quotients by bounds.
LEMMA Quotient ==
    ASSUME NEW x \in Nat, NEW d \in Nat \ {0}, NEW q \in Nat
    PROVE  x \div d = q <=> q * d <= x /\ x < q * d + d
<1>1. /\ x \div d \in Nat /\ x % d \in 0 .. d - 1
      /\ (x \div d) * d + (x % d) = x
  BY Division
<1>2. PICK p \in Nat : p = x \div d
  BY <1>1
<1>3. p * d \in Nat /\ q * d \in Nat /\ p * d <= x /\ x < p * d + d
  BY <1>1, <1>2, Products
<1>4. /\ p < q => p * d + d <= q * d
      /\ q < p => q * d + d <= p * d
  BY Rows
<1> QED BY <1>2, <1>3, <1>4

-----------------------------------------------------------------------------
(***************************************************************************)
(* Extents.                                                                *)
(***************************************************************************)

\* The first bit of an extent lies beyond those of mkfs.
LEMMA FirstBits ==
    ASSUME NEW e \in Nat
    PROVE  First(e) \in Nat \ {0} /\ First(e) = e * NR_SECTS + 1 /\ (e # 0 => First(e) > NR_SECTS)
<1>1. e * NR_SECTS \in Nat
  BY Sizes, Products
<1>2. e # 0 => 0 * NR_SECTS + NR_SECTS <= e * NR_SECTS
  BY Sizes, Rows
<1>3. 0 * NR_SECTS = 0
  BY Sizes
<1> QED BY <1>1, <1>2, <1>3, Sizes DEF First

\* Different extents have no bit in common.
LEMMA ExtentsDisjoint ==
    ASSUME NEW d \in Nat, NEW e \in Nat, NEW x \in Held(First(d)), x \in Held(First(e))
    PROVE  d = e
<1>1. d * NR_SECTS \in Nat /\ e * NR_SECTS \in Nat
  BY Sizes, Products
<1>2. /\ d < e => d * NR_SECTS + NR_SECTS <= e * NR_SECTS
      /\ e < d => e * NR_SECTS + NR_SECTS <= d * NR_SECTS
  BY Sizes, Rows
<1> QED BY <1>1, <1>2, Sizes DEF Held, First

\* An extent has its first bit.
LEMMA FirstHeld ==
    ASSUME NEW e \in Nat
    PROVE  First(e) \in Held(First(e)) /\ Held(First(e)) \subseteq Nat
  BY FirstBits, Sizes DEF Held

\* Extents differ in their first bits.
LEMMA FirstOnce ==
    ASSUME NEW d \in Nat, NEW e \in Nat, First(d) = First(e)
    PROVE  d = e
  BY ExtentsDisjoint, FirstHeld

\* The extent of a bit.
LEMMA Covered ==
    ASSUME NEW x \in Nat \ {0}
    PROVE  \E e \in Nat : x \in Held(First(e)) /\ (x > NR_SECTS => e # 0)
<1>1. x - 1 \in Nat
  OBVIOUS
<1>2. PICK e \in Nat : e * NR_SECTS <= x - 1 /\ x - 1 < e * NR_SECTS + NR_SECTS
  <2>1. PICK q : q = (x - 1) \div NR_SECTS
    OBVIOUS
  <2>2. q \in Nat
    BY <1>1, <2>1, Sizes, Division
  <2>3. q * NR_SECTS <= x - 1 /\ x - 1 < q * NR_SECTS + NR_SECTS
    BY <1>1, <2>1, <2>2, Sizes, Quotient
  <2> QED BY <2>2, <2>3
<1>3. e * NR_SECTS \in Nat /\ (e = 0 => e * NR_SECTS = 0)
  BY Sizes, Products
<1>4. x \in Held(First(e))
  BY <1>2, <1>3, Sizes DEF Held, First
<1>5. x > NR_SECTS => e # 0
  BY <1>2, <1>3, Sizes
<1> QED BY <1>4, <1>5

\* What the refinement mapping makes of a first bit.
LEMMA ExtentOfFirst ==
    /\ Bits!ExtentOf(0) = 0
    /\ \A e \in Nat \ {0} : Bits!ExtentOf(First(e)) = e
<1>1. Bits!ExtentOf(0) = 0
  BY DEF Bits!ExtentOf
<1>2. ASSUME NEW e \in Nat \ {0} PROVE Bits!ExtentOf(First(e)) = e
  <2>1. e * NR_SECTS \in Nat /\ First(e) - 1 = e * NR_SECTS /\ First(e) # 0
    BY Sizes, Products, FirstBits
  <2>2. (e * NR_SECTS) \div NR_SECTS = e
    BY <2>1, Quotient, Sizes
  <2>3. (e * NR_SECTS) % NR_SECTS = 0
    <3>1. PICK N \in Nat : N = e * NR_SECTS
      BY <2>1
    <3>2. N % NR_SECTS \in 0 .. NR_SECTS - 1 /\ (N \div NR_SECTS) * NR_SECTS + (N % NR_SECTS) = N
      BY Division, Sizes
    <3>3. (N \div NR_SECTS) * NR_SECTS = N
      BY <2>2, <3>1
    <3>4. N % NR_SECTS = 0
      BY <3>2, <3>3
    <3> QED BY <3>1, <3>4
  <2> QED BY <2>1, <2>2, <2>3 DEF Bits!ExtentOf
<1> QED BY <1>1, <1>2

\* Extent e is on the disk.
LEMMA Fits ==
    ASSUME nr_smap_sects \in Nat \ {0}
    PROVE  /\ Rooms \in Nat
           /\ \A e \in Nat \ {0} : e <= Rooms <=> First(e) + NR_SECTS <= nr_smap_sects * Bits!SECTOR_BITS
<1>1. nr_smap_sects * Bits!SECTOR_BITS \in Nat /\ nr_smap_sects * Bits!SECTOR_BITS >= Bits!SECTOR_BITS
  <2>1. 0 * Bits!SECTOR_BITS = 0 /\ 0 * Bits!SECTOR_BITS + Bits!SECTOR_BITS <= nr_smap_sects * Bits!SECTOR_BITS
    BY Sizes, Rows
  <2> QED BY <2>1, Sizes, Products
<1>2. PICK N \in Nat : N = nr_smap_sects * Bits!SECTOR_BITS - 1 /\ N >= NR_SECTS
  BY <1>1, Sizes
<1>3. PICK q \in Nat : q = N \div NR_SECTS
  BY Sizes, Division
<1>4. q * NR_SECTS \in Nat /\ q * NR_SECTS <= N /\ N < q * NR_SECTS + NR_SECTS
  BY <1>3, Sizes, Quotient, Products
<1>5. Rooms = q - 1
  BY <1>2, <1>3 DEF Rooms
<1>6. q # 0
  <2>1. q = 0 => q * NR_SECTS = 0
    BY Sizes
  <2> QED BY <1>2, <1>4, <2>1, Sizes
<1>7. ASSUME NEW e \in Nat \ {0}
      PROVE  e <= Rooms <=> First(e) + NR_SECTS <= nr_smap_sects * Bits!SECTOR_BITS
  <2>1. e * NR_SECTS \in Nat /\ First(e) = e * NR_SECTS + 1
    BY Sizes, Products, FirstBits
  <2>2. e < q => e * NR_SECTS + NR_SECTS <= q * NR_SECTS
    BY Sizes, Rows
  <2>3. q < e => q * NR_SECTS + NR_SECTS <= e * NR_SECTS
    BY Sizes, Rows
  <2> QED BY <1>1, <1>2, <1>4, <1>5, <2>1, <2>2, <2>3, Sizes
<1> QED BY <1>5, <1>6, <1>7

\* Whose extent a bit belongs to.
LEMMA TakenBits ==
    ASSUME Placed, NEW e \in Nat \ {0}, NEW x \in Held(First(e))
    PROVE  x \in InExtents <=> \E n \in Used : start[n] = First(e)
<1>1. x \in Nat /\ x > NR_SECTS
  BY FirstHeld, FirstBits, Sizes DEF Held
<1>2. ASSUME NEW n \in Used, x \in Held(start[n]) PROVE start[n] = First(e)
  <2>1. PICK d \in 1 .. Rooms : start[n] = First(d)
    BY DEF Placed
  <2>2. d \in Nat
    BY Fits DEF Placed
  <2>3. d = e
    BY <1>2, <2>1, <2>2, ExtentsDisjoint
  <2> QED BY <2>1, <2>3
<1> QED BY <1>1, <1>2, Sizes DEF InExtents

-----------------------------------------------------------------------------
(***************************************************************************)
(* Sectors.                                                                *)
(***************************************************************************)

\* The sector a bit is in.
LEMMA InSector ==
    ASSUME NEW x \in Nat, NEW s \in Nat
    PROVE  x \div Bits!SECTOR_BITS = s <=> s * Bits!SECTOR_BITS <= x /\ x < s * Bits!SECTOR_BITS + Bits!SECTOR_BITS
  BY Quotient, Sizes

\* The sector map with sector s written from T.
LEMMA Written ==
    ASSUME smap_bits \subseteq Nat, NEW s \in Nat, NEW T \in SUBSET (0 .. Bits!SECTOR_BITS - 1)
    PROVE  Bits!Write(s, T) = {x \in Nat : IF s * Bits!SECTOR_BITS <= x /\ x < s * Bits!SECTOR_BITS + Bits!SECTOR_BITS
                                      THEN x - s * Bits!SECTOR_BITS \in T ELSE x \in smap_bits}
<1>1. s * Bits!SECTOR_BITS \in Nat /\ Bits!SECTOR_BITS \in Nat
  BY Sizes, Products
<1>2. \A x \in smap_bits :
        x \div Bits!SECTOR_BITS # s
          <=> ~ (s * Bits!SECTOR_BITS <= x /\ x < s * Bits!SECTOR_BITS + Bits!SECTOR_BITS)
  BY InSector
<1>3. PICK o \in Nat : o = s * Bits!SECTOR_BITS
  BY <1>1
<1>4. Bits!Write(s, T) = {x \in smap_bits : ~ (o <= x /\ x < o + Bits!SECTOR_BITS)} \cup {o + b : b \in T}
  BY <1>2, <1>3 DEF Bits!Write
<1>5. {o + b : b \in T} = {x \in Nat : o <= x /\ x < o + Bits!SECTOR_BITS /\ x - o \in T}
  BY <1>1
<1> QED BY <1>3, <1>4, <1>5

-----------------------------------------------------------------------------
(***************************************************************************)
(* What a step leaves alone, and the mapping.                              *)
(***************************************************************************)

\* Least of a set of bits, inodes or extents.
LEMMA LeastBit ==
    ASSUME NEW S \in SUBSET Nat, S # {}
    PROVE  Bits!Least(S) \in S /\ \A y \in S : Bits!Least(S) <= y
<1>1. PICK x \in S : \A y \in S : <<y, x>> \notin OpToRel(<, Nat)
  BY WFMin, NatLessThanWellFounded, Zenon
<1>2. \A y \in S : x <= y
  <2> SUFFICES ASSUME NEW y \in S, y < x PROVE FALSE
    OBVIOUS
  <2>1. <<y, x>> \in OpToRel(<, Nat)
    BY DEF OpToRel
  <2> QED BY <1>1, <2>1, Zenon
<1> HIDE <1>1
<1> QED BY <1>2 DEF Bits!Least

\* The Least of Extents, by what it is.
LEMMA LeastIs ==
    ASSUME NEW S \in SUBSET Nat, NEW x \in S, \A y \in S : x <= y
    PROVE  Bits!Maps!Least(S) = x
<1>1. Bits!Maps!Least(S) = Bits!Least(S)
  BY DEF Bits!Maps!Least, Bits!Least
<1>2. PICK y \in Nat : y = Bits!Least(S)
  BY LeastBit
<1>3. y \in S /\ y <= x /\ x <= y
  BY <1>2, LeastBit
<1> QED BY <1>1, <1>2, <1>3

\* The places of the program.
LEMMA Where ==
    ASSUME Inv
    PROVE  /\ op.pc = "idle" => IdleAt
           /\ op.pc = "scan" => ScanAt
           /\ op.pc = "free" => FreeAt
<1>1. IdleAt => op.pc = "idle"
  BY DEF IdleAt, Bits!Idle
<1>2. ScanAt => op.pc = "scan"
  BY DEF ScanAt
<1>3. FreeAt => op.pc = "free"
  BY DEF FreeAt
<1> QED BY <1>1, <1>2, <1>3 DEF Inv

\* Steps that give and take no extent.
LEMMA PlacedStays ==
    ASSUME Placed, UNCHANGED <<nr_smap_sects, start>>
    PROVE  Placed' /\ Used' = Used /\ InExtents' = InExtents /\ Rooms' = Rooms
<1>1. Used' = Used /\ Rooms' = Rooms
  BY DEF Used, Rooms
<1>2. InExtents' = InExtents
  BY <1>1 DEF InExtents
<1> QED BY <1>1, <1>2 DEF Placed, First

\* Extents changes only with start, or when FS stops.
LEMMA MapsStay ==
    ASSUME UNCHANGED <<nr_smap_sects, start, failed>>
    PROVE  UNCHANGED Bits!Maps!vars
  BY DEF Bits!Maps!vars

\* What Extents knows of the maps.
LEMMA Mapped ==
    ASSUME Placed
    PROVE  /\ Bits!Maps!FreeInodes = Bits!FileInode \ Used
           /\ Bits!Maps!FreeExtents = {e \in 1 .. Rooms : \A n \in Used : start[n] # First(e)}
           /\ \A n \in Bits!FileInode : Bits!ExtentOf(start[n]) = 0 <=> n \notin Used
<1>1. Rooms \in Nat
  BY Fits DEF Placed
<1>2. ASSUME NEW n \in Bits!FileInode, n \notin Used PROVE Bits!ExtentOf(start[n]) = 0
  BY <1>2, ExtentOfFirst DEF Used
<1>3. ASSUME NEW n \in Used
      PROVE  Bits!ExtentOf(start[n]) \in Nat \ {0} /\ start[n] = First(Bits!ExtentOf(start[n]))
  <2>1. PICK e \in 1 .. Rooms : start[n] = First(e)
    BY DEF Placed
  <2>2. e \in Nat \ {0}
    BY <1>1
  <2> QED BY <2>1, <2>2, ExtentOfFirst
<1>4. Used \subseteq Bits!FileInode
  BY DEF Used
<1>5. Bits!Maps!FreeInodes = Bits!FileInode \ Used
  BY <1>2, <1>3, <1>4 DEF Bits!Maps!FreeInodes
<1>6. ASSUME NEW e \in 1 .. Rooms
      PROVE  (\A n \in Bits!FileInode : Bits!ExtentOf(start[n]) # e) <=> (\A n \in Used : start[n] # First(e))
  <2>1. e \in Nat \ {0}
    BY <1>1
  <2>2. \A n \in Used : start[n] = First(e) => Bits!ExtentOf(start[n]) = e
    BY <2>1, ExtentOfFirst
  <2> QED BY <1>2, <1>3, <1>4, <2>1, <2>2
<1>7. Bits!Maps!FreeExtents = {e \in 1 .. Rooms : \A n \in Used : start[n] # First(e)}
  <2>1. Bits!Maps!FreeExtents = {e \in 1 .. Rooms : \A n \in Bits!FileInode : Bits!ExtentOf(start[n]) # e}
    BY DEF Bits!Maps!FreeExtents, Rooms
  <2> QED BY <1>6, <2>1
<1> QED BY <1>2, <1>3, <1>5, <1>7

-----------------------------------------------------------------------------
(***************************************************************************)
(* create_file.                                                            *)
(***************************************************************************)

\* alloc_imap_bit: Extents has not changed yet.
LEMMA AllocInodeKeeps ==
    ASSUME Inv, failed = "no", Bits!AllocInode
    PROVE  Inv' /\ UNCHANGED Bits!Maps!vars
<1>1. Placed /\ IdleAt
  BY Where DEF Inv, Bits!AllocInode, Bits!At
<1>2. UNCHANGED <<nr_smap_sects, smap_bits, start, fsbuf, failed>>
  BY DEF Bits!AllocInode
<1>3. Placed' /\ Used' = Used /\ InExtents' = InExtents
  BY <1>1, <1>2, PlacedStays
<1>4. PICK free : free = (0 .. Bits!SECTOR_BITS - 1) \ imap_bits
  OBVIOUS
<1>5. free = Bits!FileInode \ Used /\ free \in SUBSET Nat
  BY <1>1, <1>4, Sizes DEF IdleAt, Inodes, Bits!FileInode
<1>6. PICK n : n = IF free = {} THEN 0 ELSE Bits!Least(free)
  OBVIOUS
<1>7. /\ imap_bits' = imap_bits \cup {n}
      /\ op' = [pc |-> "scan", inode |-> n, i |-> 0, left |-> NR_SECTS, first |-> 0]
  BY <1>4, <1>6 DEF Bits!AllocInode
<1>8. IF n = 0 THEN Used = Bits!FileInode ELSE n \in Bits!FileInode \ Used /\ \A m \in Bits!FileInode \ Used : n <= m
  <2>1. CASE free = {}
    BY <1>5, <1>6, <2>1 DEF Used
  <2>2. CASE free # {}
    <3>1. n \in free /\ \A m \in free : n <= m
      BY <1>5, <1>6, <2>2, LeastBit
    <3>2. n # 0
      BY <1>5, <3>1, Sizes
    <3> QED BY <1>5, <3>1, <3>2
  <2> QED BY <2>1, <2>2
<1>9. InodeFound'
  <2>1. imap_bits' = 0 .. FIRST_INODE - 1 \cup (Used \cup {n})
    BY <1>1, <1>7 DEF IdleAt, Inodes
  <2> QED BY <1>3, <1>7, <1>8, <2>1 DEF InodeFound, Inodes
<1>10. ScanAt'
  <2>1. nr_smap_sects' \in Nat /\ 0 \in 0 .. nr_smap_sects'
    BY <1>3 DEF Placed
  <2>2. n \in Bits!FileInode \cup {0}
    BY <1>8
  <2>3. op' \in [pc : {"scan"}, inode : Bits!FileInode \cup {0}, i : 0 .. nr_smap_sects', left : Nat, first : Nat]
    BY <1>7, <2>1, <2>2, Sizes
  <2>4. Search'
    <3>1. 0 * Bits!SECTOR_BITS = 0
      BY Sizes
    <3>2. op'.left = NR_SECTS /\ smap_bits' = InExtents' /\ op'.i * Bits!SECTOR_BITS = 0
      BY <1>1, <1>2, <1>3, <1>7, <3>1 DEF IdleAt
    <3> QED BY <3>2 DEF Search
  <2> QED BY <1>7, <1>9, <2>3, <2>4 DEF ScanAt
<1> QED BY <1>2, <1>3, <1>10, MapsStay DEF Inv

\* The search went over a whole sector, or all of them: no extent begins there.
LEMMA NoneBelow ==
    ASSUME Placed, NEW b \in Nat, \A x \in Nat : x < b => x \in InExtents,
           NEW e \in Nat \ {0}, First(e) < b
    PROVE  \E n \in Used : start[n] = First(e)
<1>1. First(e) \in InExtents
  BY FirstBits
<1> QED BY <1>1, FirstHeld, TakenBits

\* new_inode: the step that creates, or finds the maps full.
LEMMA NewInodeKeeps ==
    ASSUME Inv, failed = "no", Bits!NewInode
    PROVE  IInv' /\ [Bits!Maps!Next]_(Bits!Maps!vars)
<1>1. Placed /\ ScanAt
  BY Where DEF Inv, Bits!NewInode, Bits!At
<1>2. /\ op.i = nr_smap_sects \/ op.left = 0
      /\ op' = Bits!Idle /\ UNCHANGED <<nr_smap_sects, imap_bits, smap_bits, fsbuf>>
  BY DEF Bits!NewInode
<1>3. InodeFound /\ IF op.first = 0 THEN Search ELSE Taking
  BY <1>1 DEF ScanAt
<1>4. /\ nr_smap_sects \in Nat /\ Rooms \in Nat /\ nr_smap_sects * Bits!SECTOR_BITS \in Nat
      /\ op.left \in Nat /\ op.first \in Nat /\ op.i \in Nat /\ op.inode \in Bits!FileInode \cup {0}
      /\ op.i * Bits!SECTOR_BITS \in Nat /\ op.i * Bits!SECTOR_BITS <= nr_smap_sects * Bits!SECTOR_BITS
  <2>1. op.i \in 0 .. nr_smap_sects /\ nr_smap_sects \in Nat
    BY <1>1 DEF ScanAt, Placed
  <2>2. op.i \in Nat /\ (op.i = nr_smap_sects \/ op.i < nr_smap_sects)
    BY <2>1
  <2>3. op.i < nr_smap_sects => op.i * Bits!SECTOR_BITS + Bits!SECTOR_BITS <= nr_smap_sects * Bits!SECTOR_BITS
    BY <2>1, <2>2, Sizes, Rows
  <2>4. op.i * Bits!SECTOR_BITS \in Nat /\ nr_smap_sects * Bits!SECTOR_BITS \in Nat
    BY <2>1, <2>2, Sizes, Products
  <2>5. op.i * Bits!SECTOR_BITS <= nr_smap_sects * Bits!SECTOR_BITS
    BY <2>2, <2>3, <2>4, Sizes
  <2> QED BY <1>1, <2>1, <2>2, <2>4, <2>5, Fits DEF ScanAt, Placed
<1>5. CASE op.left > 0 \/ op.inode = 0
  <2>1. failed' # "no" /\ start' = start
    BY <1>5 DEF Bits!NewInode
  <2>2. Bits!Maps!FreeInodes = {} \/ Bits!Maps!FreeExtents = {}
    <3>1. CASE op.inode = 0
      BY <1>1, <1>3, <3>1, Mapped DEF InodeFound
    <3>2. CASE op.left > 0
      <4>1. ASSUME NEW e \in 1 .. Rooms PROVE \E n \in Used : start[n] = First(e)
        <5>1. e \in Nat \ {0} /\ First(e) \in Nat /\ First(e) + NR_SECTS <= nr_smap_sects * Bits!SECTOR_BITS
          BY <1>1, <1>4, Fits, FirstBits DEF Placed
        <5>2. op.i = nr_smap_sects
          BY <1>2, <3>2, <1>4
        <5>3. CASE op.first = 0
          <6>1. \A x \in Nat : x < nr_smap_sects * Bits!SECTOR_BITS => x \in InExtents
            BY <1>3, <5>2, <5>3 DEF Search
          <6>2. First(e) < nr_smap_sects * Bits!SECTOR_BITS
            BY <1>4, <5>1, Sizes
          <6> QED BY <1>1, <1>4, <5>1, <6>1, <6>2, NoneBelow
        <5>4. CASE op.first # 0
          <6>1. PICK d \in Nat \ {0} : op.first = First(d) /\ FirstFree(d)
            BY <1>3, <5>4 DEF Taking
          <6>2. First(d) + NR_SECTS > nr_smap_sects * Bits!SECTOR_BITS
            BY <1>3, <1>4, <3>2, <5>2, <5>4, <6>1, Sizes DEF Taking, Reached
          <6>3. ~ (d <= Rooms)
            <7>1. First(d) + NR_SECTS \in Nat
              BY <6>1, FirstBits, Sizes
            <7> QED BY <1>1, <1>4, <6>2, <7>1, Fits DEF Placed
          <6>4. e \in 1 .. d - 1
            BY <1>4, <6>3
          <6> QED BY <6>1, <6>4 DEF FirstFree
        <5> QED BY <5>3, <5>4
      <4>2. Bits!Maps!FreeExtents = {}
        BY <1>1, <4>1, Mapped
      <4> QED BY <4>2
    <3> QED BY <1>5, <3>1, <3>2
  <2>3. Bits!Maps!Full
    BY <1>2, <2>1, <2>2 DEF Bits!Maps!Full
  <2> QED BY <2>1, <2>3 DEF IInv, Bits!Maps!Next
<1>6. CASE op.left = 0 /\ op.inode # 0
  <2>1. PICK n \in Bits!FileInode \ Used : n = op.inode /\ \A m \in Bits!FileInode \ Used : n <= m
    BY <1>3, <1>6 DEF InodeFound
  <2>2. op.first # 0
    BY <1>3, <1>6, Sizes DEF Search
  <2>3. PICK e \in Nat \ {0} : op.first = First(e) /\ FirstFree(e)
    BY <1>3, <2>2 DEF Taking
  <2>4. /\ start' = [start EXCEPT ![n] = First(e)] /\ failed' = failed
        /\ Reached = First(e) + NR_SECTS
    BY <1>4, <1>6, <2>1, <2>3, FirstBits, Sizes DEF Bits!NewInode, Reached
  <2>5. e \in 1 .. Rooms
    <3>1. Reached <= nr_smap_sects * Bits!SECTOR_BITS
      BY <1>3, <1>4, <2>2, <2>4, FirstBits, Sizes DEF Taking
    <3> QED BY <1>1, <1>4, <2>4, <3>1, Fits DEF Placed
  <2>6. /\ start' \in [Bits!FileInode -> Nat] /\ start'[n] = First(e) /\ First(e) # 0
        /\ \A m \in Bits!FileInode \ {n} : start'[m] = start[m]
    BY <1>1, <2>1, <2>4, FirstBits DEF Placed
  <2>7. Used' = Used \cup {n}
    BY <2>1, <2>6 DEF Used
  <2>8. Rooms' = Rooms
    BY <1>2 DEF Rooms
  <2>9. Placed'
    <3>1. \A m \in Used : m \in Bits!FileInode \ {n} /\ start[m] # First(e)
      BY <2>1, <2>3 DEF FirstFree, Used
    <3>2. ASSUME NEW m \in Used' PROVE \E d \in 1 .. Rooms' : start'[m] = First(d)
      <4>1. CASE m = n
        BY <2>5, <2>6, <2>8, <4>1
      <4>2. CASE m # n
        BY <1>1, <2>6, <2>7, <2>8, <3>1, <4>2 DEF Placed
      <4> QED BY <4>1, <4>2
    <3>3. ASSUME NEW l \in Used', NEW m \in Used', start'[l] = start'[m] PROVE l = m
      BY <1>1, <2>6, <2>7, <3>1, <3>3 DEF Placed
    <3> QED BY <1>1, <1>2, <2>6, <3>2, <3>3 DEF Placed, First
  <2>10. InExtents' = InExtents \cup Held(First(e))
    <3>1. Held(First(e)) \subseteq Nat
      BY FirstHeld
    <3>2. \A m \in Used : start'[m] = start[m]
      BY <2>1, <2>6 DEF Used
    <3>3. \A x : (\E m \in Used' : x \in Held(start'[m]))
                   <=> (\E m \in Used : x \in Held(start[m])) \/ x \in Held(First(e))
      BY <2>6, <2>7, <3>2
    <3> QED BY <3>1, <3>3 DEF InExtents
  <2>11. IdleAt'
    <3>1. smap_bits' = InExtents'
      <4>1. smap_bits = InExtents \cup (First(e) .. First(e) + NR_SECTS - 1)
        <5>1. smap_bits = InExtents \cup (op.first .. Reached - 1)
          BY <1>3, <2>2 DEF Taking
        <5>2. op.first = First(e) /\ Reached = First(e) + NR_SECTS
          BY <2>3, <2>4
        <5>3. Reached - 1 = First(e) + NR_SECTS - 1
          BY <5>2, FirstBits, Sizes
        <5> QED BY <5>1, <5>2, <5>3, Zenon
      <4> QED BY <1>2, <2>10, <4>1 DEF Held
    <3>2. imap_bits' = 0 .. FIRST_INODE - 1 \cup Used'
      BY <1>2, <1>3, <2>1, <2>7 DEF InodeFound, Inodes
    <3> QED BY <1>2, <3>1, <3>2 DEF IdleAt, Inodes
  <2>12. Bits!Maps!Create
    <3>1. Bits!Maps!Least(Bits!Maps!FreeInodes) = n /\ Bits!Maps!FreeInodes # {}
      <4>1. Bits!FileInode \ Used \in SUBSET Nat
        BY Sizes
      <4> QED BY <1>1, <2>1, <4>1, Mapped, LeastIs
    <3>2. Bits!Maps!Least(Bits!Maps!FreeExtents) = e /\ Bits!Maps!FreeExtents # {}
      <4>1. PICK S : S = {d \in 1 .. Rooms : \A m \in Used : start[m] # First(d)}
        OBVIOUS
      <4>2. S \in SUBSET Nat /\ e \in S
        BY <1>4, <2>3, <2>5, <4>1 DEF FirstFree
      <4>3. ASSUME NEW d \in S PROVE e <= d
        BY <1>4, <2>3, <4>1, <4>3 DEF FirstFree
      <4>4. Bits!Maps!Least(S) = e
        BY <4>2, <4>3, LeastIs
      <4>5. Bits!Maps!FreeExtents = S
        BY <1>1, <4>1, Mapped
      <4> QED BY <4>2, <4>4, <4>5
    <3>3. [m \in Bits!FileInode |-> Bits!ExtentOf(start'[m])]
            = [[m \in Bits!FileInode |-> Bits!ExtentOf(start[m])] EXCEPT ![n] = e]
      BY <2>1, <2>6, ExtentOfFirst
    <3> QED BY <1>2, <2>4, <3>1, <3>2, <3>3 DEF Bits!Maps!Create, Bits!ExtentOf
  <2> QED BY <2>9, <2>11, <2>12 DEF IInv, Inv, Bits!Maps!Next
<1> QED BY <1>4, <1>5, <1>6

\* How many bits there are between two places.
LEMMA BitsCounted ==
    ASSUME NEW a \in Nat, NEW b \in Nat, a <= b
    PROVE  Bits!Cardinality(a .. b - 1) = b - a
<1>1. a \in Int /\ b - 1 \in Int
  OBVIOUS
<1>2. Cardinality(a .. b - 1) = IF a > b - 1 THEN 0 ELSE b - 1 - a + 1
  BY <1>1, FS_Interval
<1>3. Bits!Cardinality(a .. b - 1) = Cardinality(a .. b - 1)
  BY DEF Bits!Cardinality, Cardinality
<1> QED BY <1>2, <1>3

\* alloc_smap_bit, one sector: the first 0 begins an extent that is wholly free.
LEMMA ScanSectorKeeps ==
    ASSUME Inv, failed = "no", Bits!ScanSector
    PROVE  Inv' /\ failed' = "no" /\ UNCHANGED Bits!Maps!vars
<1>1. Placed /\ ScanAt
  BY Where DEF Inv, Bits!ScanSector, Bits!At
<1>2. /\ UNCHANGED <<nr_smap_sects, imap_bits, start>>
      /\ op.i < nr_smap_sects /\ op.left > 0
  BY DEF Bits!ScanSector
<1>3. Placed' /\ Used' = Used /\ InExtents' = InExtents
  BY <1>1, <1>2, PlacedStays
<1>4. PICK i \in Nat, l \in Nat \ {0}, n \in Bits!FileInode \cup {0} :
        i = op.i /\ l = op.left /\ n = op.inode /\ i < nr_smap_sects /\ nr_smap_sects \in Nat
  BY <1>1, <1>2 DEF ScanAt, Placed
<1>5. PICK o \in Nat : o = i * Bits!SECTOR_BITS /\ (i + 1) * Bits!SECTOR_BITS = o + Bits!SECTOR_BITS
  BY Sizes, Products
<1>6. op.first \in Nat /\ InodeFound /\ op.pc = "scan"
  BY <1>1 DEF ScanAt
<1>7. PICK bits : bits = Bits!Read(i)
  OBVIOUS
<1>8. PICK free : free = (0 .. Bits!SECTOR_BITS - 1) \ bits
  OBVIOUS
<1>9. InExtents \subseteq Nat /\ bits = {b \in 0 .. Bits!SECTOR_BITS - 1 : o + b \in smap_bits}
  BY <1>5, <1>7 DEF InExtents, Bits!Read
<1>10. CASE op.first = 0 /\ free = {}
  <2>1. op' = [op EXCEPT !.i = i + 1] /\ UNCHANGED <<smap_bits, failed>>
    BY <1>4, <1>7, <1>8, <1>10 DEF Bits!ScanSector
  <2>2. op' \in [pc : {"scan"}, inode : Bits!FileInode \cup {0}, i : 0 .. nr_smap_sects', left : Nat, first : Nat]
    <3>1. i + 1 \in 0 .. nr_smap_sects'
      BY <1>2, <1>4
    <3> QED BY <1>1, <1>2, <2>1, <3>1 DEF ScanAt
  <2>3. /\ op'.inode = op.inode /\ op'.i = i + 1 /\ op'.left = op.left /\ op'.first = op.first
    BY <1>1, <2>1 DEF ScanAt
  <2>4. Search
    BY <1>1, <1>10 DEF ScanAt
  <2>5. ASSUME NEW x \in Nat, x < o + Bits!SECTOR_BITS PROVE x \in smap_bits
    <3>1. CASE x < o
      BY <1>4, <1>5, <2>4, <3>1 DEF Search
    <3>2. CASE x >= o
      <4>1. x - o \in 0 .. Bits!SECTOR_BITS - 1 /\ o + (x - o) = x
        BY <2>5, <3>2, Sizes
      <4>2. x - o \in bits
        BY <1>8, <1>10, <4>1
      <4> QED BY <1>9, <4>1, <4>2
    <3> QED BY <3>1, <3>2
  <2>6. Search'
    BY <1>3, <1>5, <2>1, <2>3, <2>4, <2>5 DEF Search
  <2>7. InodeFound'
    BY <1>2, <1>3, <1>6, <2>3 DEF InodeFound, Inodes
  <2>8. ScanAt'
    BY <1>10, <2>2, <2>3, <2>6, <2>7 DEF ScanAt
  <2> QED BY <1>2, <1>3, <2>1, <2>8, MapsStay DEF Inv
<1>11. CASE ~ (op.first = 0 /\ free = {})
  <2>1. PICK from : from = IF op.first # 0 THEN 0 ELSE Bits!Least(free)
    OBVIOUS
  \* The extent e is taken up to the bit from of this sector.
  <2>2. PICK e \in Nat \ {0} :
          /\ from \in 0 .. Bits!SECTOR_BITS - 1
          /\ FirstFree(e) /\ First(e) <= o + from
          /\ smap_bits = InExtents \cup (First(e) .. o + from - 1)
          /\ l = First(e) + NR_SECTS - (o + from)
          /\ First(e) = IF op.first = 0 THEN o + from ELSE op.first
    <3>1. CASE op.first = 0
      <4>1. Search /\ l = NR_SECTS /\ smap_bits = InExtents
        BY <1>1, <1>4, <3>1 DEF ScanAt, Search
      <4>2. free \in SUBSET Nat /\ free # {}
        BY <1>8, <1>11, <3>1, Sizes
      <4>3. from \in free /\ \A b \in free : from <= b
        BY <2>1, <3>1, <4>2, LeastBit
      <4>4. from \in 0 .. Bits!SECTOR_BITS - 1
        BY <1>8, <4>3
      <4>5. PICK f \in Nat : f = o + from
        BY <4>4, Sizes
      <4>6. f \notin InExtents
        BY <1>8, <1>9, <4>1, <4>3, <4>4, <4>5
      <4>7. ASSUME NEW x \in Nat, x < f PROVE x \in InExtents
        <5>1. CASE x < o
          BY <1>4, <1>5, <4>1, <5>1 DEF Search
        <5>2. CASE x >= o
          <6>1. x - o \in 0 .. Bits!SECTOR_BITS - 1 /\ o + (x - o) = x /\ x - o < from
            BY <4>4, <4>5, <4>7, <5>2, Sizes
          <6>2. x - o \notin free
            BY <4>3, <4>4, <6>1
          <6> QED BY <1>8, <1>9, <4>1, <6>1, <6>2
        <5> QED BY <5>1, <5>2
      <4>8. f > NR_SECTS
        BY <4>6, Sizes DEF InExtents
      <4>9. PICK e \in Nat \ {0} : f \in Held(First(e))
        BY <4>8, Sizes, Covered
      <4>10. \A n1 \in Used : start[n1] # First(e)
        BY <1>1, <4>6, <4>9, TakenBits
      <4>11. First(e) \in Nat /\ First(e) <= f
        BY <4>9, FirstBits, Sizes DEF Held
      <4>12. f = First(e)
        <5>1. First(e) \notin InExtents
          BY <1>1, <4>10, FirstHeld, TakenBits
        <5> QED BY <4>7, <4>11, <5>1
      <4>13. ASSUME NEW d \in 1 .. e - 1 PROVE \E n1 \in Used : start[n1] = First(d)
        <5>1. d \in Nat \ {0} /\ d < e
          OBVIOUS
        <5>2. d * NR_SECTS + NR_SECTS <= e * NR_SECTS
          BY <5>1, Sizes, Rows
        <5>3. First(d) < f
          <6>1. PICK p \in Nat, q \in Nat : p = d * NR_SECTS /\ q = e * NR_SECTS
            BY <5>1, Sizes, Products
          <6>2. First(d) = p + 1 /\ First(e) = q + 1 /\ p + NR_SECTS <= q
            BY <5>1, <5>2, <6>1, FirstBits
          <6> QED BY <4>12, <6>1, <6>2, Sizes
        <5> QED BY <1>1, <4>7, <5>1, <5>3, NoneBelow
      <4>14. FirstFree(e)
        BY <4>10, <4>13 DEF FirstFree
      <4>15. First(e) .. o + from - 1 = {}
        <5>1. f .. f - 1 = {}
          OBVIOUS
        <5>2. o + from - 1 = f - 1
          BY <4>4, <4>5
        <5> QED BY <4>12, <5>1, <5>2, Zenon
      <4> QED BY <3>1, <4>1, <4>4, <4>5, <4>11, <4>12, <4>14, <4>15, Sizes
    <3>2. CASE op.first # 0
      <4>1. Taking
        BY <1>1, <3>2 DEF ScanAt
      <4>2. PICK e \in Nat \ {0} : op.first = First(e) /\ FirstFree(e)
        BY <4>1 DEF Taking
      <4>3. from = 0 /\ from \in 0 .. Bits!SECTOR_BITS - 1
        BY <2>1, <3>2, Sizes
      <4>4. l <= NR_SECTS /\ First(e) + NR_SECTS - l = o /\ smap_bits = InExtents \cup (First(e) .. o - 1)
        BY <1>4, <1>5, <4>1, <4>2 DEF Taking, Reached
      <4>5. PICK f \in Nat : f = First(e)
        BY FirstBits
      <4>6. o + from = o
        BY <4>3
      <4>7. f <= o /\ l = f + NR_SECTS - o
        BY <4>4, <4>5, Sizes
      <4>8. smap_bits = InExtents \cup (First(e) .. o + from - 1)
        <5>1. o + from - 1 = o - 1
          BY <4>3
        <5> QED BY <4>4, <5>1, Zenon
      <4>9. First(e) <= o + from /\ l = First(e) + NR_SECTS - (o + from)
        BY <4>5, <4>6, <4>7
      <4> QED BY <3>2, <4>2, <4>3, <4>8, <4>9
    <3> QED BY <3>1, <3>2
  <2>3. PICK f \in Nat \ {0} : f = First(e)
    BY FirstBits
  <2>4. PICK to \in Nat : to = Bits!min(from + l, Bits!SECTOR_BITS)
    BY <2>2, Sizes DEF Bits!min
  <2>5. from < to /\ to <= Bits!SECTOR_BITS /\ to <= from + l /\ (to = from + l \/ to = Bits!SECTOR_BITS)
    BY <2>2, <2>4, Sizes DEF Bits!min
  <2>6. PICK took : took = from .. to - 1
    OBVIOUS
  <2>7. Bits!Cardinality(took) = to - from
    BY <2>2, <2>5, <2>6, BitsCounted
  <2>8. ASSUME NEW x \in f .. f + NR_SECTS - 1 PROVE x \notin InExtents
    BY <1>1, <2>2, <2>3, <2>8, TakenBits DEF FirstFree, Held
  <2>9. took \cap bits = {}
    <3> SUFFICES ASSUME NEW b \in took, b \in bits PROVE FALSE
      OBVIOUS
    <3>1. o + b \in f .. f + NR_SECTS - 1 /\ ~ (o + b <= o + from - 1)
      <4>1. b \in Nat /\ from <= b /\ b < to /\ from \in Nat
        BY <2>2, <2>5, <2>6
      <4>2. f <= o + from /\ to <= f + NR_SECTS - o
        BY <2>2, <2>3, <2>5, Sizes
      <4> QED BY <4>1, <4>2, Sizes
    <3>2. o + b \in smap_bits
      BY <1>9
    <3> QED BY <2>2, <2>8, <3>1, <3>2
  <2>10. /\ Bits!Asserts(TRUE) /\ fsbuf' = bits \cup took /\ smap_bits' = Bits!Write(i, fsbuf')
         /\ op' = [op EXCEPT !.i = @ + 1, !.left = @ - Bits!Cardinality(took),
                             !.first = IF @ = 0 THEN op.i * Bits!SECTOR_BITS + from ELSE @]
    <3>1. took \cap bits = {} <=> TRUE
      BY <2>9
    <3>2. took = from .. Bits!min(from + op.left, Bits!SECTOR_BITS) - 1
      BY <1>4, <2>4, <2>6
    <3> HIDE DEF Bits!Read, Bits!Least
    <3> QED BY <1>4, <1>7, <1>8, <1>11, <2>1, <3>1, <3>2 DEF Bits!ScanSector, Bits!Asserts
  <2>11. failed' = failed
    BY <2>10 DEF Bits!Asserts
  <2>12. op' = [op EXCEPT !.i = i + 1, !.left = l - (to - from), !.first = f]
    <3>1. (IF op.first = 0 THEN op.i * Bits!SECTOR_BITS + from ELSE op.first) = f
      BY <1>4, <1>5, <2>2, <2>3
    <3> QED BY <1>1, <1>4, <2>7, <2>10, <3>1 DEF ScanAt
  <2>13. l - (to - from) \in Nat /\ i + 1 \in 0 .. nr_smap_sects'
    BY <1>2, <1>4, <2>2, <2>5, Sizes
  <2>14. /\ op' \in [pc : {"scan"}, inode : Bits!FileInode \cup {0}, i : 0 .. nr_smap_sects', left : Nat, first : Nat]
         /\ op'.inode = op.inode /\ op'.i = i + 1 /\ op'.left = l - (to - from) /\ op'.first = f
    BY <1>1, <2>12, <2>13 DEF ScanAt
  <2>15. smap_bits' = InExtents \cup (f .. o + to - 1)
    <3>1. smap_bits \subseteq Nat
      <4>1. f .. o + from - 1 \subseteq Nat
        BY <2>2, Sizes
      <4> QED BY <1>9, <2>2, <2>3, <4>1
    <3>2. bits \cup took \in SUBSET (0 .. Bits!SECTOR_BITS - 1)
      BY <1>9, <2>2, <2>5, <2>6, Sizes
    <3>3. smap_bits' = {x \in Nat : IF o <= x /\ x < o + Bits!SECTOR_BITS
                                    THEN x - o \in bits \cup took ELSE x \in smap_bits}
      BY <1>5, <2>10, <3>1, <3>2, Written
    <3>4. ASSUME NEW x \in Nat, o <= x, x < o + Bits!SECTOR_BITS
          PROVE  x - o \in bits \cup took <=> x \in InExtents \cup (f .. o + to - 1)
      <4>1. x - o \in 0 .. Bits!SECTOR_BITS - 1 /\ o + (x - o) = x
        BY <3>4, Sizes
      <4>2. x - o \in bits <=> x \in InExtents \cup (f .. o + from - 1)
        BY <1>9, <2>2, <2>3, <4>1
      <4>3. x - o \in took <=> o + from <= x /\ x < o + to
        BY <2>2, <2>5, <2>6, <3>4, Sizes
      <4> QED BY <2>2, <2>3, <2>5, <4>2, <4>3, Sizes
    <3>5. ASSUME NEW x \in Nat, ~ (o <= x /\ x < o + Bits!SECTOR_BITS)
          PROVE  x \in smap_bits <=> x \in InExtents \cup (f .. o + to - 1)
      BY <2>2, <2>3, <2>5, <3>5, Sizes
    <3>6. InExtents \cup (f .. o + to - 1) \subseteq Nat
      BY <1>9, <2>2, <2>5, Sizes
    <3> QED BY <3>3, <3>4, <3>5, <3>6
  <2>16. Reached' = o + to
    <3>1. f + NR_SECTS - (l - (to - from)) = o + to
      <4>1. l = f + NR_SECTS - (o + from) /\ from \in Nat
        BY <2>2, <2>3
      <4> QED BY <4>1, Sizes
    <3>2. op'.first + NR_SECTS - op'.left = o + to
      BY <2>14, <3>1
    <3> QED BY <3>2 DEF Reached
  <2>17. FirstFree(e)'
    BY <1>2, <1>3, <2>2 DEF FirstFree, First
  <2>18. Taking'
    <3>1. op'.first = First(e)'
      BY <2>3, <2>14 DEF First
    <3>2. op'.left <= NR_SECTS
      BY <2>2, <2>3, <2>5, <2>14, Sizes
    <3>3. op'.i * Bits!SECTOR_BITS = o + Bits!SECTOR_BITS
      BY <1>5, <2>14
    <3>4. smap_bits' = InExtents' \cup (op'.first .. Reached' - 1)
      BY <1>3, <2>14, <2>15, <2>16
    <3>5. Reached' <= op'.i * Bits!SECTOR_BITS /\ (op'.left > 0 => Reached' = op'.i * Bits!SECTOR_BITS)
      BY <2>2, <2>5, <2>14, <2>16, <3>3, Sizes
    <3> QED BY <2>17, <3>1, <3>2, <3>4, <3>5 DEF Taking
  <2>19. InodeFound'
    BY <1>2, <1>3, <1>6, <2>14 DEF InodeFound, Inodes
  <2>20. ScanAt'
    BY <2>3, <2>14, <2>18, <2>19 DEF ScanAt
  <2> QED BY <1>2, <1>3, <2>11, <2>20, MapsStay DEF Inv
<1> QED BY <1>10, <1>11

-----------------------------------------------------------------------------
(***************************************************************************)
(* do_unlink.                                                              *)
(***************************************************************************)

\* Byte i is within the sector.
LEMMA ByteFits ==
    ASSUME NEW i \in Nat, i < SECTOR_SIZE
    PROVE  i * BITS \in Nat /\ (i + 1) * BITS = i * BITS + BITS /\ i * BITS + BITS <= Bits!SECTOR_BITS
  BY Sizes, Products, Rows

\* The place of a bit in its sector, byte and bit.
LEMMA PlaceOf ==
    ASSUME NEW bit \in Nat
    PROVE  \E s \in Nat, i \in 0 .. SECTOR_SIZE - 1, k \in 0 .. BITS - 1 :
               /\ s = (bit \div BITS) \div SECTOR_SIZE /\ i = (bit \div BITS) % SECTOR_SIZE /\ k = bit % BITS
               /\ s * Bits!SECTOR_BITS + i * BITS + k = bit
<1>1. PICK y \in Nat, k \in 0 .. BITS - 1 : y = bit \div BITS /\ k = bit % BITS /\ y * BITS + k = bit
  BY Sizes, Division
<1>2. PICK s \in Nat, i \in 0 .. SECTOR_SIZE - 1 :
        s = y \div SECTOR_SIZE /\ i = y % SECTOR_SIZE /\ s * SECTOR_SIZE + i = y
  BY Sizes, Division
<1>3. (s * SECTOR_SIZE + i) * BITS = s * Bits!SECTOR_BITS + i * BITS
  BY Sizes, Z3
<1>4. s * Bits!SECTOR_BITS \in Nat /\ i * BITS \in Nat
  BY Sizes, Products
<1> QED BY <1>1, <1>2, <1>3, <1>4

\* do_unlink: the first byte loses the bits of the extent only.
LEMMA FreeFirstKeeps ==
    ASSUME Inv, failed = "no", NEW n \in Bits!FileInode, Bits!FreeFirst(n)
    PROVE  Inv' /\ failed' = "no" /\ UNCHANGED Bits!Maps!vars
<1>1. Placed /\ IdleAt
  BY Where DEF Inv, Bits!FreeFirst, Bits!At
<1>2. start[n] # 0 /\ UNCHANGED <<nr_smap_sects, smap_bits, start>>
  BY DEF Bits!FreeFirst
<1>3. Placed' /\ Used' = Used /\ InExtents' = InExtents
  BY <1>1, <1>2, PlacedStays
<1>4. n \in Used
  BY <1>2 DEF Used
<1>5. PICK bit \in Nat : bit = start[n]
  BY <1>1 DEF Placed
<1>6. PICK s \in Nat, i \in 0 .. SECTOR_SIZE - 1, k \in 0 .. BITS - 1 :
        /\ s = (bit \div BITS) \div SECTOR_SIZE /\ i = (bit \div BITS) % SECTOR_SIZE /\ k = bit % BITS
        /\ s * Bits!SECTOR_BITS + i * BITS + k = bit
  BY PlaceOf
<1>7. PICK o \in Nat, p \in Nat :
        /\ o = s * Bits!SECTOR_BITS /\ p = i * BITS /\ (i + 1) * BITS = p + BITS /\ p + BITS <= Bits!SECTOR_BITS
        /\ o + p + k = bit
  BY <1>6, ByteFits, Products, Sizes
<1>8. PICK gone : gone = p + k .. p + BITS - 1
  OBVIOUS
<1>9. PICK m \in Nat : m = NR_SECTS - (BITS - k)
  BY Sizes
<1>10. PICK q \in Nat : q = m \div BITS /\ q * BITS <= m /\ m < q * BITS + BITS
  BY Quotient, Division, Sizes
<1>11. NR_SECTS - Bits!Cardinality(gone) = m
  <2>1. Bits!Cardinality(gone) = BITS - k
    <3>1. p + k \in Nat /\ p + BITS \in Nat /\ p + k <= p + BITS /\ (p + BITS) - (p + k) = BITS - k
          /\ (p + BITS) - 1 = p + BITS - 1
      BY Sizes
    <3>2. Bits!Cardinality(p + k .. (p + BITS) - 1) = (p + BITS) - (p + k)
      BY <3>1, BitsCounted
    <3> QED BY <1>8, <3>1, <3>2
  <2> QED BY <1>9, <2>1
<1>12. /\ Bits!Asserts(n \in imap_bits /\ gone \subseteq Bits!Read(s))
       /\ imap_bits' = imap_bits \ {n}
       /\ fsbuf' = Bits!Read(s) \ gone
       /\ op' = [pc |-> "free", inode |-> n, s |-> s, i |-> i + 1, bytes |-> q, left |-> m]
  <2>1. i * BITS + k .. i * BITS + Bits!min(k + NR_SECTS, BITS) - 1 = gone
    <3>1. Bits!min(k + NR_SECTS, BITS) = BITS
      BY Sizes DEF Bits!min
    <3> QED BY <1>7, <1>8, <3>1
  <2> HIDE DEF Bits!Read, Bits!Asserts
  <2> QED BY <1>5, <1>6, <1>9, <1>10, <1>11, <2>1 DEF Bits!FreeFirst
<1>13. Bits!Read(s) = {b \in 0 .. Bits!SECTOR_BITS - 1 : o + b \in InExtents}
  BY <1>1, <1>7 DEF Bits!Read, IdleAt
<1>14. failed' = failed
  <2>1. n \in imap_bits
    BY <1>1, <1>4 DEF IdleAt, Inodes
  <2>2. gone \subseteq Bits!Read(s)
    <3> SUFFICES ASSUME NEW b \in gone PROVE b \in Bits!Read(s)
      OBVIOUS
    <3>1. b \in 0 .. Bits!SECTOR_BITS - 1 /\ o + b \in Nat /\ bit <= o + b /\ o + b <= bit + NR_SECTS - 1
      BY <1>7, <1>8, Sizes
    <3>2. o + b \in Held(start[n])
      BY <1>5, <3>1, Sizes DEF Held
    <3>3. o + b \in InExtents
      BY <1>4, <3>1, <3>2 DEF InExtents
    <3> QED BY <1>13, <3>1, <3>3
  <2> HIDE DEF Bits!Read
  <2> QED BY <1>12, <2>1, <2>2 DEF Bits!Asserts
<1>15. FreeAt'
  <2>1. op' \in [pc : {"free"}, inode : Used', s : Nat, i : 1 .. SECTOR_SIZE, bytes : Int, left : Int]
    <3>1. i + 1 \in 1 .. SECTOR_SIZE
      BY <1>6, Sizes
    <3> QED BY <1>3, <1>4, <1>12, <3>1
  <2>2. /\ op'.inode = n /\ op'.s = s /\ op'.i = i + 1 /\ op'.bytes = q /\ op'.left = m
    BY <1>12
  <2>3. Inodes(Used \ {op.inode})'
    <3>1. n \notin 0 .. FIRST_INODE - 1
      BY Sizes DEF Bits!FileInode
    <3> QED BY <1>1, <1>3, <1>12, <2>2, <3>1 DEF IdleAt, Inodes
  <2>4. Position' = o + p + BITS
    <3>1. op'.s * Bits!SECTOR_BITS = o /\ op'.i * BITS = p + BITS
      BY <1>7, <2>2
    <3> QED BY <3>1, Sizes DEF Position
  <2>5. ClearedTo' = o + p + BITS
    BY <1>10, <2>2, <2>4 DEF ClearedTo
  <2>6. start'[op'.inode] = bit
    BY <1>2, <1>5, <2>2
  <2>7. m = bit + NR_SECTS - (o + p + BITS) /\ bit < o + p + BITS
    BY <1>7, <1>9, Sizes
  <2>8. op'.s * Bits!SECTOR_BITS = o
    BY <1>7, <2>2
  <2>9. smap_bits' = InExtents' \ (bit .. o - 1)
    <3>1. bit .. o - 1 = {}
      BY <1>7
    <3> QED BY <1>1, <1>2, <1>3, <3>1 DEF IdleAt
  <2>10. fsbuf' = {b \in 0 .. Bits!SECTOR_BITS - 1 : o + b \in smap_bits' /\ o + b \notin bit .. o + p + BITS - 1}
    <3>1. \A b \in 0 .. Bits!SECTOR_BITS - 1 : b \in gone <=> o + b \in bit .. o + p + BITS - 1
      BY <1>7, <1>8, Sizes
    <3>2. smap_bits' = InExtents
      BY <1>1, <1>2 DEF IdleAt
    <3> HIDE DEF Bits!Read
    <3> QED BY <1>12, <1>13, <3>1, <3>2
  <2>11. op'.bytes >= 0
    BY <1>10, <2>2
  <2>12. /\ start'[op'.inode] < Position' /\ op'.left = start'[op'.inode] + NR_SECTS - Position'
         /\ op'.bytes * BITS <= op'.left /\ op'.left < op'.bytes * BITS + BITS
    BY <1>10, <2>2, <2>4, <2>6, <2>7
  <2>13. op'.s * Bits!SECTOR_BITS <= ClearedTo' /\ ClearedTo' <= op'.s * Bits!SECTOR_BITS + Bits!SECTOR_BITS
    BY <1>7, <2>5, <2>8, Sizes
  <2>14. smap_bits' = InExtents' \ (start'[op'.inode] .. op'.s * Bits!SECTOR_BITS - 1)
    BY <2>6, <2>8, <2>9
  <2>15. fsbuf' = {b \in 0 .. Bits!SECTOR_BITS - 1 :
                     /\ op'.s * Bits!SECTOR_BITS + b \in smap_bits'
                     /\ op'.s * Bits!SECTOR_BITS + b \notin start'[op'.inode] .. ClearedTo' - 1}
    <3>1. o + p + BITS - 1 = (o + p + BITS) - 1
      BY Sizes
    <3> QED BY <2>5, <2>6, <2>8, <2>10, <3>1
  <2> QED BY <2>1, <2>3, <2>11, <2>12, <2>13, <2>14, <2>15 DEF FreeAt
<1> QED BY <1>2, <1>3, <1>14, <1>15, MapsStay DEF Inv

\* One byte of the bits 0 .. m - 1, with which the extent ends unless more follow.
LEMMA NextByteKeeps ==
    ASSUME Inv, failed = "no", op.pc = "free", op.bytes >= 0, NEW m \in Nat,
           m = IF op.bytes > 0 THEN BITS ELSE op.left,
           Bits!NextByte(0 .. m - 1), UNCHANGED <<nr_smap_sects, imap_bits, start>>
    PROVE  Inv' /\ failed' = "no" /\ UNCHANGED Bits!Maps!vars
<1>1. Placed /\ FreeAt
  BY Where DEF Inv
<1>2. Placed' /\ Used' = Used /\ InExtents' = InExtents
  BY <1>1, PlacedStays
<1>3. PICK n \in Used, s \in Nat, i \in 1 .. SECTOR_SIZE, y \in Nat, l \in Int :
        n = op.inode /\ s = op.s /\ i = op.i /\ y = op.bytes /\ l = op.left
  BY <1>1 DEF FreeAt
<1>4. PICK f \in Nat : f = start[n]
  BY <1>1, <1>3 DEF Placed, Used
<1>5. PICK o \in Nat : o = s * Bits!SECTOR_BITS /\ (s + 1) * Bits!SECTOR_BITS = o + Bits!SECTOR_BITS
  BY Sizes, Products
<1>6. PICK P \in Nat : P = Position /\ P = o + i * BITS
  <2>1. o + i * BITS \in Nat
    <3>1. i \in Nat
      OBVIOUS
    <3>2. i * BITS \in Nat
      BY <3>1, Sizes, Products
    <3> QED BY <3>2
  <2> QED BY <1>3, <1>5, <2>1 DEF Position
<1>7. ClearedTo = P
  BY <1>3, <1>6 DEF ClearedTo
<1>8. f < P /\ l = f + NR_SECTS - P
  BY <1>1, <1>3, <1>4, <1>6 DEF FreeAt
<1>9. y * BITS \in Nat /\ y * BITS <= l /\ l < y * BITS + BITS /\ (y > 0 => (y - 1) * BITS + BITS = y * BITS)
  <2>1. ASSUME y > 0 PROVE (y - 1) * BITS + BITS = y * BITS
    <3>1. y - 1 \in Nat /\ (y - 1) + 1 = y
      BY <2>1
    <3>2. ((y - 1) + 1) * BITS = (y - 1) * BITS + BITS
      BY <3>1, Sizes, Products
    <3> QED BY <3>1, <3>2
  <2>2. y * BITS \in Nat
    BY Sizes, Products
  <2>3. op.bytes * BITS <= op.left /\ op.left < op.bytes * BITS + BITS
    BY <1>1, <1>3 DEF FreeAt
  <2> QED BY <1>3, <2>1, <2>2, <2>3
<1>10. m <= l /\ m <= BITS /\ (y = 0 => m = l) /\ (y > 0 => m = BITS)
  <2>1. CASE y > 0
    <3>1. y - 1 \in Nat
      BY <2>1
    <3>2. (y - 1) * BITS \in Nat
      BY <3>1, Sizes, Products
    <3>3. m = BITS
      BY <1>3, <2>1
    <3>4. PICK q \in Nat : q = (y - 1) * BITS
      BY <3>2
    <3>5. q + BITS <= l
      BY <1>9, <2>1, <3>4
    <3> QED BY <2>1, <3>3, <3>5, Sizes
  <2>2. CASE y = 0
    <3>1. y * BITS = 0
      BY <2>2, Sizes
    <3> QED BY <1>3, <1>9, <2>2, <3>1, Sizes
  <2> QED BY <2>1, <2>2
<1>11. Inodes(Used \ {n}) /\ smap_bits = InExtents \ (f .. o - 1)
       /\ fsbuf = {b \in 0 .. Bits!SECTOR_BITS - 1 : o + b \in smap_bits /\ o + b \notin f .. P - 1}
  BY <1>1, <1>3, <1>4, <1>5, <1>7 DEF FreeAt
<1>12. PICK over \in BOOLEAN : over <=> i = SECTOR_SIZE
  OBVIOUS
<1>13. PICK s2 \in Nat, j \in 0 .. SECTOR_SIZE - 1 :
         s2 = (IF over THEN s + 1 ELSE s) /\ j = (IF over THEN 0 ELSE i)
  <2>1. CASE over
    BY <2>1, Sizes
  <2>2. CASE ~ over
    <3>1. i \in 0 .. SECTOR_SIZE - 1
      BY <1>12, <2>2, Sizes
    <3> QED BY <2>2, <3>1
  <2> QED BY <2>1, <2>2
<1>14. PICK o2 \in Nat, p \in Nat :
         o2 = s2 * Bits!SECTOR_BITS /\ p = j * BITS /\ (j + 1) * BITS = p + BITS /\ p + BITS <= Bits!SECTOR_BITS
  BY <1>13, ByteFits, Sizes, Products
<1>15. o2 + p = P /\ o2 = IF over THEN o + Bits!SECTOR_BITS ELSE o
  <2>1. CASE over
    <3>1. o2 = o + Bits!SECTOR_BITS /\ p = 0 /\ i * BITS = Bits!SECTOR_BITS
      <4>1. s2 = s + 1 /\ j = 0 /\ i = SECTOR_SIZE /\ 0 * BITS = 0
        BY <1>12, <1>13, <2>1, Sizes
      <4> QED BY <1>5, <1>14, <4>1, Sizes
    <3> QED BY <1>6, <2>1, <3>1, Sizes
  <2>2. CASE ~ over
    BY <1>5, <1>6, <1>12, <1>13, <1>14, <2>2
  <2> QED BY <2>1, <2>2
<1>16. PICK old : old = IF over THEN Bits!Read(s2) ELSE fsbuf
  OBVIOUS
<1>17. PICK gone : gone = {p + b : b \in 0 .. m - 1}
  OBVIOUS
<1>18. /\ Bits!Asserts(gone \subseteq old)
       /\ fsbuf' = old \ gone
       /\ smap_bits' = IF over THEN Bits!Write(s, fsbuf) ELSE smap_bits
       /\ op' = [op EXCEPT !.s = s2, !.i = j + 1, !.bytes = y - 1, !.left = l - m]
  <2>1. Bits!Cardinality(0 .. m - 1) = m
    BY BitsCounted
  <2>2. gone = {j * BITS + b : b \in 0 .. m - 1}
    BY <1>14, <1>17
  <2> HIDE DEF Bits!Read, Bits!Write, Bits!Asserts
  <2>3. /\ op.i = SECTOR_SIZE <=> over
        /\ (IF op.i = SECTOR_SIZE THEN op.s + 1 ELSE op.s) = s2
        /\ (IF op.i = SECTOR_SIZE THEN 0 ELSE op.i) = j
    BY <1>3, <1>12, <1>13
  <2>4. (IF op.i = SECTOR_SIZE THEN Bits!Read(s2) ELSE fsbuf) = old
    BY <1>16, <2>3
  <2>5. smap_bits' = IF over THEN Bits!Write(s, fsbuf) ELSE smap_bits
    BY <1>3, <2>3 DEF Bits!NextByte
  <2>6. Bits!Asserts(gone \subseteq old) /\ fsbuf' = old \ gone
    BY <2>2, <2>3, <2>4 DEF Bits!NextByte
  <2>7. op' = [op EXCEPT !.s = s2, !.i = j + 1, !.bytes = @ - 1, !.left = @ - m]
    BY <2>1, <2>3 DEF Bits!NextByte
  <2> QED BY <1>1, <1>3, <2>5, <2>6, <2>7 DEF FreeAt
<1>19. InExtents \subseteq Nat
  BY DEF InExtents
<1>20. old = {b \in 0 .. Bits!SECTOR_BITS - 1 : o2 + b \in InExtents /\ o2 + b \notin f .. P - 1}
  <2>1. CASE over
    <3>1. old = {b \in 0 .. Bits!SECTOR_BITS - 1 : o2 + b \in smap_bits}
      BY <1>14, <1>16, <2>1 DEF Bits!Read
    <3>2. ASSUME NEW b \in 0 .. Bits!SECTOR_BITS - 1
          PROVE  o2 + b \in smap_bits <=> o2 + b \in InExtents /\ o2 + b \notin f .. P - 1
      <4>1. o <= o2 /\ P <= o2
        <5>1. p = 0
          BY <1>13, <1>14, <2>1, Sizes
        <5> QED BY <1>15, <2>1, <5>1, Sizes
      <4> QED BY <1>11, <4>1, Sizes
    <3> QED BY <3>1, <3>2
  <2>2. CASE ~ over
    <3>1. o2 = o /\ old = fsbuf
      BY <1>15, <1>16, <2>2
    <3>2. ASSUME NEW b \in 0 .. Bits!SECTOR_BITS - 1 PROVE o + b \in smap_bits <=> o + b \in InExtents
      BY <1>11, Sizes
    <3> QED BY <1>11, <3>1, <3>2
  <2> QED BY <2>1, <2>2
<1>21. \A b \in 0 .. Bits!SECTOR_BITS - 1 : b \in gone <=> o2 + b \in P .. P + m - 1
  <2>1. gone = {b \in 0 .. Bits!SECTOR_BITS - 1 : p <= b /\ b < p + m}
    <3>1. ASSUME NEW b \in 0 .. Bits!SECTOR_BITS - 1, p <= b, b < p + m PROVE b \in gone
      <4>1. b - p \in 0 .. m - 1 /\ p + (b - p) = b
        BY <3>1
      <4> QED BY <1>17, <4>1
    <3>2. ASSUME NEW b \in 0 .. m - 1
          PROVE  p + b \in 0 .. Bits!SECTOR_BITS - 1 /\ p <= p + b /\ p + b < p + m
      BY <1>10, <1>14, Sizes
    <3> QED BY <1>17, <3>1, <3>2
  <2> QED BY <1>15, <2>1, Sizes
<1>22. failed' = failed
  <2>1. gone \subseteq old
    <3> SUFFICES ASSUME NEW b \in gone PROVE b \in old
      OBVIOUS
    <3>1. b \in 0 .. Bits!SECTOR_BITS - 1
      BY <1>10, <1>14, <1>17, Sizes
    <3>2. o2 + b \in P .. P + m - 1
      BY <1>21, <3>1
    <3>3. o2 + b \in Nat /\ P <= o2 + b /\ o2 + b < P + m
      BY <3>1, <3>2, Sizes
    <3>4. o2 + b \in f .. f + NR_SECTS - 1 /\ o2 + b \notin f .. P - 1
      <4>1. PICK x \in Nat : x = o2 + b
        BY <3>3
      <4>2. x \in f .. f + NR_SECTS - 1 /\ x \notin f .. P - 1
        BY <1>8, <1>10, <3>3, <4>1, Sizes
      <4> QED BY <4>1, <4>2
    <3>5. o2 + b \in InExtents
      BY <1>3, <1>4, <3>3, <3>4 DEF InExtents, Held
    <3> QED BY <1>20, <3>1, <3>4, <3>5
  <2> HIDE DEF Bits!Read
  <2> QED BY <1>18, <2>1 DEF Bits!Asserts
<1>23. smap_bits' = InExtents \ (f .. o2 - 1)
  <2>1. CASE over
    <3>1. o2 = o + Bits!SECTOR_BITS /\ P = o + Bits!SECTOR_BITS
      <4>1. p = 0
        BY <1>13, <1>14, <2>1, Sizes
      <4> QED BY <1>15, <2>1, <4>1, Sizes
    <3>2. fsbuf \in SUBSET (0 .. Bits!SECTOR_BITS - 1) /\ smap_bits \subseteq Nat
      BY <1>11, <1>19
    <3>3. smap_bits' = {x \in Nat : IF o <= x /\ x < o + Bits!SECTOR_BITS THEN x - o \in fsbuf ELSE x \in smap_bits}
      BY <1>5, <1>18, <2>1, <3>2, Written
    <3>4. ASSUME NEW x \in Nat, o <= x, x < o + Bits!SECTOR_BITS
          PROVE  x - o \in fsbuf <=> x \in InExtents \ (f .. o2 - 1)
      <4>1. x - o \in 0 .. Bits!SECTOR_BITS - 1 /\ o + (x - o) = x
        BY <3>4, Sizes
      <4>2. x - o \in fsbuf <=> x \in smap_bits /\ x \notin f .. P - 1
        BY <1>11, <4>1
      <4> QED BY <1>11, <3>1, <3>4, <4>2, Sizes
    <3>5. ASSUME NEW x \in Nat, ~ (o <= x /\ x < o + Bits!SECTOR_BITS)
          PROVE  x \in smap_bits <=> x \in InExtents \ (f .. o2 - 1)
      BY <1>11, <3>1, <3>5, Sizes
    <3> QED BY <1>19, <3>3, <3>4, <3>5
  <2>2. CASE ~ over
    BY <1>11, <1>15, <1>18, <2>2
  <2> QED BY <2>1, <2>2
<1>24. FreeAt'
  <2>1. op' \in [pc : {"free"}, inode : Used', s : Nat, i : 1 .. SECTOR_SIZE, bytes : Int, left : Int]
    <3>1. j + 1 \in 1 .. SECTOR_SIZE /\ y - 1 \in Int /\ l - m \in Int
      BY <1>13, Sizes
    <3> QED BY <1>1, <1>2, <1>18, <3>1 DEF FreeAt
  <2>2. /\ op'.inode = n /\ op'.s = s2 /\ op'.i = j + 1 /\ op'.bytes = y - 1 /\ op'.left = l - m
    BY <1>1, <1>3, <1>18 DEF FreeAt
  <2>3. Inodes(Used \ {op.inode})'
    BY <1>2, <1>11, <2>2 DEF Inodes
  <2>4. op'.s * Bits!SECTOR_BITS = o2 /\ start'[op'.inode] = f
    BY <1>4, <1>14, <2>2
  <2>5. Position' = P + BITS
    <3>1. op'.i * BITS = p + BITS
      BY <1>14, <2>2
    <3> QED BY <1>15, <2>4, <3>1, Sizes DEF Position
  <2>6. ClearedTo' = P + m
    <3>1. CASE y = 0
      <4>1. ClearedTo' = f + NR_SECTS
        BY <2>2, <2>4, <3>1 DEF ClearedTo
      <4>2. m = f + NR_SECTS - P
        BY <1>8, <1>10, <3>1
      <4> QED BY <4>1, <4>2, Sizes
    <3>2. CASE y > 0
      BY <1>10, <2>2, <2>5, <3>2, Sizes DEF ClearedTo
    <3> QED BY <3>1, <3>2
  <2>7. IF op'.bytes < 0
        THEN op'.bytes = -1
        ELSE /\ start'[op'.inode] < Position' /\ op'.left = start'[op'.inode] + NR_SECTS - Position'
             /\ op'.bytes * BITS <= op'.left /\ op'.left < op'.bytes * BITS + BITS
    <3>1. CASE y = 0
      BY <2>2, <3>1
    <3>2. CASE y > 0
      <4>1. PICK q \in Int : q = (y - 1) * BITS /\ q + BITS <= l /\ l < q + BITS + BITS
        <5>1. (y - 1) * BITS \in Nat
          BY <3>2, Sizes, Products
        <5> QED BY <1>9, <3>2, <5>1, Sizes
      <4>2. m = BITS /\ ~ (y - 1 < 0)
        BY <1>10, <3>2
      <4>3. q <= l - m /\ l - m < q + BITS
        BY <4>1, <4>2, Sizes
      <4>4. l - m = f + NR_SECTS - (P + BITS) /\ f < P + BITS
        BY <1>8, <4>2, Sizes
      <4> QED BY <2>2, <2>4, <2>5, <4>1, <4>2, <4>3, <4>4
    <3> QED BY <3>1, <3>2
  <2>8. op'.s * Bits!SECTOR_BITS <= ClearedTo' /\ ClearedTo' <= op'.s * Bits!SECTOR_BITS + Bits!SECTOR_BITS
    BY <1>10, <1>14, <1>15, <2>4, <2>6, Sizes
  <2>9. smap_bits' = InExtents' \ (start'[op'.inode] .. op'.s * Bits!SECTOR_BITS - 1)
    BY <1>2, <1>23, <2>4
  <2>10. fsbuf' = {b \in 0 .. Bits!SECTOR_BITS - 1 :
                     /\ op'.s * Bits!SECTOR_BITS + b \in smap_bits'
                     /\ op'.s * Bits!SECTOR_BITS + b \notin start'[op'.inode] .. ClearedTo' - 1}
    <3>1. ASSUME NEW b \in 0 .. Bits!SECTOR_BITS - 1
          PROVE  b \in old \ gone <=> o2 + b \in smap_bits' /\ o2 + b \notin f .. P + m - 1
      <4>1. PICK x \in Nat : x = o2 + b /\ o2 <= x
        BY Sizes
      <4>2. x \in smap_bits' <=> x \in InExtents
        BY <1>23, <4>1
      <4>3. b \in old \ gone <=> x \in InExtents /\ x \notin f .. P - 1 /\ x \notin P .. P + m - 1
        BY <1>20, <1>21, <4>1
      <4> QED BY <1>8, <4>1, <4>2, <4>3
    <3>2. old \ gone \subseteq 0 .. Bits!SECTOR_BITS - 1
      BY <1>20
    <3>3. ClearedTo' - 1 = P + m - 1 /\ P + m - 1 = P + (m - 1)
      BY <2>6
    <3> QED BY <1>18, <2>4, <3>1, <3>2, <3>3
  <2> QED BY <2>1, <2>3, <2>7, <2>8, <2>9, <2>10 DEF FreeAt
<1> QED BY <1>2, <1>22, <1>24, MapsStay DEF Inv

\* do_unlink: with the last sector written the file is gone from both maps.
LEMMA FreeInodeKeeps ==
    ASSUME Inv, failed = "no", Bits!FreeInode
    PROVE  Inv' /\ [Bits!Maps!Next]_(Bits!Maps!vars)
<1>1. Placed /\ FreeAt
  BY Where DEF Inv, Bits!FreeInode, Bits!At
<1>2. PICK n \in Used, s \in Nat : n = op.inode /\ s = op.s
  BY <1>1 DEF FreeAt
<1>3. /\ op.bytes < 0 /\ smap_bits' = Bits!Write(s, fsbuf)
      /\ start' = [start EXCEPT ![n] = 0] /\ op' = Bits!Idle
      /\ UNCHANGED <<nr_smap_sects, imap_bits, fsbuf, failed>>
  BY <1>2 DEF Bits!FreeInode
<1>4. n \in Bits!FileInode
  BY DEF Used
<1>5. PICK f \in Nat : f = start[n]
  BY <1>1, <1>4 DEF Placed
<1>6. PICK o \in Nat : o = s * Bits!SECTOR_BITS
  BY Sizes, Products
<1>7. ClearedTo = f + NR_SECTS /\ o <= f + NR_SECTS /\ f + NR_SECTS <= o + Bits!SECTOR_BITS
  <2>1. ClearedTo = f + NR_SECTS
    BY <1>2, <1>3, <1>5 DEF ClearedTo
  <2> QED BY <1>1, <1>2, <1>6, <2>1 DEF FreeAt
<1>8. /\ Inodes(Used \ {n}) /\ smap_bits = InExtents \ (f .. o - 1)
      /\ fsbuf = {b \in 0 .. Bits!SECTOR_BITS - 1 : o + b \in smap_bits /\ o + b \notin f .. f + NR_SECTS - 1}
  <2>1. (f + NR_SECTS) - 1 = f + NR_SECTS - 1
    BY Sizes
  <2> QED BY <1>1, <1>2, <1>5, <1>6, <1>7, <2>1 DEF FreeAt
<1>9. InExtents \subseteq Nat
  BY DEF InExtents
<1>10. smap_bits' = InExtents \ (f .. f + NR_SECTS - 1)
  <2>1. fsbuf \in SUBSET (0 .. Bits!SECTOR_BITS - 1) /\ smap_bits \subseteq Nat
    BY <1>8, <1>9
  <2>2. smap_bits' = {x \in Nat : IF o <= x /\ x < o + Bits!SECTOR_BITS THEN x - o \in fsbuf ELSE x \in smap_bits}
    BY <1>3, <1>6, <2>1, Written
  <2>3. ASSUME NEW x \in Nat, o <= x, x < o + Bits!SECTOR_BITS
        PROVE  x - o \in fsbuf <=> x \in InExtents \ (f .. f + NR_SECTS - 1)
    <3>1. x - o \in 0 .. Bits!SECTOR_BITS - 1 /\ o + (x - o) = x
      BY <2>3, Sizes
    <3>2. x - o \in fsbuf <=> x \in smap_bits /\ x \notin f .. f + NR_SECTS - 1
      BY <1>8, <3>1
    <3> QED BY <1>8, <2>3, <3>2
  <2>4. ASSUME NEW x \in Nat, ~ (o <= x /\ x < o + Bits!SECTOR_BITS)
        PROVE  x \in smap_bits <=> x \in InExtents \ (f .. f + NR_SECTS - 1)
    BY <1>7, <1>8, <2>4, Sizes
  <2> QED BY <1>9, <2>2, <2>3, <2>4
<1>11. /\ start' \in [Bits!FileInode -> Nat] /\ start'[n] = 0
       /\ \A m \in Bits!FileInode \ {n} : start'[m] = start[m]
  BY <1>1, <1>3, <1>4 DEF Placed
<1>12. Used' = Used \ {n}
  BY <1>11 DEF Used
<1>13. Placed'
  <2>1. Rooms' = Rooms
    BY <1>3 DEF Rooms
  <2>2. \A m \in Used' : m \in Used /\ start'[m] = start[m]
    BY <1>11, <1>12 DEF Used
  <2> QED BY <1>1, <1>3, <1>11, <2>1, <2>2 DEF Placed, First
<1>14. InExtents' = InExtents \ Held(f)
  <2>1. \A m \in Used' : m \in Used /\ m # n /\ start'[m] = start[m]
    BY <1>11, <1>12 DEF Used
  <2>2. PICK e \in Nat \ {0} : f = First(e)
    <3>1. PICK e \in 1 .. Rooms : start[n] = First(e)
      BY <1>1 DEF Placed
    <3>2. e \in Nat \ {0}
      BY <1>1, Fits DEF Placed
    <3> QED BY <1>5, <3>1, <3>2
  <2>3. ASSUME NEW x \in Held(f) PROVE x \notin InExtents'
    <3>1. x \in Nat /\ x > NR_SECTS
      BY <2>2, FirstHeld, FirstBits, Sizes DEF Held
    <3>2. ASSUME NEW m \in Used', x \in Held(start'[m]) PROVE FALSE
      <4>1. m \in Used /\ x \in Held(start[m])
        BY <2>1, <3>2
      <4>2. PICK d \in 1 .. Rooms : start[m] = First(d)
        BY <1>1, <4>1 DEF Placed
      <4>3. d \in Nat
        BY <1>1, Fits DEF Placed
      <4>4. d = e
        BY <2>2, <4>1, <4>2, <4>3, ExtentsDisjoint
      <4> QED BY <1>1, <1>5, <2>1, <2>2, <4>1, <4>2, <4>4 DEF Placed
    <3>3. ~ (x <= NR_SECTS)
      BY <3>1, Sizes
    <3> QED BY <3>2, <3>3 DEF InExtents, Held
  <2>4. ASSUME NEW x \in InExtents, x \notin Held(f) PROVE x \in InExtents'
    BY <1>5, <1>11, <1>12, <2>4 DEF InExtents, Held, Used
  <2>5. ASSUME NEW x \in InExtents' PROVE x \in InExtents
    BY <2>1 DEF InExtents, Held
  <2> QED BY <2>3, <2>4, <2>5
<1>15. IdleAt'
  <2>1. smap_bits' = InExtents'
    BY <1>10, <1>14 DEF Held
  <2> QED BY <1>3, <1>8, <1>12, <2>1 DEF IdleAt, Inodes
<1>16. Bits!Maps!Remove(n)
  <2>1. Bits!ExtentOf(start[n]) # 0
    BY <1>1, <1>4, Mapped
  <2>2. [m \in Bits!FileInode |-> Bits!ExtentOf(start'[m])] = [[m \in Bits!FileInode |-> Bits!ExtentOf(start[m])] EXCEPT ![n] = 0]
    BY <1>4, <1>11, ExtentOfFirst
  <2>3. failed = "no" /\ nr_smap_sects' = nr_smap_sects /\ failed' = failed
    BY <1>3
  <2> QED BY <1>4, <2>1, <2>2, <2>3 DEF Bits!Maps!Remove, Bits!ExtentOf
<1> QED BY <1>4, <1>13, <1>15, <1>16 DEF Inv, Bits!Maps!Next

-----------------------------------------------------------------------------
(***************************************************************************)
(* The whole of it.                                                        *)
(***************************************************************************)

\* What mkfs leaves is what Extents begins with.
LEMMA InitMapped ==
    ASSUME Bits!Init
    PROVE  IInv /\ Bits!Maps!Init
<1>1. Used = {}
  BY DEF Bits!Init, Used
<1>2. start \in [Bits!FileInode -> Nat] /\ nr_smap_sects \in Nat \ {0}
  BY BitmapsAssumption DEF Bits!Init
<1>3. Placed
  BY <1>1, <1>2 DEF Placed
<1>4. InExtents = 0 .. NR_SECTS
  BY <1>1, Sizes DEF InExtents
<1>5. IdleAt
  BY <1>1, <1>4 DEF IdleAt, Inodes, Bits!Init
<1>6. Rooms \in Nat
  BY <1>2, Fits
<1>7. [n \in Bits!FileInode |-> Bits!ExtentOf(start[n])] = [n \in Bits!FileInode |-> 0]
  BY ExtentOfFirst DEF Bits!Init
<1>8. (failed # "no") = FALSE
  BY DEF Bits!Init
<1>9. Bits!Maps!Init
  BY <1>6, <1>7, <1>8 DEF Bits!Maps!Init, Rooms, Bits!ExtentOf
<1> QED BY <1>3, <1>5, <1>9 DEF IInv, Inv

\* Every step creates, finds the maps full, removes, or is none of Extents.
LEMMA StepMapped ==
    ASSUME IInv, [Bits!Next]_(Bits!vars)
    PROVE  IInv' /\ [Bits!Maps!Next]_(Bits!Maps!vars)
<1>1. CASE UNCHANGED Bits!vars
  <2>1. UNCHANGED <<nr_smap_sects, imap_bits, smap_bits, start, fsbuf, op, failed>>
    BY <1>1 DEF Bits!vars
  <2>2. UNCHANGED Bits!Maps!vars
    BY <2>1, MapsStay
  <2>3. ASSUME failed = "no" PROVE Inv'
    <3>1. Placed' /\ Used' = Used /\ InExtents' = InExtents
      BY <2>1, <2>3, PlacedStays DEF IInv, Inv
    <3>2. IdleAt => IdleAt'
      BY <2>1, <3>1 DEF IdleAt, Inodes
    <3>3. ScanAt => ScanAt'
      BY <2>1, <3>1 DEF ScanAt, InodeFound, Inodes, Search, Taking, FirstFree, First, Reached
    <3>4. FreeAt => FreeAt'
      BY <2>1, <3>1 DEF FreeAt, Inodes, Position, ClearedTo
    <3> QED BY <2>3, <3>1, <3>2, <3>3, <3>4 DEF IInv, Inv
  <2> QED BY <2>1, <2>2, <2>3 DEF IInv
<1>2. CASE Bits!Next
  <2>1. failed = "no" /\ Inv
    BY <1>2 DEF Bits!Next, Bits!AllocInode, Bits!ScanSector, Bits!NewInode, Bits!FreeFirst,
       Bits!FreeByte, Bits!FreeLast, Bits!FreeInode, Bits!At, IInv
  <2>2. CASE Bits!AllocInode
    BY <2>1, <2>2, AllocInodeKeeps DEF IInv
  <2>3. CASE Bits!ScanSector
    BY <2>1, <2>3, ScanSectorKeeps DEF IInv
  <2>4. CASE Bits!NewInode
    BY <2>1, <2>4, NewInodeKeeps
  <2>5. ASSUME NEW n \in Bits!FileInode, Bits!FreeFirst(n) PROVE IInv' /\ [Bits!Maps!Next]_(Bits!Maps!vars)
    BY <2>1, <2>5, FreeFirstKeeps DEF IInv
  <2>6. CASE Bits!FreeByte
    <3>1. /\ op.pc = "free" /\ op.bytes > 0 /\ Bits!NextByte(0 .. BITS - 1)
          /\ UNCHANGED <<nr_smap_sects, imap_bits, start>>
      BY <2>6 DEF Bits!FreeByte, Bits!At
    <3>2. op.bytes >= 0
      BY <2>1, <3>1, Where DEF FreeAt
    <3>3. Inv' /\ failed' = "no" /\ UNCHANGED Bits!Maps!vars
      BY <2>1, <3>1, <3>2, Sizes, NextByteKeeps
    <3> QED BY <3>3 DEF IInv
  <2>7. CASE Bits!FreeLast
    <3>1. /\ op.pc = "free" /\ op.bytes = 0 /\ Bits!NextByte(0 .. op.left - 1)
          /\ UNCHANGED <<nr_smap_sects, imap_bits, start>>
      BY <2>7 DEF Bits!FreeLast, Bits!At
    <3>2. PICK m : m = op.left
      OBVIOUS
    <3>3. m \in Nat /\ m = (IF op.bytes > 0 THEN BITS ELSE op.left) /\ op.bytes >= 0
      <4>1. FreeAt /\ op.left \in Int
        BY <2>1, <3>1, Where DEF FreeAt
      <4>2. op.bytes * BITS <= op.left
        BY <3>1, <4>1 DEF FreeAt
      <4>3. op.bytes * BITS = 0
        BY <3>1, Sizes
      <4> QED BY <3>1, <3>2, <4>1, <4>2, <4>3
    <3>4. Inv' /\ failed' = "no" /\ UNCHANGED Bits!Maps!vars
      BY <2>1, <3>1, <3>2, <3>3, NextByteKeeps
    <3> QED BY <3>4 DEF IInv
  <2>8. CASE Bits!FreeInode
    BY <2>1, <2>8, FreeInodeKeeps DEF IInv
  <2> QED BY <1>2, <2>2, <2>3, <2>4, <2>5, <2>6, <2>7, <2>8 DEF Bits!Next
<1> QED BY <1>1, <1>2

\* The Extents that Bits speaks of is that of KeepsExtents.
LEMMA SameExtents ==
    /\ Bits!Maps!Init <=> Maps!Init
    /\ [Bits!Maps!Next]_(Bits!Maps!vars) <=> [Maps!Next]_(Maps!vars)
  BY DEF Bits!Maps!Init, Bits!Maps!Next, Bits!Maps!vars, Bits!Maps!Create, Bits!Maps!Full,
     Bits!Maps!Remove, Bits!Maps!FreeInodes, Bits!Maps!FreeExtents, Bits!Maps!Least,
     Bits!SECTOR_BITS, Bits!FileInode, Bits!ExtentOf,
     Maps!Init, Maps!Next, Maps!vars, Maps!Create, Maps!Full,
     Maps!Remove, Maps!FreeInodes, Maps!FreeExtents, Maps!Least,
     SECTOR_BITS, FileInode, ExtentOf

\* Bit by bit, FS keeps the two maps as Extents promises, for any sizes: a
\* file gets the lowest free inode and extent, takes nobody's, and gives back what
\* it had; only a full map stops FS (open.c:174-258, link.c:71-119).
THEOREM ExtentsRefined == Bits!Spec => KeepsExtents
<1>1. Bits!Init => IInv /\ Maps!Init
  BY InitMapped, SameExtents
<1>2. IInv /\ [Bits!Next]_(Bits!vars) => IInv' /\ [Maps!Next]_(Maps!vars)
  BY StepMapped, SameExtents
<1> QED BY <1>1, <1>2, PTL DEF Bits!Spec, KeepsExtents, Maps!Spec
=============================================================================
