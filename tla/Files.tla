------------------------------- MODULE Files -------------------------------
(***************************************************************************)
(* The tables of task FS: the descriptors of the processes (filp), the     *)
(* table of open files, the inode cache, and on disk the inode map, the    *)
(* sector map, the inode array and the root directory.                     *)
(*                                                                         *)
(* FS serves one message at a time (fs/main.c:36) and waits for the disk   *)
(* driver inside a request, so one step is one whole request: do_open      *)
(* (open and create), do_close, do_unlink, fs_fork.                        *)
(*                                                                         *)
(* Every regular file occupies NR_DEFAULT_FILE_SECTS sectors; one such     *)
(* extent is one element of smap.  Names have the same length, except that *)
(* those in LongName fill the 12 bytes of a directory entry.               *)
(***************************************************************************)
EXTENDS Integers, FiniteSets

CONSTANTS
    Proc,            \* the processes that run from the start
    Child,           \* the free slots of proc_table, for processes to come
    Name, LongName,  \* file names; those of MAX_FILENAME_LEN characters or more
    TTY_NAME,        \* the name of a device file that mkfs makes
    NR_FILES, NR_FILE_DESC, NR_INODE,
    NInode,          \* inodes of the disk: the root, the device, the files
    NExtent,         \* extents for files
    PerBlock,        \* SECTOR_SIZE / DIR_ENTRY_SIZE
    MaxEntries,      \* bound of the model: entries of the root directory
    MaxCnt           \* bound of the model: references to one inode

ROOT_INODE == 1
TTY_INODE  == 2

ASSUME FilesAssumption ==
    /\ NR_FILES \in Nat \ {0} /\ NR_FILE_DESC \in Nat \ {0} /\ NR_INODE \in Nat \ {0}
    /\ NInode \in Nat /\ NInode >= 2 /\ NExtent \in Nat
    /\ PerBlock \in Nat /\ PerBlock >= 2 /\ MaxEntries \in Nat /\ MaxEntries >= 2 /\ MaxCnt \in Nat
    /\ LongName \subseteq Name /\ TTY_NAME \notin Name /\ "" \notin Name \cup {TTY_NAME}
    /\ "." \notin Name \cup {TTY_NAME} /\ Proc \cap Child = {}

Fd     == 1 .. NR_FILES
Desc   == 1 .. NR_FILE_DESC
Slot   == 1 .. NR_INODE
Num    == 1 .. NInode
Extent == 1 .. NExtent

DIRECTORY == "directory"
CHAR_SPECIAL == "char special"
REGULAR == "regular"
CLEARED == "cleared"      \* i_mode is 0
Mode == {DIRECTORY, CHAR_SPECIAL, REGULAR, CLEARED}

VARIABLES
    used,            \* the processes there are
    filp,            \* filp[q][fd]: an entry of f_desc_table, or 0
    fd_inode,        \* fd_inode[d]: a slot of inode_table, or 0
    fd_cnt,
    i_num, i_cnt, i_mode, i_start_sect,      \* the fields of inode_table[s]
    imap, smap,      \* the inodes and extents marked as used
    inode_array,     \* the inodes on disk
    root_dir,        \* the entries of the root directory, those past its end too
    nr_dir_entries,  \* root_inode->i_size, in entries
    halted           \* "no", or what stopped the system: "panic", the
                     \* "exception" of an address there is no memory at, or
                     \* an assertion

tables == <<filp, fd_inode, fd_cnt>>
cache  == <<i_num, i_cnt, i_mode, i_start_sect>>
disk   == <<imap, smap, inode_array, root_dir, nr_dir_entries>>
vars   == <<used, tables, cache, disk, halted>>

Free == [inode_nr |-> 0, name |-> ""]

TypeOK ==
    /\ used \in SUBSET (Proc \cup Child)
    /\ filp \in [Proc \cup Child -> [Fd -> Desc \cup {0}]]
    /\ fd_inode \in [Desc -> Slot \cup {0}]
    /\ fd_cnt \in [Desc -> Nat]
    /\ i_num \in [Slot -> Num \cup {0}] /\ i_cnt \in [Slot -> Nat]
    /\ i_mode \in [Slot -> Mode] /\ i_start_sect \in [Slot -> Extent \cup {0}]
    /\ imap \in SUBSET Num /\ smap \in SUBSET Extent
    /\ inode_array \in [Num -> [i_mode : Mode, i_start_sect : Extent \cup {0}]]
    /\ root_dir \in [1 .. MaxEntries -> [inode_nr : Num \cup {0}, name : Name \cup {"", ".", TTY_NAME}]]
    /\ nr_dir_entries \in 0 .. MaxEntries
    /\ halted \in {"no", "panic", "exception", "assert(i_cnt)", "assert(nr_sects)", "assert(flg)"}

\* init_fs: mkfs has written an empty root directory, which stays cached.
Init ==
    /\ used = Proc
    /\ filp = [q \in Proc \cup Child |-> [fd \in Fd |-> 0]]
    /\ fd_inode = [d \in Desc |-> 0]
    /\ fd_cnt = [d \in Desc |-> 0]
    /\ i_num = [s \in Slot |-> IF s = 1 THEN ROOT_INODE ELSE 0]
    /\ i_cnt = [s \in Slot |-> IF s = 1 THEN 1 ELSE 0]
    /\ i_mode = [s \in Slot |-> IF s = 1 THEN DIRECTORY ELSE CLEARED]
    /\ i_start_sect = [s \in Slot |-> 0]
    /\ imap = {ROOT_INODE, TTY_INODE}
    /\ smap = {}
    /\ inode_array = [n \in Num |->
         [i_mode |-> CASE n = ROOT_INODE -> DIRECTORY [] n = TTY_INODE -> CHAR_SPECIAL [] OTHER -> CLEARED,
          i_start_sect |-> 0]]
    /\ root_dir = [e \in 1 .. MaxEntries |->
         CASE e = 1 -> [inode_nr |-> ROOT_INODE, name |-> "."]
           [] e = 2 -> [inode_nr |-> TTY_INODE, name |-> TTY_NAME]
           [] OTHER -> Free]
    /\ nr_dir_entries = 2
    /\ halted = "no"

-----------------------------------------------------------------------------
(***************************************************************************)
(* Helpers.                                                                *)
(***************************************************************************)

Least(S) == CHOOSE x \in S : \A y \in S : x <= y

Blocks(entries) == (entries + PerBlock - 1) \div PerBlock

\* search_file compares the names of the entries of the directory and, as it
\* counts after the comparison, of the one past its end if in the same sector.
Searched ==
    {e \in 1 .. MaxEntries : e <= nr_dir_entries + 1 /\ e <= Blocks(nr_dir_entries) * PerBlock}

search_file(name) ==
    IF name = "/" THEN ROOT_INODE ELSE
    LET E == {e \in Searched : root_dir[e].name = name}
    IN  IF E = {} THEN 0 ELSE root_dir[Least(E)].inode_nr

\* get_inode: s is the slot that caches inode n, or the first free one.
Cached(n) == {s \in Slot : i_cnt[s] > 0 /\ i_num[s] = n}
FreeSlots == {s \in Slot : i_cnt[s] = 0}
Room(n)   == Cached(n) # {} \/ FreeSlots # {}
SlotOf(n) == IF Cached(n) # {} THEN Least(Cached(n)) ELSE Least(FreeSlots)
Cnt(n)    == IF Cached(n) # {} THEN i_cnt[SlotOf(n)] + 1 ELSE 1
Inode(n)  == IF Cached(n) = {} THEN inode_array[n]
             ELSE [i_mode |-> i_mode[SlotOf(n)], i_start_sect |-> i_start_sect[SlotOf(n)]]

get_inode(n) ==
    LET s == SlotOf(n) IN
    /\ i_num' = [i_num EXCEPT ![s] = n]
    /\ i_cnt' = [i_cnt EXCEPT ![s] = Cnt(n)]
    /\ i_mode' = [i_mode EXCEPT ![s] = Inode(n).i_mode]
    /\ i_start_sect' = [i_start_sect EXCEPT ![s] = Inode(n).i_start_sect]

Stop(why) == halted' = why /\ UNCHANGED <<used, tables, cache>>

-----------------------------------------------------------------------------
(***************************************************************************)
(* do_open.                                                                *)
(***************************************************************************)

FreeFds(q) == {fd \in Fd : filp[q][fd] = 0}
FreeDescs  == {d \in Desc : fd_inode[d] = 0}

\* Both slots are looked for before the name is.
OpenFull(q) ==
    /\ FreeFds(q) = {} \/ FreeDescs = {}
    /\ Stop("panic")
    /\ UNCHANGED disk

\* Connect process, descriptor and inode.
Connect(q, s) ==
    LET fd == Least(FreeFds(q))
        d  == Least(FreeDescs)
    IN
    /\ FreeFds(q) # {} /\ FreeDescs # {}
    /\ filp' = [filp EXCEPT ![q][fd] = d]
    /\ fd_inode' = [fd_inode EXCEPT ![d] = s]
    /\ fd_cnt' = [fd_cnt EXCEPT ![d] = 1]
    /\ UNCHANGED <<used, halted>>

\* open(name, O_RDWR) of a file there is; of one there is not it changes nothing.
OpenFile(q, name) ==
    LET n == search_file(name) IN
    /\ n # 0 /\ Room(n) /\ Cnt(n) <= MaxCnt
    /\ Connect(q, SlotOf(n))
    /\ get_inode(n)
    /\ UNCHANGED disk

\* panic("the inode table is full")
OpenNoInode(q, name) ==
    /\ FreeFds(q) # {} /\ FreeDescs # {}
    /\ search_file(name) # 0 /\ ~ Room(search_file(name))
    /\ Stop("panic")
    /\ UNCHANGED disk

(***************************************************************************)
(* open(name, O_CREAT): create_file takes the first free bit of either map,*)
(* makes the inode and enters the name; of a file there is it changes      *)
(* nothing.                                                                *)
(***************************************************************************)

alloc_imap_bit == Least(Num \ imap)

\* Mutant: the bits are taken as all set up to the number of files.
AllocSmapCounted == Cardinality(smap) + 1

alloc_smap_bit == Least(Extent \ smap)

FreeEntries == {e \in 1 .. nr_dir_entries : root_dir[e].inode_nr = 0}

\* The entry new_dir_entry writes: a free one, or the one past the end.
NewEntry == IF FreeEntries # {} THEN Least(FreeEntries) ELSE nr_dir_entries + 1

\* Mutant: i_size grows when a free entry is used, too.
DirAlwaysGrows(n, name) ==
    /\ root_dir' = [root_dir EXCEPT ![NewEntry] = [inode_nr |-> n, name |-> name]]
    /\ nr_dir_entries' = nr_dir_entries + 1

\* strcpy of a name that fills its entry writes its 0 into the next one, if
\* that is in the same sector.
new_dir_entry(n, name) ==
    LET e == NewEntry
        spilt == IF name \in LongName /\ e % PerBlock # 0 THEN {e + 1} ELSE {}
    IN
    /\ root_dir' = [x \in 1 .. MaxEntries |->
          CASE x = e -> [inode_nr |-> n, name |-> name]
            [] x \in spilt -> [root_dir[x] EXCEPT !.inode_nr = 0]
            [] OTHER -> root_dir[x]]
    /\ nr_dir_entries' = IF e > nr_dir_entries THEN e ELSE nr_dir_entries

CreateFile(q, name) ==
    LET n == alloc_imap_bit
        x == alloc_smap_bit
        s == SlotOf(n)
    IN
    /\ search_file(name) = 0
    /\ Num # imap /\ Extent # smap /\ Room(n)
    /\ NewEntry <= MaxEntries
    /\ Connect(q, s)
    /\ imap' = imap \cup {n}
    /\ smap' = smap \cup {x}
    /\ i_num' = [i_num EXCEPT ![s] = n]
    /\ i_cnt' = [i_cnt EXCEPT ![s] = 1]
    /\ i_mode' = [i_mode EXCEPT ![s] = REGULAR]
    /\ i_start_sect' = [i_start_sect EXCEPT ![s] = x]
    /\ inode_array' = [inode_array EXCEPT ![n] = [i_mode |-> REGULAR, i_start_sect |-> x]]
    /\ new_dir_entry(n, name)

\* The sector map is full, or the inode table: the bits taken before stay set.
\* (A full inode map is out of the model: see the README.)
CreateFails(q, name) ==
    LET n == alloc_imap_bit IN
    /\ FreeFds(q) # {} /\ FreeDescs # {} /\ search_file(name) = 0
    /\ Num # imap
    /\ imap' = imap \cup {n}
    /\ \/ Extent = smap /\ Stop("assert(nr_sects)") /\ UNCHANGED smap
       \/ /\ Extent # smap /\ ~ Room(n)
          /\ smap' = smap \cup {alloc_smap_bit}
          /\ Stop("panic")
    /\ UNCHANGED <<inode_array, root_dir, nr_dir_entries>>

-----------------------------------------------------------------------------
\* Mutant: do_close puts the inode and leaves it in the descriptor.
CloseKeepsInode(q, fd) ==
    LET s == fd_inode[filp[q][fd]] IN
    /\ filp[q][fd] # 0 /\ s # 0
    /\ i_cnt' = [i_cnt EXCEPT ![s] = @ - 1]
    /\ filp' = [filp EXCEPT ![q][fd] = 0]
    /\ UNCHANGED <<used, fd_inode, fd_cnt, i_num, i_mode, i_start_sect, disk, halted>>

\* Mutant: do_close clears entry fd of f_desc_table.
CloseByFd(q, fd) ==
    LET s == fd_inode[filp[q][fd]] IN
    /\ filp[q][fd] # 0 /\ s # 0
    /\ i_cnt' = [i_cnt EXCEPT ![s] = @ - 1]
    /\ fd_inode' = [fd_inode EXCEPT ![fd] = 0]
    /\ filp' = [filp EXCEPT ![q][fd] = 0]
    /\ UNCHANGED <<used, fd_cnt, i_num, i_mode, i_start_sect, disk, halted>>

(***************************************************************************)
(* do_close: the inode loses a reference, the descriptor its inode.  A     *)
(* descriptor without inode makes put_inode use address 0: what it finds   *)
(* there passes its assertion or not.  (With an inode the assertion holds: *)
(* OpenFilesKept has i_cnt[s] > 0.)                                        *)
(***************************************************************************)
CloseFile(q, fd) ==
    LET d == filp[q][fd]
        s == fd_inode[d]
    IN
    /\ d # 0
    /\ IF s # 0
         THEN i_cnt' = [i_cnt EXCEPT ![s] = @ - 1] /\ UNCHANGED halted
         ELSE halted' \in {"no", "assert(i_cnt)"} /\ UNCHANGED i_cnt
    /\ fd_inode' = [fd_inode EXCEPT ![d] = 0]
    /\ filp' = [filp EXCEPT ![q][fd] = 0]
    /\ UNCHANGED <<used, fd_cnt, i_num, i_mode, i_start_sect, disk>>

\* do_close of a descriptor that is not open: the descriptor is looked for at
\* address 0, its inode at the address found there, outside the tables.
CloseNotOpen(q, fd) ==
    /\ filp[q][fd] = 0
    /\ halted' \in {"no", "assert(i_cnt)", "exception"}
    /\ UNCHANGED <<used, tables, cache, disk>>

-----------------------------------------------------------------------------
(***************************************************************************)
(* do_unlink.                                                              *)
(***************************************************************************)

\* The name is found, but the file is no regular one or its inode is in use:
\* the reference get_inode has taken is kept.
UnlinkRefused(name) ==
    LET n == search_file(name) IN
    /\ n # 0 /\ Room(n) /\ Cnt(n) <= MaxCnt
    /\ Inode(n).i_mode # REGULAR \/ Cnt(n) > 1
    /\ get_inode(n)
    /\ UNCHANGED <<used, tables, disk, halted>>

UnlinkNoInode(name) ==
    /\ search_file(name) # 0 /\ ~ Room(search_file(name))
    /\ Stop("panic")
    /\ UNCHANGED disk

\* Mutant: the count of entries is compared before it is raised.
ClearedToTheEnd(n) ==
    {e \in 1 .. nr_dir_entries - 1 : root_dir[e].inode_nr = n}

\* The entries the loop that clears the name looks at: it goes on to another
\* sector only while the entries counted are no more than the sectors.
Cleared(n) ==
    {e \in 1 .. nr_dir_entries :
        /\ \A b \in 1 .. (e - 1) \div PerBlock : b * PerBlock <= (nr_dir_entries + PerBlock) \div PerBlock
        /\ root_dir[e].inode_nr = n}

\* Mutant: the sector is not written when the directory shrinks.
ClearedInMemory(n) ==
    LET e == Least(Cleared(n)) IN
    /\ Cleared(n) # {}
    /\ IF e = nr_dir_entries
         THEN /\ nr_dir_entries' = Cardinality({x \in 1 .. e - 1 : root_dir[x].inode_nr # 0})
              /\ UNCHANGED root_dir
         ELSE root_dir' = [root_dir EXCEPT ![e] = Free] /\ UNCHANGED nr_dir_entries
    /\ UNCHANGED halted

\* The entry is cleared.  When it was the last one, the directory shrinks to
\* as many entries as are in use before it.
clear_dir_entry(n) ==
    LET e == Least(Cleared(n)) IN
    IF Cleared(n) = {}
      THEN halted' = "assert(flg)" /\ UNCHANGED <<root_dir, nr_dir_entries>>
      ELSE /\ root_dir' = [root_dir EXCEPT ![e] = Free]
           /\ nr_dir_entries' =
                IF e = nr_dir_entries
                  THEN Cardinality({x \in 1 .. e - 1 : root_dir[x].inode_nr # 0})
                  ELSE nr_dir_entries
           /\ UNCHANGED halted

UnlinkFile(name) ==
    LET n == search_file(name)
        s == SlotOf(n)
    IN
    /\ n # 0 /\ Room(n)
    /\ Inode(n).i_mode = REGULAR /\ Cnt(n) = 1
    /\ imap' = imap \ {n}
    /\ smap' = smap \ {Inode(n).i_start_sect}
    /\ inode_array' = [inode_array EXCEPT ![n] = [i_mode |-> CLEARED, i_start_sect |-> 0]]
    /\ i_num' = [i_num EXCEPT ![s] = n]
    /\ i_mode' = [i_mode EXCEPT ![s] = CLEARED]
    /\ i_start_sect' = [i_start_sect EXCEPT ![s] = 0]
    /\ clear_dir_entry(n)
    /\ UNCHANGED <<used, tables, i_cnt>>

-----------------------------------------------------------------------------
(***************************************************************************)
(* fork: MM copies the parent's PCB, filp included, and fs_fork counts the *)
(* references of the child, one for every fd: two of them stand for one    *)
(* descriptor when open has reused the one another process closed.         *)
(***************************************************************************)
FdsOf(q, d)   == {fd \in Fd : filp[q][fd] = d}
FdsInto(q, s) == {fd \in Fd : filp[q][fd] # 0 /\ fd_inode[filp[q][fd]] = s}

Fork(q, c) ==
    /\ c \in Child \ used
    /\ \A s \in Slot : i_cnt[s] + Cardinality(FdsInto(q, s)) <= MaxCnt
    /\ used' = used \cup {c}
    /\ filp' = [filp EXCEPT ![c] = filp[q]]
    /\ fd_cnt' = [d \in Desc |-> fd_cnt[d] + Cardinality(FdsOf(q, d))]
    /\ i_cnt' = [s \in Slot |-> i_cnt[s] + Cardinality(FdsInto(q, s))]
    /\ UNCHANGED <<fd_inode, i_num, i_mode, i_start_sect, disk, halted>>

Open(q) ==
    \/ OpenFull(q)
    \/ \E name \in Name \cup {TTY_NAME, "/"} : OpenFile(q, name) \/ OpenNoInode(q, name)
    \/ \E name \in Name : CreateFile(q, name) \/ CreateFails(q, name)

Unlink == \E name \in Name \cup {TTY_NAME} :
    UnlinkRefused(name) \/ UnlinkNoInode(name) \/ UnlinkFile(name)

Next ==
    /\ halted = "no"
    /\ \/ \E q \in used : Open(q) \/ \E fd \in Fd : CloseFile(q, fd) \/ CloseNotOpen(q, fd)
       \/ Unlink
       \/ \E q \in used, c \in Child : Fork(q, c)

Spec == Init /\ [][Next]_vars

-----------------------------------------------------------------------------
(***************************************************************************)
(* Properties.                                                             *)
(***************************************************************************)

\* A slot of the inode cache that an open file uses is not given away, and the
\* file is not removed: every descriptor's inode is counted, cached once,
\* marked as used and the same in the cache as on disk (main.c:370, link.c:62).
OpenFilesKept ==
    \A s \in Slot :
        /\ i_cnt[s] >= Cardinality({d \in Desc : fd_inode[d] = s})
        /\ i_cnt[s] > 0 =>
             /\ Cached(i_num[s]) = {s}
             /\ i_num[s] \in imap
             /\ inode_array[i_num[s]] = [i_mode |-> i_mode[s], i_start_sect |-> i_start_sect[s]]

\* Files do not share sectors, and no extent is lost or freed twice: the
\* extents in use are exactly those of the regular files, one each.
ExtentsExact ==
    halted = "no" =>
        LET R == {n \in Num : inode_array[n].i_mode = REGULAR} IN
        /\ R = imap \ {ROOT_INODE, TTY_INODE}
        /\ smap = {inode_array[n].i_start_sect : n \in R}
        /\ Cardinality(smap) = Cardinality(R)

\* A name leads to an inode in use that no other name leads to, those past the
\* end of the directory included, which search_file looks at (misc.c:53).
NamesResolve ==
    halted = "no" =>
        \A e \in 1 .. MaxEntries :
            root_dir[e].inode_nr # 0 =>
                /\ root_dir[e].inode_nr \in imap
                /\ \A f \in 1 .. MaxEntries : root_dir[f].inode_nr = root_dir[e].inode_nr => e = f

\* A file that unlink finds by its name it also finds by its inode number, and
\* so the assertion after the loop holds, for a directory of one sector whose
\* files have never been cut off.  Of others it fails for the file whose entry is
\* in the second sector, or the one past the end (link.c:161, misc.c:53).
UnlinkFindsEntry ==
    halted = "assert(flg)" =>
        \E e \in 1 .. MaxEntries :
            /\ root_dir[e].inode_nr \notin imap \cup {0}
            /\ e > PerBlock \/ e = nr_dir_entries + 1

\* What an open file descriptor stands for changes only by a call of a process
\* that has it: nobody else's close, open or unlink turns it into another file
\* (open.c:59, 157).
OthersHave(q, d) == \E r \in used \ {q} : \E fd \in Fd : filp[r][fd] = d

DescriptorsStable ==
    [][\A q \in used, fd \in Fd :
          LET d == filp[q][fd] IN
          (d # 0 /\ filp'[q] = filp[q] /\ fd_inode[d] # 0 /\ ~ OthersHave(q, d))
              => fd_inode'[d] = fd_inode[d]]_vars

\* fs.h:144 says of fd_cnt "How many procs share this desc", so a process that
\* shares one keeps its file when the other closes it.  Fails: do_close does
\* not look at fd_cnt (open.c:160).
SharedFilesStay ==
    [][\A q \in used, fd \in Fd :
          LET d == filp[q][fd] IN
          (d # 0 /\ filp'[q] = filp[q] /\ fd_inode[d] # 0) => fd_inode'[d] = fd_inode[d]]_vars

\* link.c:25 says of do_unlink "Remove a file.": no other file loses its name.
\* Fails: the directory may shrink below entries that are in use (link.c:166).
FilesStay ==
    [][\A name \in Name :
          (search_file(name) # 0 /\ search_file(name)' = 0) => search_file(name) \notin imap']_vars
=============================================================================
