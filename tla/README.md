# Verification of bzOS

bzOS is a small microkernel operating system for the i386: a kernel with a
round-robin scheduler and synchronous message passing, and five tasks (TTY,
SYS, HD, FS, MM) that serve the user processes and each other by messages.
This directory holds TLA+ models of its parts, the configurations TLC checks
them with, and theorems about them that the TLA+ proof system checks.
`PROJECT.json` lists the components, runs, findings, hazards and theorems, and
says for every definition which lines of `src/` it models.

## 1. Inventory

| component | state | operations | talks to |
|---|---|---|---|
| message passing (`kernel/proc.c`) | per PCB: `flags`, `p_msg`, `recv_from`, `send_to`, `has_int_msg`, the list `q_sending`/`next_sending` | `sys_sendrec` (`msg_send`, `msg_receive`), `deadlock`, `inform_int` | every process; interrupt handlers call `inform_int` |
| scheduler and clock (`kernel/proc.c`, `clock.c`, `kernel.asm`) | `ticks`, `priority`, `p_proc_ready`, `k_reenter` | `schedule`, `block`, `clock_handler`, kernel entry and `restart` | message passing blocks and wakes processes |
| TTY and keyboard (`kernel/tty.c`, `keyboard.c`) | ring of scan codes, `key_pressed`; per console a ring of characters and one pending reader | `keyboard_handler`, `keyboard_read`, `tty_dev_write`, `tty_do_read`, `tty_do_write` | woken by `clock_handler`; messages from and to FS |
| hard disk driver (`kernel/hd.c`) | `hd_info` (partitions, `open_cnt`), the controller's registers | `hd_open`, `hd_close`, `hd_rdwt`, `hd_ioctl`, `hd_handler`, `waitfor` | FS; SYS for the time; its interrupt |
| file system: names, inodes, descriptors (`fs/*.c`) | on disk: inode map, sector map, inodes, root directory; in memory: inode cache, file descriptors, `filp` of each process | `do_open` (and create), `do_close`, `do_unlink`, `fs_fork` | HD, TTY, MM, user processes |
| file system: reading and writing (`fs/read_write.c`) | the files' bytes and sizes, the position of each descriptor, the one buffer `fsbuf` | `do_rdwt` | HD or TTY, user processes |
| memory manager (`mm/*.c`) | a fixed piece of memory per process; the process table | `do_fork` | FS, the child |
| system task (`kernel/systask.c`) | none of its own | `GET_TICKS`, `GET_PID` | HD, user processes |
| console (`kernel/console.c`) | cursor and start address of each screen | `out_char`, `scroll_screen`, `select_console` | called by TTY and by `printx` |
| library (`lib/`) | none | stubs that `send_recv(BOTH)` to a task, formatting, strings | |
| boot, protected mode, interrupt controller | descriptor tables | run once | |

What is hard about it:

* **Interrupts inside the kernel.** A system call runs with interrupts enabled
  (`kernel.asm:327`), so `inform_int` may run between any two statements of
  `msg_send` and `msg_receive`, and between those of `schedule`.
* **Blocking conversations.** All communication is a rendezvous, so tasks wait
  for each other; the kernel refuses a SEND that closes a cycle by halting.
  FS waits for TTY and TTY for FS.
* **Shared file descriptors and cached inodes**, with counts that open, close,
  fork and unlink must keep in step with each other and with the disk.
* **Requests answered later**: a read of a terminal is suspended and resumed by
  a different message, with other requests in between.
* **Full tables**, after which most functions halt the system.

What makes each part correct:

* message passing: the fields of a PCB agree; the queue of a process holds
  exactly those that wait to send to it; nobody waits although its partner
  does; every cycle of SENDs is found; a message reaches the process it was
  sent to, in order; an interrupt is never lost;
* scheduler: only runnable processes run, the one with the most ticks first, a new
  round begins when nobody has any left, nobody starves;
* files: an open file is neither removed nor replaced in the cache; files share
  no sectors; names lead to inodes in use; a descriptor changes only by a call
  of a process that has it;
* reading and writing: a request moves exactly its bytes, however they fall into
  sectors and chunks, and changes no other byte of the disk;
* terminals: a suspended reader is always resumed, its buffer is kept to,
  every other call returns;
* disk: data is transferred when the controller has it, no interrupt is left
  over for the next command, every request is answered;
* fork: a child returns from `fork` only when it has its own memory, files and
  answer; every fork is answered.

## 2. Modules

| module | models | uses |
|---|---|---|
| `Rendezvous` | what message passing promises: offers, requests, messages; no flags, queues or pointers | |
| `Ipc` | `kernel/proc.c` at the grain of one whole call | refines `Rendezvous` |
| `IpcSteps` | the same code statement by statement, with the linked queue and interrupts in between | |
| `IpcStepsAtomic` | `IpcSteps` compared with `Ipc`, through variables that remember the state at the entry of a call | `IpcSteps`, `Ipc` |
| `IpcProofs` | theorems about `Ipc`: invariants; refinement of `Rendezvous` | `Ipc` |
| `IpcStepsProofs` | theorems about `IpcSteps`: invariants; calls nothing cuts into are steps of `Ipc` | `IpcStepsAtomic`, `IpcProofs` |
| `Sched`, `SchedProofs` | scheduler, clock, kernel entry and exit; its theorems | |
| `Files` | FS except reading and writing | |
| `FilesProofs` | theorems about `Files`; refinement of `Extents` by `Bitmaps` | `Files`, `Bitmaps` |
| `Extents` | what the inode map and the sector map are to FS: who owns which extent; no bits, bytes or sectors | |
| `DiskMaps` | the sizes of the two maps, who has which extent, and the mapping to `Extents` | refines `Extents` |
| `Bitmaps` | the two maps bit by bit, as create and unlink change them on disk | `DiskMaps` |
| `Store` | what reading and writing promise: a file is a row of bytes, an open file a position; no sectors, chunks or buffer | |
| `ReadWrite` | `do_rdwt` on regular files | refines `Store` |
| `ReadWriteProofs` | theorems about `ReadWrite`: the loop's invariant; refinement of `Store` | `ReadWrite` |
| `Tty` | keyboard ring and terminals | |
| `Terminal` | TTY, FS and users as programs over the message passing, with the keyboard's and the clock's interrupts | `Tty`, `Ipc` |
| `TerminalProofs` | theorems about `Terminal`: where FS, TTY and each user are in their conversation | `Terminal`, `IpcProofs` |
| `Hd` | HD, SYS, the partition tables and the ATA controller, as programs over the message passing with the disk's interrupt | `Ipc` |
| `HdProofs` | theorems about `Hd`: the conversations, driver and controller, the partition tables | `Hd`, `IpcProofs` |
| `Fork` | the stub of `fork`, MM, and FS's part in it, as programs over the message passing | `Ipc` |
| `ForkProofs` | theorems about `Fork`: where everybody is while a child is made | `Fork`, `IpcProofs` |
| `MC...` | the small instances | |

**Ipc.** Variables are the PCB's fields. `q_sending[p]` is a sequence, `buf[p]`
is the MESSAGE the process passes to its calls, `p_msg[p]` only tells whether
the pointer is null. `Send`, `Receive` and `InformInt` are whole handlers, each
a disjunction of the ways out of the C function. Calls of different processes
do not interleave, because the clock interrupt does not call `schedule` while a
system call runs (`clock.c:37`). `halted` says that the kernel stopped: by the
panic of `msg_send`, or by the assertion that a task does not go to sleep with
an interrupt pending (`proc.c:377`). A RECEIVE from INTERRUPT is made by tasks
with a handler only, as `interrupt_wait` in `hd.c` does.

**IpcSteps.** `call` holds who is in a system call and at which statement; the
queue is `q_sending`/`next_sending` as pointers. A statement that the compiler
might split is a step where an interrupt could tell the difference (`p_msg`,
`flags`, `recv_from`).

**Sched.** `mode` tells where the CPU is: user code, a system call, the loops of
`schedule`, or the return from the kernel. Both loops of `schedule`, the scan (`Scan`) and
the refill (`NewRound`, `Refill`), are one step per table entry, and interrupts may
strike (`struck`) between them. A process table in `Sched` is a sequence of
priorities, in the order of the table: tasks come first and have more ticks
(`TableOrder`). `NoStarvation` needs that order: `schedule` compares with a copy of
the chosen process's ticks, while a tick that strikes the scan is charged to the process
chosen so far (`clock.c:24`), which may never have run. If one of greater priority
could follow it in the table, the clock could use up its slice again and again.

**Files.** The directory is a function from entry numbers to names and inode
numbers, `nr_dir_entries` its size in entries; `PerBlock` is the number of
entries in a sector (32). An extent stands for the 2048 sectors a new file gets. The
inode cache is `i_num`, `i_cnt`, `i_mode`, `i_start_sect`; `inode_array` is the
disk's. FS handles one message at a time, so a step is one request.
A refused unlink keeps the reference it took (`link.c:56-65`), an open of a full
table halts the system: both are in the model. So is a close of a descriptor that is not
open (`CloseNotOpen`, `open.c:157-162`): `do_close` does not look, and goes through a null
pointer; what FS reads and writes there is outside its tables, so it goes on, fails an
assertion or is stopped by an exception. `Fork` counts a descriptor and its inode once
for each of the caller's file numbers that leads there, as `fs_fork` does; with one fork, as
in the run, no two lead to the same, so this is for the theorems only.

**Bitmaps and Extents.** `Files` takes inode numbers and extents out of sets. `Bitmaps`
is what FS does instead: the sector map is read into `fsbuf` sector by sector and
written back, `alloc_smap_bit` looks for the first 0 and takes bits from there on
(one step per sector), `do_unlink` clears a first byte, whole bytes and a last byte,
each of which may begin a new sector (one step each). `op` holds the local variables.
Extents follow each other after the reserved bit 0, so with 8 bits to an extent and
4 to a byte none starts at a byte boundary, as in the code with 2048 and 8.

**Store and ReadWrite.** The disk is a function from addresses to bytes, and the
extents of the files follow each other, so that a chunk that goes past the end of
one lies in the next. FS serves one request at a time: `rw` is the record of the
request and of the local variables of `do_rdwt` (`i`, `chunk`, `off`, `bytes_rw`
as `done`), and its loop is two steps a round, `ReadChunk` and `MoveChunk`. `got`
is the reader's buffer. The request enters `Store` through the mapping `Request`,
which forgets the loop's variables. `Store` promises nothing of the request that
goes beyond the bytes a file has (read) or may have (write), except that the
sizes of other files and the positions of other descriptors stay: `do_rdwt` does
not cut a read to the size, returns bytes that were never written and then makes
the file longer (`read_write.c:107`). Where such a write ends up is
`WritesInPlace`'s subject: in the order of the addresses from the file's start on,
and nowhere else.

**Fork.** `Fork` instantiates `Ipc` as `Kernel` for MM, FS, and user processes.
`do_fork` runs with interrupts enabled while its caller may not even have come to
the RECEIVE of `send_recv(BOTH)`, so parent and child may run between any two parts
of it. The copy of the PCB is three steps in the order of the fields: `regs` and
LDT, `flags`, the rest. Of a process' memory `stack[b]` says which of the two
system calls left its return address there, as long as it is in `send_recv`;
`base[p]` is the memory the LDT of p describes, which for a child is its parent's
until MM sets it. `fd_cnt` is the count of the one file in the model.

**Tty and Terminal.** `Terminal` instantiates `Ipc` as `Kernel`; each process
has a program counter, and a step is what lies between two system calls
together with the call that ends it. `send_recv(BOTH)` is two calls. A scan code
is abstracted to its effect; a key is the sequence of its codes, so that the
break code, or the second byte after a prefix, arrives by an interrupt of its
own. A call to FS that has nothing to do with TTY is the call FILE; FS is busy
with it for as long as it stays at "handle".

**Hd.** `Hd` instantiates `Ipc` as `Kernel` for HD, SYS, FS and users of SYS. The
labels of HD's program counter are the places where `task_hd` makes a system
call or looks at the controller: "ask", "time" and "poll" are the loop of
`waitfor`, "irq" is `interrupt_wait`, "woken" what follows it. `hd` is the record
of the local variables of `task_hd` and of the function it is in; `part` is where
the two nested loops of `partition` are. The controller (`ctl`, `irq`) is external:
it follows the PIO protocol, is as slow as it likes and makes no errors. The time
is counted from the answer `waitfor` keeps as `t`, and only `waitfor` looks at it.
FS is any client that opens the drive before it uses it and asks for whole sectors;
`init_fs` opens it once and never closes it, a second open and a close are what
the driver offers. `Disk` has the partition tables by sector; `Tables[d]` lists the
sectors of the chain that starts at the extended partition `d`, and `Partition` says where
each device is. `DiskAssumption` ties the three together: the chain is linked as
`partition` follows it, from the start of the whole extended partition, and ends where the
code stops.

## 3. Runs

| run | question | result and bounds |
|---|---|---|
| `Ipc` | is message passing consistent, fair, complete; does it keep the promise of `Rendezvous` | holds; 4 processes (cycles of three SENDs and three queued senders are possible, with one to spare), 1 with a handler, 2 message contents |
| `IpcSteps` | are the queues exact, no rendezvous missed and no interrupt lost with interrupts between statements; do the statements of a call no interrupt comes into amount to one step of `Ipc` | holds, but for the one moment at which an interrupt is lost (below); 4 processes, 1 with a handler, 1 message content |
| `IpcStepsAsserts` | do the assertions of `proc.c` always hold | **violated**, see below |
| `Sched` | who runs, who is chosen, rounds, starvation | holds; 2 tasks and 2 user processes with 3, 3, 2 and 2 ticks: an entry before and after each in the table, and a slice that outlives a tick charged in the kernel |
| `Files` | are open files kept, extents exact, names resolved, descriptors stable; does unlink find the entry open finds | holds, the last but for the two kinds of entries named below; a process and its forked child, 3 names, 2 descriptors, 3 cache slots, 3 extents, so that every table fills up; 4 entries to a sector and 5 in all, so that the directory has a second sector |
| `Bitmaps` | are the two maps, bit by bit, the sets `Files` takes them for; is a full map the only thing that stops FS there | holds; bytes of 4 bits, sectors of 3 bytes, extents of 8 sectors, 5 inodes for files, a sector map of one to six sectors: extents start in every byte of a sector and cross into the next, and either map fills up first |
| `FilesFork` | does a shared descriptor survive the other's close | **violated** |
| `FilesStay` | does an unlink leave other names alone | **violated**; 4 names |
| `Terminal` | are readers served, buffers kept, calls answered; how can the system stop | holds; 2 users on 2 consoles, one reads, the other reads, writes, opens and makes calls for files; 2 keys typed, of a character, backspace, a console switch, a prefixed Enter (two codes) and a code without effect; a ring of 2 codes so that it overflows |
| `Hd` | are the partition tables read right, do requests move exactly their sectors, is every interrupt waited for and every request answered; what can stop the driver | holds; one other client of SYS, a disk with a primary and two extended partitions (one with a full chain of three tables), at most two sectors counted by the register and a request for three, a timeout of 2 ticks, 2 opens |
| `Fork` | is who returns from `fork` complete, is every fork answered, does every child return, wherever parent and child run in between | holds, apart from the failures below; 3 free slots and any number of them with memory, the first process and its first child fork as often as they like (so the table fills), the latter also calls FS |
| `ReadWrite` | does `do_rdwt` do what `Store` promises; does it change any other byte | holds; 2 files of 3 sectors of 2 bytes and a buffer of 2 sectors, so that requests start and end inside sectors, take one or several chunks and pass the end of the extent; 3 open files of which 2 share an inode, one more without O_RDWR; 4 requests of 1, 3, 5 or 7 bytes |

Bounds that are not the program's are named: `MaxCnt` (references to an inode),
`MaxEntries` (directory entries), `MaxKeys` (keys typed), `Debt` (ticks charged in the
kernel, `Sched`), `MaxOpen` (opens of the drive), `MaxCalls` and `MaxPos` (requests, and the
farthest byte one reaches, in `ReadWrite`). The capacities (`NR_FILES`, `NR_INODE`, `KB_IN_BYTES`, ...) are
constants and small, so that a full table is an ordinary state. Every
property of a passing run has a mutant in `PROJECT.json`: a plausible bug in a
named definition that makes the run fail.

Deadlock checking is off except in `Sched`: the kernel stops for good after a panic, and all
processes may legitimately wait for a message.

### What the violated runs show

* `IpcStepsAsserts`: `msg_receive` looks at `has_int_msg`, then sets `flags`,
  `p_msg` and `recv_from`, all with interrupts on. An interrupt in between is
  left pending while the task goes to sleep, and the assertion at `proc.c:377`
  fails; one after `recv_from` is set wakes the task before `block` asserts
  that it sleeps.
* `FilesFork`: `do_close` ignores `fd_cnt`, so the first close of a shared
  descriptor closes it for both.
* `FilesStay`: removing the file of the last entry sets the size of the
  directory to the number of entries *in use* before it, which cuts off files
  if there is a free entry among them.

### What else goes wrong in the models

`Fork`'s properties name four ways in which the copy of a PCB in use fails; each
is reached in the run, which fails without the exception:

* `Doubled`: the parent blocks in RECEIVE between the copy of the registers and that
  of `flags`. The child has the registers of one about to call RECEIVE and the
  flags of one that waits in it; it is woken by MM's answer and then receives again.
* `Stale`: the parent goes on between the copy of the registers and that of the
  memory. The child then returns with the registers of one call to a stack of the
  other, and does the RECEIVE once more.
* `Overwritten`: the child, runnable as soon as `flags` is copied, blocks itself
  before the other fields are copied over those it set. It waits for nobody, so
  MM's message to it blocks MM for ever.
* `HalfCopied`: `p_msg` is copied from a parent that blocked after its flags were
  copied; the child fails the assertion at `proc.c:295`.

So the comment at `forkexit.c:118`, that the child "is now blocking", is what
usually, but not always, holds. Other failures: a child for whose slot there is
no memory stops the system (`alloc_mem`); the caller that finds the table full gets
-1 and then fails the assertion in `fork` (`lib/fork.c`).

Also in the models, without a run of its own:

* An interrupt between the test of the receiver at `proc.c:185` and the copy at 189
  satisfies the receiver with HARD_INT or overwrites the message; one between 191
  and 192 finds `p_msg` cleared and is lost. `InterruptsKept` says that no
  interrupt is lost in any other way.
* TTY reads one scan code per message and clears `key_pressed` for all, so a code
  may stay in the ring until the next key (`keyboard.c:95`, `tty.c:101`).
* A name of 12 characters overwrites the first byte of the next entry: `Files` with
  `LongName` not empty violates `FilesStay` at once.
* A refused unlink pins the inode for ever; `OpenFilesKept` bounds the counts from below
  and so does not see it.
* A close of a descriptor that is not open (`CloseNotOpen`) stops FS, or has it write
  outside its tables.
* A failed creation leaves what it had allocated on the disk; the system has stopped then,
  of which `ExtentsExact` says nothing.
* The unlink of a file whose entry lies just past a shrunken directory, which
  `search_file` still finds, or in the directory's second sector, which the loop
  at `link.c:140-163` does not reach, fails `assert(flg)`. `UnlinkFindsEntry` says
  that no other does.
* A full inode map gives inode 0 instead of the panic that stands after the `return`
  (`open.c:200-203`), and `new_inode` dereferences a null pointer: `failed = "null"`
  in `Bitmaps`.
* The sector map has more bits than the partition has sectors, and `mkfs` leaves the
  surplus 0 (`main.c:224-228`): on a disk that is nearly full FS would give out an
  extent beyond its end. The maps of `Bitmaps` end with their bits, so this is
  outside the model; `KeepsExtents` shows that it comes only after every extent
  inside is used.
* TTY's RESUME_PROC and FS's request to TTY may meet, and `deadlock` then halts the
  system; `HaltsOnlyCrossing` says that nothing else does.
* A read of 0 bytes from a terminal and the first of two readers of one terminal
  are never answered; `ReaderServed` speaks of readers with a terminal of their own.
* A lost second byte makes TTY spin (`LostByte`).

### Fairness

* `Sched`: weak fairness of the kernel's own steps (the CPU goes on), strong
  fairness of a tick in user mode. The second is *not* enforced by the code: a
  tick that strikes the kernel is charged to the running process but preempts
  nobody (`clock.c:37`). `NoStarvation` therefore says what the scheduler
  does for processes as long as ticks do not always strike inside the kernel.
* `Terminal`: weak fairness of each process's program (what `Sched` shows), of
  the tick and of the codes of a key already typed. Nobody has to make calls or
  to type. `CallsReturn` does not need fairness of typing and is not hindered by it,
  because only `MaxKeys` keys are typed: with keys without end, RECEIVE would
  always prefer the pending interrupt and a request could wait for ever.
* `Hd`: weak fairness of each task's and client's program, of the controller and
  of its interrupt. The clock need not tick: `RequestsAnswered` holds with and
  without a timeout, after which `waitfor` panics.
* `Fork`: weak fairness of MM, of FS, and of each user once it is in a call (again what
  `Sched` shows). Nobody has to call, and `UserReceive` is what the process does
  next, not a choice.
* The other modules check safety only and assume none.

## 4. Proofs

All theorems hold for every value of the constants that satisfies the named
assumptions (`IpcAssumption`: the special process numbers are distinct and are
no processes; `IpcStepsAssumption`: the same, and finitely many processes; `SchedAssumption`: at least one process, priorities positive, the
bound `Debt` a natural number; `TableOrder`, which only `NoStarvation` and so only the run needs; `ReadWriteAssumption`: sizes positive, a writer's
buffer as long as what it asks for, the extents and the sectors a request may reach
on the disk; `TerminalAssumption`, `TtyAssumption`, `HardIntAssumption`: the tasks, users and
special numbers are distinct, the interrupt's message is not one that processes send, each
user's file is one of the terminals, a key has at least one code, no read or write is longer
than `MaxLen`, rings hold at least one; `HdAssumption`, `DiskAssumption`, `RequestAssumption`: the tasks and
special numbers are distinct, the sizes positive, minor numbers of primary partitions below those of
logical ones (`MAX_PRIM`), the disk and the devices as said in section 2 with at least one
primary partition (asserted at `hd.c:265`), whole sectors of devices that exist; `FilesAssumption`: at least one of each table's entries, sectors of at least
two directory entries, reserved names are not names of files; `BitmapsAssumption` (in
`DiskMaps`): sizes positive, an extent is whole bytes and less than a sector of the sector map
stands for, the inode map has room for mkfs's inodes, the sector map has at least one sector; `ForkAssumption`,
`NameAssumption`: MM and FS are two and no users, slots are finitely many positive numbers
without the first process', the special numbers are no processes, HARD_INT is no message).

* `IpcProofs` proves an inductive invariant `IpcInv`: types; for every process,
  what its flags say about `p_msg`, `recv_from`, `send_to` and the kernel's
  state; the queues hold exactly the senders, once each; no receiver sleeps
  next to a sender or an interrupt that suits it; and no set of processes is
  closed under `send_to` while all its members send. The last part cannot be
  stated about one pair: it is an invariant because `Deadlock` follows the whole
  chain, which the model states without recursion as membership in every set
  closed under `send_to`. From it follow `TypeCorrect`, `PcbsAgree`,
  `QueuesHoldSenders`, `DeadlockFree`, `NothingMissed` and `InterruptsTaken`.
* `IpcProofs` also proves that every step of `Ipc` is a step of `Rendezvous`
  (`Refinement`), that a SEND that blocked returns only when its message
  has arrived (`SendersDelivered`), a RECEIVE that blocked only with a message it
  asked for (`ReceiversAsked`), and that nobody overtakes in a queue
  (`FirstComeFirstServed`, by what removing one element does to the order of the
  others). With these all safety properties of the run `Ipc` are theorems.
* `IpcStepsProofs` proves the same code at its finer grain, for any finite set of
  processes and any queue lengths. `StepsInv` says in which shapes a PCB can be caught
  (`Pcbs`: idle, sender, receiver, or what the one call under way is in the middle of),
  what that call has established at each of its statements and no interrupt can undo
  (`Calls`), and that from each `q_sending` the pointers spell one sequence without
  repetition that holds the senders (`Lists`, `Linked`). Neither property of the run is
  inductive without these: whether a step of `msg_receive` misses a sender depends on what
  an earlier statement saw, and whether a list survives an unlinking on its being
  apart from all others. `ChainIsList` shows that the walk of the code along such
  pointers returns that sequence; `ListJoined` and `ListLeft` that the two pieces of pointer
  surgery append to it and take one member out of it, wherever it stands. From these follow
  `ListsHoldSenders`, `NothingMissed` and, with `NoneStale` and `NoneIgnored`,
  `InterruptsStay`.
  `SinceEntry` says what the statements executed so far have changed since the call
  began, unless an interrupt came; with it every statement that returns is the
  action of `Ipc` that stands for the whole call (`CallsAreSteps`).
* `SchedProofs` proves `SchedInv` (types, what each mode says about the loops of `schedule` and
  about who may run; `ScanSeen`: what the scan has passed has no more ticks than the
  copy it compares with, and the process chosen has that many, but for a tick that struck;
  `RefillSeen`: runnable processes the refill has not come to have no ticks left) and from it `SchedTypes`, `NeverRunsBlocked`,
  `GreatestIsChosen` and `FairRounds`. The types are proved and not checked again in
  the run.
* `FilesProofs` proves `FilesInv` for any processes, names, capacities and sector size, long
  names included: types; mkfs's inodes stay (`Mounted`); every slot is counted by at least
  as many references as descriptors use it (`Counted`); a cached inode is cached
  once, in use and as on disk (`CacheExact`), which is why `get_inode` gives the disk's
  inode whichever slot it takes (`SlotFound`); each extent has one owner
  (`ExtentsOwned`, stronger than the count of `ExtentsExact`); names resolve. All the
  properties of the run `Files` follow: `FilesTypes`, `OpenFilesAreKept`,
  `ExtentsAreExact`, `NamesLeadToInodes`, `UnlinkFinds`, `DescriptorsAreStable`.
* `ReadWriteProofs` proves the invariant of `do_rdwt`'s loop for every size of sector,
  extent, buffer and request. Its heart is `InPlace`: the address of the next chunk
  plus the offset in it is the start of the extent plus the position plus what is
  done. `ChunkOK` bounds the chunk by `fsbuf` and the disk, `LoadedOK` says that a
  chunk that was read is in `fsbuf` as it is on the disk, without which writing it
  back whole would change other bytes. From it follow `ReadWriteTypes` and
  `BytesInPlace`.
* `ReadWriteProofs` also proves that `ReadWrite` implements `Store` (`StoreRefinement`): a
  chunk moved is a transfer of as many bytes (`ChunkTransferred`), extents do not
  overlap (`ExtentsApart`), and when the loop ends everything has been moved
  (`AllMoved`), which also holds for a request that fills the file, whose last sector
  is computed one too far.
* `FilesProofs` also proves that `Bitmaps` implements `Extents` (`ExtentsRefined`), for any
  sizes of byte, sector, extent and maps. Its invariant `IInv` says, at each place of the
  loops (`IdleAt`, `ScanAt`, `FreeAt`), what has been done to the maps and to `fsbuf`:
  between requests the bits that are 1 are exactly those of the files' extents
  (`InExtents`); while `alloc_smap_bit` goes on, all of them up to the sector, or all and the
  first bits of the new extent (`Taking`); while `do_unlink` goes on, all but the bits
  cleared up to `Position`, on disk only those of earlier sectors. The heart is that a first 0 is always
  the first bit of an extent that is wholly free, so that the bits after it, which the code takes
  without looking, are nobody's; it follows because extents begin at multiples of their
  size. That `bytes` and `left` in `do_unlink` come out at the extent's last bit is
  division of a place into sector, byte and bit (`PlaceOf`). `NewInode` is the step that
  creates, or finds a map full, `FreeInode` the one that removes; all others are none of
  `Extents`.
* `ForkProofs` proves `ForkComplete` for any number of users and slots, whoever forks and
  whatever runs in between. `IpcProofs`' invariant cannot be used, because it fails: MM
  copies a PCB in use, so a child may sleep with nobody's name in `recv_from`, with a
  copy of its parent's queue. `ForkInv` keeps to what survives: the queues of MM and FS
  hold exactly the processes that send to them (`Queues`, with the lemmas of `IpcProofs`
  about queues), of a user only its flags and registers have to agree (`UserAt`). `Sending`
  and `Receiving` say what a call does to processes in such states. On top of these are
  the places of a fork (`MmAt`: in which the child is `Copied`, with registers only, or an `Embryo`,
  awake or asleep; `FsAt`), the one child whose file FS has not counted yet (`Uncounted`, in
  `Count`), and the one that may run in its parent's memory (`Elsewhere`, in `Bases`). That an `Embryo`
  cannot return from `fork` before MM's answer although it may be runnable in the middle of the
  copy is what the model was written to find out; that MM answers the process that asked, and
  not one that happens to wait for it, needs `Asked` at every place. A kernel that
  stopped may have done so in the middle of a call, and keeps `ForkComplete` only.

* `TerminalProofs` proves the safety properties of the run `Terminal` for any number of
  users and terminals, any programs, any keys, and rings of any size. What the kernel does to
  TTY, FS and the users is taken from `IpcProofs` (as `K`): its invariant holds underneath,
  and the lemmas `SendOutcome`, `ReceiveOutcome` and `InformOutcome` there say what a
  call does to each process, so that no proof here looks into PCBs. `IInv` adds where
  everybody is: each user (`Users`), FS and TTY (`FsAt`, `TtyAt`: five joint places of
  request and reply, and the resumption TTY may send across them), that an open request is in
  one place only (`Once`, in `Places`), and that a terminal's reader has its read open
  with the count it asked for (`Readers`). The assertion in `do_rdwt` is no invariant
  of FS alone: it fails as soon as a RESUME_PROC can be taken for the reply, which `Places`
  and the shape of `FsTalks` exclude. That a stopped kernel means a crossing
  (`OnlyCrossingHalts`) needs that TTY never resumes the very process FS is asking for, which
  is `Once`. `ReadersServed` has the hypothesis `OwnTerminals`, no two users on
  one terminal: without it the first of two readers is forgotten (see above); the other five
  theorems do not need it, and hold for shared terminals too.
* `HdProofs` proves the safety properties of the run `Hd` for any disk, any users of SYS, any
  requests for whole sectors, any sizes of sector, tables and `cmd.count`, and any timeout.
  The kernel again comes from `IpcProofs`. `IInv` says, as long as nothing has
  stopped (`Running`):
  where FS, HD, SYS and the users are in their conversations (`Conversation`, with the time
  SYS tells never ahead of the clock, `Told`); where the controller is when the driver is
  where it is (`DriveAt`), with one interrupt for each sector to come, which is on the line,
  left with the kernel, or taken, never two of these (`One`), and none outside a command
  (`Quiet`); what has been moved of a read or write (`JobAt`, `Moving`: the counts of the driver,
  the controller and the request agree, with a sector of a write moved before its interrupt
  and counted after it); what `hd_info` holds when `partition` has come to a certain table
  (`PartAt`, `AtTable`: all earlier primary partitions and all logical ones up to this one); and
  that the opens FS and the driver count differ only while one is under way (`Balance`).
  None of these can do without the others: that no interrupt is left for the main loop
  (`HdStopsOnlyLate`) needs `DriveAt` at the end of each command, and with it the number of
  sectors moved. That is also why the theorem holds for requests that `cmd.count` cannot
  count, which never end. `HdPartitionsRead` follows from `PartAt` by arithmetic on minor
  numbers (`Below`, `Apart`: the places in `hdi->logical` of different logical partitions are
  different), `HdRepliesDone` from `Moving`. The only state without `Running` is that after
  the panic.

With these every safety property the passing runs check is a theorem too. Only model-checked
are the liveness properties (`NoStarvation`, `CallsReturn`, `RequestsAnswered`, `ForkAnswered`,
`ChildReturns`): fairness, and what is enabled, are out of the prover's reach. The violated
runs show what their small instances show.

## 5. Abstractions and what is left out

* `Ipc`: addresses (`va2la`) and the copying of messages are assignments. A
  process does not send to itself (`assert` in `msg_send`). `printl` and wording
  are left out everywhere; a failed assertion of a task, and a panic, halt.
* `Files`: the disk starts zeroed, as `mkfs` leaves what it writes; one terminal
  stands for the three device files; inode numbers fit in a byte; the inode map
  does not fill up (in `Bitmaps` it does); bits and bytes of the maps are in `Bitmaps`,
  which shows that they are the sets used here; fork through a descriptor that was
  closed by another process increments a count at a null pointer, which the model
  ignores.
* `Terminal`: interrupts come between the calls, not inside them. So `NoAssertFails` says
  nothing of the interrupt inside a call that makes `proc.c:377` fail; `IpcStepsAsserts`
  shows that one. DEV_OPEN is answered by a message that has been reset (`TtyDoOpen`,
  `tty.c:85-88`), and `do_open` asserts nothing of it (`NO_LEN`), other than
  `do_rdwt`, whose count `TtyDoRead` and `TtyDoWrite` must give back. PrintScreen and
  Pause are left out, as are modifier keys, leds and the screen.
* `ReadWrite`: files are created and removed in `Files`; here they have their extents.
  Two callers' buffers differ in `Data`. What `sync_inode` leaves in `fsbuf` when a
  file grows is zero bytes. Reading and writing a device is in `Terminal`.
* `Fork`: the source a child that still runs in its parent's memory stamps on the
  parent's MESSAGE is left out. The fields of a PCB are copied in one of three
  parts; a finer grain would only tell apart which field of the last part is old.
  The processes that fork descend from INIT, whose segments end where the kernel
  ends. The flat segments of the other native processes would give a size of
  2^20 pages, 0 in 32 bits, and a child whose memory is not copied (`forkexit.c:66-68`).
* `Hd`: a sector is its number, a partition table its entries; the other fields of
  a command, the strings of IDENTIFY and what is printed are left out. The
  controller makes no errors, which the driver would not notice. `cmd.count` keeps
  its width: a request for more sectors than it can count (256; `do_rdwt` asks for up
  to 2048) is in the run and is never answered, so `RequestsAnswered` leaves it out.

## 6. Plan

Order, by what matters most to the system:

1. *(done)* `Ipc`, `Rendezvous`, `IpcSteps`, with proofs: everything rests on them.
2. *(done)* `Sched` with proofs.
3. *(done)* `Files`: tables, directory, cache.
4. *(done)* `Tty`, `Terminal`: the first conversation over `Ipc`.
5. *(done)* `Hd`: the driver, SYS, the controller and the partition tables over `Ipc`.
6. *(done)* `Fork`: MM, FS, parent and child over `Ipc`, with preemption.
7. *(done)* `ReadWrite`, `Store`, with proofs.
8. *(done)* A directory of two sectors in `Files`; a property of `IpcSteps` for the
   interrupt that is lost at `proc.c:191`.
9. *(done)* `Bitmaps`, `Extents`: the two bitmaps at the level of bits and bytes
   against sets, which is what `Files` uses them as.

10. *(done)* `FilesProofs`: the safety properties of `Files`.

11. *(done)* `IpcStepsProofs`: the lists of `proc.c` statement by statement, and that
    a call nothing cuts into is a step of `Ipc`.
12. *(done)* `TerminalProofs`: the safety properties of `Terminal` over `IpcProofs`.
13. *(done)* `HdProofs`: the same for `Hd`.
14. *(done)* `ForkProofs`: `ForkComplete`, with an invariant of its own.
15. *(done)* The refinement of `Extents` by `Bitmaps`, in `FilesProofs`.

What could follow: the console, and the sharing of one terminal by two readers, which the
code forgets and `ReadersServed` excludes by hypothesis.

### Not modelled

* The boot loader, protected mode set-up and the interrupt controller run once, before
  there are processes, and keep no state that changes later. What they enable (system
  calls with interrupts on, which interrupts nest) is in `IpcSteps` and `Sched`.
* The console: cursor and scrolling are arithmetic on addresses of the video memory.
  Nothing else in the system depends on them.
* String and number formatting, port access.
