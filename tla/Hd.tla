--------------------------------- MODULE Hd ---------------------------------
(***************************************************************************)
(* The hard disk driver, task_hd in kernel/hd.c, with the system task      *)
(* (kernel/systask.c) it asks for the time, a client (FS: rw_sector and    *)
(* the requests of init_fs) and the ATA controller, which is external.     *)
(*                                                                         *)
(* A step of a task is what it does up to and with its next system call;   *)
(* the calls are those of Ipc.  On the disk only the partition tables      *)
(* matter; what is read and written elsewhere is its sector's number.      *)
(* POSITION and CNT are in bytes, start_sect and base in sectors.          *)
(***************************************************************************)
EXTENDS Integers, Sequences

CONSTANTS
    HD, SYS, FS, User,     \* the tasks, and processes that ask SYS for things
    Disk,                  \* Disk[s]: the partition table in sector s
    Tables,                \* Tables[d]: where the tables of extended partition d are
    Partition,             \* Partition[dev]: where device dev really is
    Request,               \* what FS asks of HD
    SECTOR_SIZE, NR_PART_PER_DRIVE, NR_SUB_PER_PART,    \* include/sys/const.h
    REG_NSECTOR,           \* how many values cmd.count has: 256
    HD_TIMEOUT,            \* in ticks
    MaxOpen,               \* bound of the model: how often FS opens the drive
    ANY, INTERRUPT, NO_TASK, HARD_INT

VARIABLES flags, p_msg, recv_from, send_to, has_int_msg, q_sending, buf, halted

VARIABLES
    pc,                    \* where each process is in its program
    opened, asked,         \* FS: opens without a close, the request it is in
    elapsed,               \* ticks since SYS told HD the time it keeps as t
    ctl, irq,              \* the controller, and its interrupt line
    hd,                    \* local variables of task_hd and the functions it is in
    part,                  \* partition: part_tbl of the primary call, and where it is
    hd_info                \* hd_info[0]

Proc == {HD, SYS, FS} \cup User

NR_SUB_PER_DRIVE == NR_PART_PER_DRIVE * NR_SUB_PER_PART
MAX_PRIM == 2 * (NR_PART_PER_DRIVE + 1) - 1
MINOR_hd1a == 16

\* Where entry e tells a partition to be, counted from sector base; and the k-th
\* table of an extended partition is its last one.
Placed(base, e) == [base |-> base + e.start_sect, size |-> e.nr_sects]
LastTable(tbl, k) == tbl[2].sys_id = "NO_PART" \/ k = NR_SUB_PER_PART

ASSUME HdAssumption ==
    /\ HD # SYS /\ HD # FS /\ SYS # FS /\ HD \notin User /\ SYS \notin User /\ FS \notin User
    /\ ANY \notin Proc /\ INTERRUPT \notin Proc /\ NO_TASK \notin Proc
    /\ ANY # INTERRUPT /\ ANY # NO_TASK /\ INTERRUPT # NO_TASK
    /\ SECTOR_SIZE \in Nat \ {0} /\ REG_NSECTOR \in Nat \ {0}
    /\ NR_PART_PER_DRIVE \in Nat /\ NR_PART_PER_DRIVE > 1 /\ NR_SUB_PER_PART \in Nat \ {0}
    /\ MAX_PRIM <= MINOR_hd1a
    /\ HD_TIMEOUT \in Nat /\ MaxOpen \in Nat

\* The disk: the assertion of partition, every chain of tables as it is linked,
\* and the devices, primary partitions and logical ones, as the tables tell.
ASSUME DiskAssumption ==
    /\ 0 \in DOMAIN Disk
    /\ \A s \in DOMAIN Disk :
          /\ DOMAIN Disk[s] = 1 .. NR_PART_PER_DRIVE
          /\ \A i \in DOMAIN Disk[s] : Disk[s][i].start_sect \in Nat /\ Disk[s][i].nr_sects \in Nat
    /\ \E i \in 1 .. NR_PART_PER_DRIVE : Disk[0][i].sys_id # "NO_PART"
    /\ \A d \in 1 .. NR_PART_PER_DRIVE :
          Disk[0][d].sys_id = "EXT_PART" =>
              /\ Tables[d] \in Seq(DOMAIN Disk) /\ Tables[d] # <<>>
              /\ Tables[d][1] = Disk[0][d].start_sect
              /\ \A k \in DOMAIN Tables[d] :
                    /\ LastTable(Disk[Tables[d][k]], k) <=> k = Len(Tables[d])
                    /\ k < Len(Tables[d]) =>
                          Tables[d][k + 1] = Tables[d][1] + Disk[Tables[d][k]][2].start_sect
    /\ \A dev \in DOMAIN Partition :
          \/ /\ dev \in 1 .. NR_PART_PER_DRIVE /\ Disk[0][dev].sys_id # "NO_PART"
             /\ Partition[dev] = Placed(0, Disk[0][dev])
          \/ \E d \in 1 .. NR_PART_PER_DRIVE :
                /\ Disk[0][d].sys_id = "EXT_PART"
                /\ \E k \in DOMAIN Tables[d] :
                      /\ dev = MINOR_hd1a + (d - 1) * NR_SUB_PER_PART + k - 1
                      /\ Partition[dev] = Placed(Tables[d][k], Disk[Tables[d][k]][1])

Msg(type, dev, pos, cnt) == [type |-> type, dev |-> dev, pos |-> pos, cnt |-> cnt]
Plain(type) == Msg(type, 0, 0, 0)
Type == Request \cup {Plain("GET_TICKS"), Plain("GET_PID"), Plain("SYSCALL_RET")}
        \cup {Msg("GET_TICKS", 0, 0, n) : n \in 0 .. HD_TIMEOUT}

\* FS asks for what is there: whole sectors (the assertion in hd_rdwt; rw_sector
\* moves nothing else) of a device the disk has.
ASSUME RequestAssumption ==
    \A r \in Request :
        /\ r.type \in {"DEV_OPEN", "DEV_CLOSE", "DEV_IOCTL", "DEV_READ", "DEV_WRITE"}
        /\ r = Msg(r.type, r.dev, r.pos, r.cnt)
        /\ r.type \in {"DEV_IOCTL", "DEV_READ", "DEV_WRITE"} => r.dev \in DOMAIN Partition
        /\ r.pos \in Nat /\ r.cnt \in Nat
        /\ r.pos % SECTOR_SIZE = 0 /\ r.cnt % SECTOR_SIZE = 0
        /\ r.type \in {"DEV_READ", "DEV_WRITE"} => r.cnt > 0

ASSUME HardIntAssumption == HARD_INT \notin Type

Kernel == INSTANCE Ipc WITH IntTask <- {HD}

ipcVars == <<flags, p_msg, recv_from, send_to, has_int_msg, q_sending, buf, halted>>
client == <<opened, asked>>
device == <<ctl, irq>>
vars == <<ipcVars, pc, client, elapsed, device, hd, part, hd_info>>

NoPart == [base |-> 0, size |-> 0]
Cmd(command, lba, count) == [command |-> command, lba |-> lba, count |-> count]
NoData == -1
Idle == [status |-> "ready", command |-> "none", next |-> 0, left |-> 0]

\* task_hd is in no request.  t_read: waitfor has its t; issued: hd_cmd_out has
\* put cmd out; moved: the sectors hd_rdwt has moved; geo: what hd_ioctl copies.
Local == [req |-> Plain("SYSCALL_RET"), src |-> NO_TASK, t_read |-> FALSE, cmd |-> Cmd("none", 0, 0),
          issued |-> FALSE, bytes_left |-> 0, moved |-> <<>>, geo |-> NoPart]

\* init_hd: one drive, nothing known of it.
Init ==
    /\ Kernel!Init
    /\ buf = [p \in Proc |-> [source |-> p, type |-> Plain("SYSCALL_RET")]]
    /\ pc = [p \in Proc |-> IF p \in {HD, SYS} THEN "receive" ELSE "run"]
    /\ opened = 0 /\ asked = Plain("none") /\ elapsed = 0
    /\ ctl = Idle /\ irq = FALSE
    /\ hd = Local
    /\ part = [tbl |-> <<>>, dev |-> 0, sub |-> 0, s |-> 0]
    /\ hd_info = [open_cnt |-> 0,
                  primary |-> [d \in 0 .. NR_PART_PER_DRIVE |-> NoPart],
                  logical |-> [d \in 0 .. NR_SUB_PER_DRIVE - 1 |-> NoPart]]

Goto(p, label) == pc' = [pc EXCEPT ![p] = label]

\* p is at label and its last call has returned.
At(p, label) == pc[p] = label /\ Kernel!Runnable(p)

-----------------------------------------------------------------------------
(***************************************************************************)
(* The clients: FS of HD, the users of SYS (get_ticks, getpid).            *)
(***************************************************************************)

ServerOf(p) == IF p = FS THEN HD ELSE SYS

Call(p, m) ==
    /\ At(p, "run") /\ Goto(p, "receive")
    /\ Kernel!Send(p, ServerOf(p), m)
    /\ UNCHANGED <<elapsed, device, hd, part, hd_info>>

UserCall(p) ==
    /\ Call(p, Plain("GET_TICKS")) \/ Call(p, Plain("GET_PID"))
    /\ UNCHANGED client

\* FS opens the drive before it uses it.
FsCall(r) ==
    /\ r.type = "DEV_OPEN" \/ opened > 0
    /\ opened' = opened + (CASE r.type = "DEV_OPEN" -> 1 [] r.type = "DEV_CLOSE" -> -1 [] OTHER -> 0)
    /\ opened' <= MaxOpen
    /\ asked' = r
    /\ Call(FS, r)

ClientReceive(p) ==
    /\ At(p, "receive") /\ Goto(p, "return")
    /\ Kernel!Receive(p, ServerOf(p))
    /\ UNCHANGED <<client, elapsed, device, hd, part, hd_info>>

\* The MESSAGE of the call is a local variable: its contents are gone.
ClientReturn(p) ==
    /\ At(p, "return") /\ Goto(p, "run")
    /\ buf' = [buf EXCEPT ![p] = [source |-> p, type |-> Plain("SYSCALL_RET")]]
    /\ asked' = IF p = FS THEN Plain("none") ELSE asked
    /\ UNCHANGED <<flags, p_msg, recv_from, send_to, has_int_msg, q_sending, halted>>
    /\ UNCHANGED <<opened, elapsed, device, hd, part, hd_info>>

-----------------------------------------------------------------------------
(***************************************************************************)
(* The system task, and the ticks.                                         *)
(***************************************************************************)

SysReceive ==
    /\ At(SYS, "receive") /\ Goto(SYS, "answer")
    /\ Kernel!Receive(SYS, ANY)
    /\ UNCHANGED <<client, elapsed, device, hd, part, hd_info>>

\* The answer to HD's first question of a waitfor is t, and time counts from
\* there; in the answer to a user it does not matter.
SysAnswer ==
    /\ At(SYS, "answer") /\ Goto(SYS, "receive")
    /\ LET p == buf[SYS].source
           now == IF p = HD /\ hd.t_read THEN elapsed ELSE 0 IN
          IF buf[SYS].type.type = "GET_TICKS"
          THEN /\ Kernel!Send(SYS, p, Msg("GET_TICKS", 0, 0, now))
               /\ elapsed' = IF p = HD THEN now ELSE elapsed
          ELSE /\ Kernel!Send(SYS, p, Plain("SYSCALL_RET"))
               /\ UNCHANGED elapsed
    /\ UNCHANGED <<client, device, hd, part, hd_info>>

\* The clock, while waitfor looks at it.
Tick ==
    /\ pc[HD] \in {"ask", "time", "poll"} /\ elapsed < HD_TIMEOUT
    /\ elapsed' = elapsed + 1
    /\ UNCHANGED <<ipcVars, pc, client, device, hd, part, hd_info>>

-----------------------------------------------------------------------------
(***************************************************************************)
(* The ATA controller (external): PIO commands, an interrupt for each      *)
(* sector that can be read or has been written.  cmd.count = 0 means 256.  *)
(***************************************************************************)

Accept(c) ==
    ctl' = [status |-> "busy", command |-> c.command, next |-> c.lba,
            left |-> IF c.count = 0 THEN REG_NSECTOR ELSE c.count]

\* The first sector of a write is asked for without an interrupt.
ControllerReady ==
    /\ ctl.status = "busy"
    /\ \/ /\ ctl.command = "WRITE"
          /\ ctl' = [ctl EXCEPT !.command = "WRITING", !.status = "drq"]
          /\ UNCHANGED irq
       \/ /\ ctl.command = "WRITING"
          /\ ctl' = IF ctl.left = 0 THEN Idle ELSE [ctl EXCEPT !.status = "drq"]
          /\ irq' = TRUE
       \/ /\ ctl.command \in {"READ", "IDENTIFY"}
          /\ ctl' = [ctl EXCEPT !.status = "drq"]
          /\ irq' = TRUE
    /\ UNCHANGED <<ipcVars, pc, client, elapsed, hd, part, hd_info>>

\* The sector that REG_DATA gives or takes now.
AtPort == IF ctl.status = "drq" THEN ctl.next ELSE NoData

Took(c) == [c EXCEPT !.next = @ + 1, !.left = @ - 1]

port_read ==
    ctl' = IF ctl.status # "drq" THEN ctl
           ELSE IF ctl.left = 1 \/ ctl.command = "IDENTIFY" THEN Idle
           ELSE [Took(ctl) EXCEPT !.status = "busy"]

port_write == ctl' = [Took(ctl) EXCEPT !.status = "busy"]

hd_handler ==
    /\ irq
    /\ irq' = FALSE
    /\ Kernel!InformInt(HD)
    /\ UNCHANGED <<ctl, pc, client, elapsed, hd, part, hd_info>>

-----------------------------------------------------------------------------
(***************************************************************************)
(* The driver: task_hd.  Every command is put out by hd_cmd_out, which     *)
(* waits for the controller in waitfor, which asks SYS for the time.  On   *)
(* an unknown message, which is what a stray interrupt looks like to the   *)
(* main loop, the driver spins: it has no step.                            *)
(***************************************************************************)

\* The steps that leave everything but the driver and the messages alone.
HdOnly == UNCHANGED <<client, elapsed, device, part, hd_info>>

HdReceive ==
    /\ At(HD, "receive") /\ Goto(HD, "handle")
    /\ Kernel!Receive(HD, ANY)
    /\ UNCHANGED hd /\ HdOnly

\* The local variables while request m is served.
Serving(m) == [Local EXCEPT !.req = m, !.src = buf[HD].source]

Handling(types) == At(HD, "handle") /\ buf[HD].source # INTERRUPT /\ buf[HD].type.type \in types

\* dev stands for a primary partition below MAX_PRIM, else for a logical one.
PartInfo(dev) ==
    IF dev < MAX_PRIM THEN hd_info.primary[dev]
    ELSE hd_info.logical[(dev - MINOR_hd1a) % NR_SUB_PER_DRIVE]

\* hd_open, as far as the first waitfor.
HdOpen ==
    /\ Handling({"DEV_OPEN"}) /\ Goto(HD, "ask")
    /\ hd' = [Serving(buf[HD].type) EXCEPT !.cmd = Cmd("IDENTIFY", 0, 0)]
    /\ UNCHANGED ipcVars /\ HdOnly

Closed == [hd_info EXCEPT !.open_cnt = @ - 1]

HdClose ==
    /\ Handling({"DEV_CLOSE"}) /\ Goto(HD, "reply")
    /\ hd' = Serving(buf[HD].type)
    /\ hd_info' = Closed
    /\ UNCHANGED <<ipcVars, client, elapsed, device, part>>

HdIoctl ==
    /\ Handling({"DEV_IOCTL"}) /\ Goto(HD, "reply")
    /\ hd' = [Serving(buf[HD].type) EXCEPT !.geo = PartInfo(buf[HD].type.dev)]
    /\ UNCHANGED ipcVars /\ HdOnly

\* hd_rdwt, as far as the first waitfor; count is an u8.
HdRdwt ==
    /\ Handling({"DEV_READ", "DEV_WRITE"}) /\ Goto(HD, "ask")
    /\ LET m == buf[HD].type
           sectors == (m.cnt + SECTOR_SIZE - 1) \div SECTOR_SIZE IN
          hd' = [Serving(m) EXCEPT
                    !.cmd = Cmd(IF m.type = "DEV_READ" THEN "READ" ELSE "WRITE",
                                m.pos \div SECTOR_SIZE + PartInfo(m.dev).base,
                                sectors % REG_NSECTOR),
                    !.bytes_left = m.cnt]
    /\ UNCHANGED ipcVars /\ HdOnly

HdReply ==
    /\ At(HD, "reply") /\ Goto(HD, "receive")
    /\ Kernel!Send(HD, hd.src, hd.req)
    /\ hd' = Local
    /\ HdOnly

-----------------------------------------------------------------------------
(***************************************************************************)
(* waitfor (the steps ask, time and poll) and what follows it.             *)
(***************************************************************************)

HdAsk ==
    /\ At(HD, "ask") /\ Goto(HD, "time")
    /\ Kernel!Send(HD, SYS, Plain("GET_TICKS"))
    /\ UNCHANGED hd /\ HdOnly

HdTime ==
    /\ At(HD, "time") /\ Goto(HD, "poll")
    /\ Kernel!Receive(HD, SYS)
    /\ UNCHANGED hd /\ HdOnly

\* The status waited for: not busy before a command, then data requested.
Reached == IF hd.issued THEN ctl.status = "drq" ELSE ctl.status # "busy"

Late == hd.t_read /\ buf[HD].type.cnt >= HD_TIMEOUT

HdPanic ==
    /\ At(HD, "poll") /\ Late
    /\ Kernel!Halt("panic")
    /\ UNCHANGED <<buf, pc, hd>> /\ HdOnly

\* The answer was t, or the status is not the one waited for.
HdAgain ==
    /\ At(HD, "poll") /\ ~ Late
    /\ ~ hd.t_read \/ ~ Reached
    /\ Goto(HD, "ask")
    /\ hd' = [hd EXCEPT !.t_read = TRUE]
    /\ UNCHANGED ipcVars /\ HdOnly

InTime == At(HD, "poll") /\ hd.t_read /\ ~ Late /\ Reached

\* Mutant: a write waits for an interrupt at once.
AfterCmdAlike == "irq"

\* A write has its first sector asked for without an interrupt.
AfterCmd == IF hd.cmd.command = "WRITE" THEN "ask" ELSE "irq"

\* The rest of hd_cmd_out.
HdCmdOut ==
    /\ InTime /\ ~ hd.issued
    /\ Accept(hd.cmd)
    /\ hd' = [hd EXCEPT !.issued = TRUE, !.t_read = FALSE]
    /\ Goto(HD, AfterCmd)
    /\ UNCHANGED <<ipcVars, client, elapsed, irq, part, hd_info>>

\* Mutant: the interrupt of the last sector is not waited for.
AfterPortWriteHasty == IF hd.bytes_left = SECTOR_SIZE THEN "reply" ELSE "irq"

AfterPortWrite == "irq"

\* hd_rdwt: a sector is written.
HdPortWrite ==
    /\ InTime /\ hd.issued
    /\ port_write
    /\ hd' = [hd EXCEPT !.moved = Append(@, AtPort), !.t_read = FALSE]
    /\ Goto(HD, AfterPortWrite)
    /\ UNCHANGED <<ipcVars, client, elapsed, irq, part, hd_info>>

interrupt_wait ==
    /\ At(HD, "irq") /\ Goto(HD, "woken")
    /\ Kernel!Receive(HD, INTERRUPT)
    /\ UNCHANGED hd /\ HdOnly

Woken(command) == At(HD, "woken") /\ hd.cmd.command = command

-----------------------------------------------------------------------------
(***************************************************************************)
(* hd_rdwt after an interrupt.                                             *)
(***************************************************************************)

\* The loop ends when bytes_left has become 0.
LoopOr(label) == IF hd.bytes_left - SECTOR_SIZE # 0 THEN label ELSE "reply"

\* Mutant: only the first sector of a read is waited for.
AfterPortReadNone == LoopOr("woken")

AfterPortRead == LoopOr("irq")

HdSectorRead ==
    /\ Woken("READ") /\ hd.req.type = "DEV_READ"
    /\ port_read
    /\ hd' = [hd EXCEPT !.moved = Append(@, AtPort), !.bytes_left = @ - SECTOR_SIZE]
    /\ Goto(HD, AfterPortRead)
    /\ UNCHANGED <<ipcVars, client, elapsed, irq, part, hd_info>>

HdSectorWritten ==
    /\ Woken("WRITE")
    /\ hd' = [hd EXCEPT !.bytes_left = @ - SECTOR_SIZE]
    /\ Goto(HD, LoopOr("ask"))
    /\ UNCHANGED ipcVars /\ HdOnly

-----------------------------------------------------------------------------
(***************************************************************************)
(* hd_open: hd_identify, then partition when the drive was not open.       *)
(***************************************************************************)

\* Sector sect_nr is to be read next, as far as the waitfor.
get_part_table(sect_nr) ==
    /\ Goto(HD, "ask")
    /\ hd' = [hd EXCEPT !.cmd = Cmd("READ", sect_nr, 1), !.issued = FALSE]

HdIdentified ==
    /\ Woken("IDENTIFY")
    /\ port_read
    /\ hd_info' = [hd_info EXCEPT !.open_cnt = @ + 1]
    /\ part' = [part EXCEPT !.dev = 0]
    /\ IF hd_info.open_cnt = 0 THEN get_part_table(0) ELSE Goto(HD, "reply") /\ UNCHANGED hd
    /\ UNCHANGED <<ipcVars, client, elapsed, irq>>

\* The table that has been read, an empty one if the sector holds none.
TableRead ==
    IF AtPort \in DOMAIN Disk THEN Disk[AtPort]
    ELSE [i \in 1 .. NR_PART_PER_DRIVE |-> [sys_id |-> "NO_PART", start_sect |-> 0, nr_sects |-> 0]]

\* The loop over the entries of table tbl from entry i on: hdi->primary, then
\* the first table of the extended partition it has come to, or the end.
PrimariesFrom(i, tbl, log) ==
    \E last \in i - 1 .. NR_PART_PER_DRIVE :
        LET extended == last >= i /\ tbl[last].sys_id = "EXT_PART" IN
        /\ \A e \in i .. last - 1 : tbl[e].sys_id # "EXT_PART"
        /\ extended \/ last = NR_PART_PER_DRIVE
        /\ hd_info' = [hd_info EXCEPT !.logical = log, !.primary = [d \in DOMAIN @ |->
              IF d \in i .. last /\ tbl[d].sys_id # "NO_PART" THEN Placed(0, tbl[d]) ELSE @[d]]]
        /\ IF extended
           THEN /\ get_part_table(tbl[last].start_sect)
                /\ part' = [tbl |-> tbl, dev |-> last, sub |-> 0, s |-> tbl[last].start_sect]
           ELSE Goto(HD, "reply") /\ part' = [part EXCEPT !.tbl = tbl] /\ UNCHANGED hd

Partitioning == Woken("READ") /\ hd.req.type = "DEV_OPEN"

\* partition(P_PRIMARY) has its table.
HdPrimary ==
    /\ Partitioning /\ part.dev = 0
    /\ port_read
    /\ PrimariesFrom(1, TableRead, hd_info.logical)
    /\ UNCHANGED <<ipcVars, client, elapsed, irq>>

\* Mutant: the next table is looked for behind the last one, not behind the
\* first of the extended partition.
NextTableRelative == part.s + TableRead[2].start_sect

NextTable == hd_info.primary[part.dev].base + TableRead[2].start_sect

\* hdi->logical with the partition the loop is at.
LogicalRead ==
    [hd_info.logical EXCEPT ![(part.dev - 1) * NR_SUB_PER_PART + part.sub] = Placed(part.s, TableRead[1])]

\* partition(P_EXTENDED) has a table; after the last one, the loop over the
\* primary partitions goes on.
HdExtended ==
    /\ Partitioning /\ part.dev # 0
    /\ port_read
    /\ IF LastTable(TableRead, part.sub + 1)
       THEN PrimariesFrom(part.dev + 1, part.tbl, LogicalRead)
       ELSE /\ get_part_table(NextTable)
            /\ part' = [part EXCEPT !.sub = @ + 1, !.s = NextTable]
            /\ hd_info' = [hd_info EXCEPT !.logical = LogicalRead]
    /\ UNCHANGED <<ipcVars, client, elapsed, irq>>

HdStep ==
    \/ HdReceive \/ HdOpen \/ HdClose \/ HdIoctl \/ HdRdwt \/ HdReply
    \/ HdAsk \/ HdTime \/ HdPanic \/ HdAgain \/ HdCmdOut \/ HdPortWrite \/ interrupt_wait
    \/ HdSectorRead \/ HdSectorWritten \/ HdIdentified \/ HdPrimary \/ HdExtended

SysStep == SysReceive \/ SysAnswer

ClientStep(p) == ClientReceive(p) \/ ClientReturn(p)

Next ==
    /\ halted = "no"
    /\ \/ HdStep \/ SysStep
       \/ \E p \in {FS} \cup User : ClientStep(p)
       \/ \E r \in Request : FsCall(r)
       \/ \E p \in User : UserCall(p)
       \/ ControllerReady \/ hd_handler \/ Tick

(***************************************************************************)
(* The scheduler runs every runnable process again and again (Sched), the  *)
(* controller does its work and interrupts.  The clock need not tick.      *)
(***************************************************************************)
Fairness ==
    /\ WF_vars(halted = "no" /\ HdStep)
    /\ WF_vars(halted = "no" /\ SysStep)
    /\ \A p \in {FS} \cup User : WF_vars(halted = "no" /\ ClientStep(p))
    /\ WF_vars(halted = "no" /\ (ControllerReady \/ hd_handler))

Spec == Init /\ [][Next]_vars /\ Fairness

-----------------------------------------------------------------------------
(***************************************************************************)
(* Properties.                                                             *)
(***************************************************************************)

\* The system stops for nothing but a controller that is too slow.  No pending
\* interrupt meets a RECEIVE of something else (proc.c:377); FS, HD and SYS do
\* not wait for each other; and every interrupt has its interrupt_wait: none is
\* left for the main loop, where the driver would spin (hd.c:67-71).
StopsOnlyLate ==
    /\ halted # "no" => halted = "panic" /\ elapsed = HD_TIMEOUT
    /\ ~ (pc[HD] = "handle" /\ flags[HD] = {} /\ buf[HD].source = INTERRUPT)

\* The partition tables have been read right: when the drive is open, hd_info
\* has every partition where it is (hd.c:241-291).
PartitionsRead ==
    (hd_info.open_cnt > 0 /\ pc[HD] \in {"receive", "handle", "reply"}) =>
        \A dev \in DOMAIN Partition : PartInfo(dev) = Partition[dev]

\* What is answered has been done: exactly the sectors asked for have been
\* moved, in their order, each when the controller had it (hd.c:161-180), and
\* DIOCTL_GET_GEO tells where the device is.
RepliesDone ==
    pc[HD] = "reply" =>
        CASE hd.req.type \in {"DEV_READ", "DEV_WRITE"} ->
                LET first == Partition[hd.req.dev].base + hd.req.pos \div SECTOR_SIZE IN
                    hd.moved = [i \in 1 .. hd.req.cnt \div SECTOR_SIZE |-> first + i - 1]
          [] hd.req.type = "DEV_IOCTL" -> hd.geo = Partition[hd.req.dev]
          [] OTHER -> TRUE

\* A request whose sectors cmd.count can tell is answered, whatever the order
\* in which the controller, SYS and its other clients go on, unless the
\* controller was too slow.  (A larger one never is: the count wraps, and the
\* driver waits for interrupts that do not come; hd.c:153, read_write.c:84-99.)
RequestsAnswered ==
    (asked.type # "none" /\ asked.cnt <= REG_NSECTOR * SECTOR_SIZE)
        ~> asked.type = "none" \/ halted # "no"
=============================================================================
