------------------------------ MODULE HdProofs ------------------------------
(***************************************************************************)
(* Proofs about Hd, for any disk whose chains of partition tables end, any *)
(* requests, users, retries and timeout.                                   *)
(*                                                                         *)
(* The kernel's part is what IpcProofs proves of every set of processes    *)
(* whose calls follow Ipc: K is that module, for the processes here.       *)
(***************************************************************************)
EXTENDS Hd, TLAPS

K == INSTANCE IpcProofs WITH IntTask <- {HD}

\* How a process stands to the message passing.
Free(p) == K!Free(p)
Sends(p, d) == K!Sends(p, d)
Waits(p, s) == K!Waits(p, s)
Still(q) == K!Still(q)

(***************************************************************************)
(* The conversations: FS with HD, HD and the users with SYS.               *)
(***************************************************************************)

Client == {FS} \cup User

\* p has asked its server and has no answer yet.
Open(p) == (pc[p] = "receive" /\ Free(p)) \/ (pc[p] = "return" /\ Waits(p, ServerOf(p)))

ClientAt(p) ==
    \/ pc[p] \in {"run", "return"} /\ Free(p)
    \/ pc[p] = "receive" /\ (Free(p) \/ Sends(p, ServerOf(p)))
    \/ pc[p] = "return" /\ Waits(p, ServerOf(p))

Question == {Plain("GET_TICKS"), Plain("GET_PID")}

UserAt(p) ==
    /\ ClientAt(p)
    /\ Sends(p, SYS) => buf[p].source = p /\ buf[p].type \in Question

FsAt ==
    /\ ClientAt(FS)
    /\ IF pc[FS] = "run" THEN asked = Plain("none") ELSE asked \in Request
    /\ Sends(FS, HD) => buf[FS].source = FS /\ buf[FS].type = asked

\* HD has asked SYS for the time, and has no answer yet; the time m tells.
HdAsks == (pc[HD] = "time" /\ Free(HD)) \/ (pc[HD] = "poll" /\ Waits(HD, SYS))
Told(m) == m.type.cnt \in 0 .. elapsed

InWaitfor == pc[HD] \in {"ask", "time", "poll"}
InIrq == pc[HD] \in {"irq", "woken"}

\* HD rests, or sleeps until FS takes its answer; it has FS's request; it
\* serves it.
HdIdle ==
    \/ pc[HD] = "receive" /\ (Free(HD) \/ (Sends(HD, FS) /\ Open(FS)))
    \/ pc[HD] = "handle" /\ Waits(HD, ANY)

HdHas == pc[HD] = "handle" /\ Free(HD) /\ buf[HD].source = FS /\ buf[HD].type = asked

HdServes ==
    /\ hd.req = asked /\ hd.src = FS
    /\ \/ pc[HD] \in {"ask", "irq", "reply"} /\ Free(HD)
       \/ pc[HD] = "time" /\ Free(HD)
       \/ pc[HD] = "time" /\ Sends(HD, SYS) /\ buf[HD].source = HD /\ buf[HD].type = Plain("GET_TICKS")
       \/ pc[HD] = "poll" /\ Waits(HD, SYS)
       \/ pc[HD] = "poll" /\ Free(HD) /\ Told(buf[HD])
       \/ pc[HD] = "woken" /\ (Free(HD) \/ Waits(HD, INTERRUPT))

HdAt == HdIdle \/ ((HdHas \/ HdServes) /\ Open(FS))

\* p waits for SYS.
Asks(p) == (p = HD /\ HdAsks) \/ (p \in User /\ Open(p))

SysAnswers(p) == Sends(SYS, p) /\ Asks(p) /\ (p = HD => Told(buf[SYS]))

SysHas(p) ==
    /\ Asks(p)
    /\ buf[SYS].source = p /\ buf[SYS].type \in Question
    /\ p = HD => buf[SYS].type = Plain("GET_TICKS")

SysAt ==
    \/ pc[SYS] = "receive" /\ Free(SYS)
    \/ pc[SYS] = "receive" /\ \E p \in Proc : SysAnswers(p)
    \/ pc[SYS] = "answer" /\ Waits(SYS, ANY)
    \/ pc[SYS] = "answer" /\ Free(SYS) /\ \E p \in Proc : SysHas(p)

Conversation == (\A p \in User : UserAt(p)) /\ FsAt /\ HdAt /\ SysAt

OnlyHdInformed == \A p \in Proc : has_int_msg[p] => p = HD

(***************************************************************************)
(* The driver and the controller.  An interrupt is on the line, or left    *)
(* for HD as a message, or taken by interrupt_wait, never two of these;    *)
(* and one comes only when the driver is about to wait for it.             *)
(***************************************************************************)

Taken == pc[HD] = "woken" /\ Free(HD)
Quiet == ~ irq /\ ~ has_int_msg[HD]
NoneYet == Quiet /\ ~ Taken

One ==
    \/ irq /\ ~ has_int_msg[HD] /\ ~ Taken
    \/ ~ irq /\ has_int_msg[HD] /\ ~ Taken
    \/ Quiet /\ Taken

\* How many sectors the controller takes cmd.count for; what has been moved.
Count == IF hd.cmd.count = 0 THEN REG_NSECTOR ELSE hd.cmd.count
Moved == Len(hd.moved)

\* The controller is at the driver's next sector.
InStep(status, command) ==
    /\ ctl.status = status /\ ctl.command = command
    /\ ctl.next = hd.cmd.lba + Moved /\ ctl.left = Count - Moved

Unissued ==
    /\ pc[HD] \in {"receive", "handle", "reply"} \/ (InWaitfor /\ ~ hd.issued)
    /\ Quiet /\ ctl = Idle

\* The controller wants a sector to write, or has had as many as it counts.
Wanting ==
    /\ InWaitfor /\ hd.issued /\ hd.cmd.command = "WRITE" /\ Quiet
    /\ \/ ctl = Idle
       \/ (InStep("busy", "WRITE") \/ InStep("drq", "WRITING")) /\ ctl.left > 0

Reads ==
    /\ InIrq /\ hd.issued /\ hd.cmd.command \in {"READ", "IDENTIFY"}
    /\ \/ ctl = Idle /\ NoneYet
       \/ InStep("busy", hd.cmd.command) /\ ctl.left > 0 /\ NoneYet
       \/ InStep("drq", hd.cmd.command) /\ ctl.left > 0 /\ One

Writes ==
    /\ InIrq /\ hd.issued /\ hd.cmd.command = "WRITE"
    /\ \/ InStep("busy", "WRITING") /\ ctl.left >= 0 /\ NoneYet
       \/ InStep("drq", "WRITING") /\ ctl.left > 0 /\ One
       \/ ctl = Idle /\ One

DriveAt == Unissued \/ Wanting \/ Reads \/ Writes

(***************************************************************************)
(* What a request has come to.                                             *)
(***************************************************************************)

Sectors == hd.req.cnt \div SECTOR_SIZE
First == Partition[hd.req.dev].base + hd.req.pos \div SECTOR_SIZE

\* In a write, a sector is moved before its interrupt and counted after it.
Uncounted == IF InIrq /\ hd.cmd.command = "WRITE" THEN 1 ELSE 0

Moving ==
    /\ hd.cmd = Cmd(IF hd.req.type = "DEV_READ" THEN "READ" ELSE "WRITE", First, Sectors % REG_NSECTOR)
    /\ \A i \in 1 .. Moved : hd.moved[i] = First + i - 1
    /\ hd.bytes_left = (Sectors - Moved + Uncounted) * SECTOR_SIZE
    /\ IF pc[HD] = "reply" THEN Moved = Sectors ELSE Moved < Sectors + Uncounted
    /\ InWaitfor /\ ~ hd.issued => Moved = 0

JobAt ==
    (InWaitfor \/ InIrq \/ pc[HD] = "reply") =>
        /\ hd.req.type \in {"DEV_READ", "DEV_WRITE"} => Moving
        /\ hd.req.type = "DEV_OPEN" /\ pc[HD] # "reply" =>
              /\ hd.moved = <<>>
              /\ hd.cmd.command = "IDENTIFY" \/ (hd.cmd.command = "READ" /\ hd.cmd.count = 1)
        /\ hd.req.type \in {"DEV_IOCTL", "DEV_CLOSE"} => pc[HD] = "reply"
        /\ hd.req.type = "DEV_IOCTL" => hd.geo = Partition[hd.req.dev]

(***************************************************************************)
(* The partition tables: hd_info has what the tables read so far tell.     *)
(***************************************************************************)

IsExtended(d) == Disk[0][d].sys_id = "EXT_PART"

PrimaryKnown(d) == Disk[0][d].sys_id # "NO_PART" => hd_info.primary[d] = Placed(0, Disk[0][d])

LogicalKnown(d, k) ==
    hd_info.logical[(d - 1) * NR_SUB_PER_PART + k - 1] = Placed(Tables[d][k], Disk[Tables[d][k]][1])

\* All primary partitions up to last, and the logical ones of those before it.
KnownTo(last) ==
    \A d \in 1 .. NR_PART_PER_DRIVE :
        /\ d <= last => PrimaryKnown(d)
        /\ d < last /\ IsExtended(d) => \A k \in DOMAIN Tables[d] : LogicalKnown(d, k)

AllKnown == KnownTo(NR_PART_PER_DRIVE + 1)

ReadsTables == (InWaitfor \/ InIrq) /\ hd.req.type = "DEV_OPEN" /\ hd.cmd.command = "READ"

AtTable ==
    \/ part.dev = 0 /\ hd.cmd.lba = 0
    \/ /\ part.dev \in 1 .. NR_PART_PER_DRIVE /\ IsExtended(part.dev) /\ part.tbl = Disk[0]
       /\ part.sub + 1 \in DOMAIN Tables[part.dev]
       /\ part.s = Tables[part.dev][part.sub + 1] /\ hd.cmd.lba = part.s
       /\ KnownTo(part.dev)
       /\ \A k \in 1 .. part.sub : LogicalKnown(part.dev, k)

PartAt == IF ReadsTables THEN AtTable ELSE hd_info.open_cnt > 0 => AllKnown

\* FS counts an open when it asks for it, the driver when it has identified
\* the drive.
Unserved == Sends(FS, HD) \/ (pc[HD] = "handle" /\ Free(HD))
Opening ==
    /\ asked.type = "DEV_OPEN"
    /\ Unserved \/ ((InWaitfor \/ InIrq) /\ hd.cmd.command = "IDENTIFY")
Closing == asked.type = "DEV_CLOSE" /\ Unserved

Balance ==
    /\ Opening => opened = hd_info.open_cnt + 1
    /\ Closing => opened = hd_info.open_cnt - 1
    /\ ~ Opening /\ ~ Closing => opened = hd_info.open_cnt
    /\ asked.type \in {"DEV_IOCTL", "DEV_READ", "DEV_WRITE"} => opened > 0

Label == {"run", "receive", "return", "answer", "handle", "ask", "time", "poll", "irq", "woken", "reply"}
Where == [base : Int, size : Int]
Controls == [status : {"ready", "busy", "drq"}, command : {"none", "READ", "IDENTIFY", "WRITE", "WRITING"},
             next : Int, left : Int]
Commands == [command : {"none", "READ", "IDENTIFY", "WRITE"}, lba : Int, count : Nat]
Locals == [req : Type, src : Proc \cup {NO_TASK}, t_read : BOOLEAN,
           cmd : Commands, issued : BOOLEAN, bytes_left : Int, moved : Seq(Int), geo : Where]
Entries == {<<>>} \cup {Disk[s] : s \in DOMAIN Disk}
Parts == [tbl : Entries, dev : 0 .. NR_PART_PER_DRIVE, sub : Nat, s : Int]
Logicals == [0 .. NR_SUB_PER_DRIVE - 1 -> Where]
Infos == [open_cnt : Int, primary : [0 .. NR_PART_PER_DRIVE -> Where], logical : Logicals]

Shapes ==
    /\ pc \in [Proc -> Label]
    /\ opened \in Nat /\ asked \in Request \cup {Plain("none")} /\ elapsed \in 0 .. HD_TIMEOUT
    /\ ctl \in Controls
    /\ irq \in BOOLEAN
    /\ hd \in Locals
    /\ part \in Parts
    /\ hd_info \in Infos

Running == Shapes /\ OnlyHdInformed /\ Conversation /\ DriveAt /\ JobAt /\ PartAt /\ Balance

(***************************************************************************)
(* The inductive invariant.  The kernel never stops on an assertion or a   *)
(* deadlock; when the driver has given up there are no more steps.         *)
(***************************************************************************)
IInv ==
    \/ halted = "no" /\ K!IpcInv /\ Running
    \/ halted = "panic" /\ elapsed = HD_TIMEOUT /\ pc[HD] = "poll"

-----------------------------------------------------------------------------
(***************************************************************************)
(* The kernel under Hd is the one IpcProofs is about.                      *)
(***************************************************************************)

\* The processes, and the marks that are no process, are what Ipc assumes.
LEMMA KernelAssumption == K!IpcAssumption
  BY HdAssumption, HardIntAssumption DEF K!IpcAssumption, Proc

\* The system calls of Hd are those of K.
LEMMA SameCalls ==
    /\ \A p, d, t : Kernel!Send(p, d, t) <=> K!Send(p, d, t)
    /\ \A p, s : Kernel!Receive(p, s) <=> K!Receive(p, s)
    /\ \A p : Kernel!InformInt(p) <=> K!InformInt(p)
    /\ \A p : Kernel!Runnable(p) => Free(p)
<1>1. \A p, d, t : Kernel!Send(p, d, t) <=> K!Send(p, d, t)
  BY DEF Kernel!Send, K!Send, Kernel!Runnable, K!Runnable, Kernel!SendDeadlock, K!SendDeadlock,
         Kernel!SendDirect, K!SendDirect, Kernel!SendBlock, K!SendBlock, Kernel!Deadlock, K!Deadlock,
         Kernel!Awaits, K!Awaits, Kernel!Wake, K!Wake, Kernel!Sleep, K!Sleep, Kernel!Halt, K!Halt,
         Kernel!SENDING, K!SENDING, Kernel!RECEIVING, K!RECEIVING
<1>2. \A p, s : Kernel!Receive(p, s) <=> K!Receive(p, s)
  BY DEF Kernel!Receive, K!Receive, Kernel!Runnable, K!Runnable,
         Kernel!ReceiveInterrupt, K!ReceiveInterrupt, Kernel!ReceiveQueued, K!ReceiveQueued,
         Kernel!ReceiveBlock, K!ReceiveBlock, Kernel!IntReady, K!IntReady,
         Kernel!SenderReady, K!SenderReady, Kernel!SendingTo, K!SendingTo,
         Kernel!Chosen, K!Chosen, Kernel!Dequeue, K!Dequeue, Kernel!RemoveAt, K!RemoveAt, Kernel!Wake, K!Wake,
         Kernel!Sleep, K!Sleep, Kernel!SENDING, K!SENDING, Kernel!RECEIVING, K!RECEIVING
<1>3. \A p : Kernel!InformInt(p) <=> K!InformInt(p)
  BY DEF Kernel!InformInt, K!InformInt, Kernel!InformDirect, K!InformDirect,
         Kernel!InformLater, K!InformLater, Kernel!Awaits, K!Awaits, Kernel!Wake, K!Wake,
         Kernel!RECEIVING, K!RECEIVING
<1>4. \A p : Kernel!Runnable(p) => Free(p)
  BY DEF Kernel!Runnable, Free, K!Free
<1> QED BY <1>1, <1>2, <1>3, <1>4

\* The kernel's invariant holds when the system starts.
LEMMA KernelInit == Kernel!Init => K!IpcInv
<1>1. Kernel!Init => K!Init
  BY DEF Kernel!Init, K!Init
<1> QED BY <1>1, K!InitInv, KernelAssumption

\* Every system call and interrupt of Hd keeps the kernel's invariant.
LEMMA KernelStep ==
    ASSUME K!IpcInv,
           \/ \E p \in Proc : \E d \in Proc \ {p}, t \in Type : Kernel!Send(p, d, t)
           \/ \E p \in Proc : \E s \in K!Sources(p) : Kernel!Receive(p, s)
           \/ Kernel!InformInt(HD)
           \/ UNCHANGED ipcVars
    PROVE  K!IpcInv'
<1>1. K!IpcInv /\ K!Next => K!IpcInv'
  BY K!NextInv, KernelAssumption
<1>2. ASSUME NEW p \in Proc, NEW d \in Proc \ {p}, NEW t \in Type, Kernel!Send(p, d, t)
      PROVE  K!Next
  BY <1>2, SameCalls DEF K!Next
<1>3. ASSUME NEW p \in Proc, NEW s \in K!Sources(p), Kernel!Receive(p, s)
      PROVE  K!Next
  BY <1>3, SameCalls DEF K!Next
<1>4. Kernel!InformInt(HD) => K!Next
  BY SameCalls DEF K!Next
<1>5. UNCHANGED ipcVars => UNCHANGED K!vars
  BY DEF ipcVars, K!vars
<1>6. K!IpcInv /\ UNCHANGED K!vars => K!IpcInv'
  BY K!NextInv, KernelAssumption
<1> QED BY <1>1, <1>2, <1>3, <1>4, <1>5, <1>6

\* A process is free, or blocked for one reason, on one process.
OneReason ==
    \A p : /\ \A d : Free(p) => ~ Sends(p, d) /\ ~ Waits(p, d)
           /\ \A d, s : Sends(p, d) => ~ Waits(p, s)
           /\ \A d, e : Sends(p, d) /\ Sends(p, e) => d = e
           /\ \A s, r : Waits(p, s) /\ Waits(p, r) => s = r

\* IpcProofs says so of every process.
LEMMA Standing == OneReason
  BY K!Standing, KernelAssumption, Zenon DEF K!OneStanding, Free, Sends, Waits, OneReason

\* And so after a step.
LEMMA StandingAfter == OneReason'
  BY Standing, PTL

\* Every process but those of S stands as it stood, with the message it had.
StillBut(S) == \A q \in Proc \ S : Still(q) /\ buf'[q] = buf[q]

\* d was asleep until a message of p's could reach it.
Expects(d, p) == Waits(d, p) \/ Waits(d, ANY)

\* A process that stands still is free, sends or waits as it did.
LEMMA StillSame ==
    ASSUME NEW q, Still(q)
    PROVE  /\ Free(q)' <=> Free(q)
           /\ \A d : Sends(q, d)' <=> Sends(q, d)
           /\ \A s : Waits(q, s)' <=> Waits(q, s)
  BY DEF Still, K!Still, Free, Sends, Waits

\* A SEND: a chain of senders leads back, the message is delivered, or the
\* caller sleeps.
LEMMA Sending ==
    ASSUME K!IpcInv, OnlyHdInformed, NEW p \in Proc, NEW d \in Proc \ {p}, NEW t \in Type,
           Kernel!Send(p, d, t)
    PROVE  /\ K!IpcInv' /\ OnlyHdInformed' /\ has_int_msg'[HD] = has_int_msg[HD]
           /\ Free(p)
           /\ buf'[p].source = p /\ buf'[p].type = t
           /\ StillBut({p, d})
           /\ \/ K!Deadlock(p, d)
              \/ /\ halted' = halted /\ Expects(d, p)
                 /\ Free(p)' /\ Free(d)' /\ buf'[d] = buf'[p]
              \/ /\ halted' = halted /\ ~ Expects(d, p)
                 /\ Sends(p, d)' /\ Still(d) /\ buf'[d] = buf[d]
<1>1. K!IpcInv'
  BY KernelStep
<1>2. K!Send(p, d, t)
  BY SameCalls
<1>4. /\ UNCHANGED has_int_msg /\ Free(p)
      /\ buf'[p] = [source |-> p, type |-> t]
      /\ \A q \in Proc \ {p, d} : Still(q) /\ buf'[q] = buf[q]
      /\ \/ K!Deadlock(p, d)
         \/ /\ halted' = halted /\ \E s \in {p, ANY} : Waits(d, s)
            /\ Free(p)' /\ Free(d)' /\ buf'[d] = [source |-> p, type |-> t]
         \/ /\ halted' = halted /\ ~ Waits(d, p) /\ ~ Waits(d, ANY)
            /\ Sends(p, d)' /\ Still(d) /\ buf'[d] = buf[d]
  BY <1>2, K!SendOutcome, KernelAssumption DEF Free, Sends, Waits, Still
<1>5. StillBut({p, d})
  BY <1>4 DEF StillBut
<1>6. (\E s \in {p, ANY} : Waits(d, s)) => Expects(d, p)
  BY DEF Expects
<1>7. ~ Waits(d, p) /\ ~ Waits(d, ANY) => ~ Expects(d, p)
  BY DEF Expects
<1>8. buf'[p].source = p /\ buf'[p].type = t
  BY <1>4
<1>9. OnlyHdInformed'
  BY <1>4 DEF OnlyHdInformed
<1> QED BY <1>1, <1>4, <1>5, <1>6, <1>7, <1>8, <1>9

\* The chain of senders that deadlock() follows.
LEMMA Chain ==
    ASSUME K!IpcInv, NEW p \in Proc, NEW d \in Proc, K!Deadlock(p, d), p # d
    PROVE  \E e \in Proc : Sends(d, e) /\ (e # p => K!Deadlock(p, e))
  BY K!ChainGoesOn, KernelAssumption DEF Sends

\* A RECEIVE of a process no interrupt is left for.
LEMMA Receiving ==
    ASSUME K!IpcInv, OnlyHdInformed, NEW p \in Proc, ~ has_int_msg[p],
           NEW s \in K!Sources(p), Kernel!Receive(p, s)
    PROVE  /\ K!IpcInv' /\ OnlyHdInformed' /\ halted' = halted
           /\ has_int_msg'[HD] = has_int_msg[HD] /\ Free(p)
           /\ \/ \E e \in Proc \ {p} :
                    /\ Sends(e, p) /\ s \in {e, ANY}
                    /\ Free(e)' /\ Free(p)' /\ buf'[p] = buf[e] /\ buf'[e] = buf[e]
                    /\ StillBut({e, p})
              \/ /\ \A e \in Proc : Sends(e, p) => s \notin {e, ANY}
                 /\ Waits(p, s)' /\ StillBut({p})
<1>1. K!IpcInv'
  BY KernelStep
<1>2. K!Receive(p, s)
  BY SameCalls
<1>4. /\ Free(p)
      /\ \A q \in Proc \ {p} : has_int_msg'[q] = has_int_msg[q] /\ buf'[q] = buf[q]
      /\ has_int_msg'[p] = has_int_msg[p] /\ halted' = halted
      /\ \/ \E e \in Proc \ {p} : /\ Sends(e, p) /\ s \in {e, ANY}
                                  /\ Free(e)' /\ buf'[p] = buf[e]
                                  /\ \A q \in Proc \ {e} : Still(q)
         \/ /\ \A e \in Proc : Sends(e, p) => s \notin {e, ANY}
            /\ Waits(p, s)'
            /\ \A q \in Proc \ {p} : Still(q)
  <2>1. /\ Free(p)
        /\ \A q \in Proc \ {p} : has_int_msg'[q] = has_int_msg[q] /\ buf'[q] = buf[q]
        /\ \/ has_int_msg[p]
           \/ /\ has_int_msg'[p] = has_int_msg[p] /\ halted' = halted
              /\ \E e \in Proc \ {p} : /\ Sends(e, p) /\ s \in {e, ANY}
                                       /\ Free(e)' /\ buf'[p] = buf[e]
                                       /\ \A q \in Proc \ {e} : Still(q)
           \/ /\ has_int_msg'[p] = has_int_msg[p]
              /\ has_int_msg[p] \/ halted' = halted
              /\ \A e \in Proc : Sends(e, p) => s \notin {e, ANY}
              /\ Waits(p, s)'
              /\ \A q \in Proc \ {p} : Still(q)
    BY <1>2, K!ReceiveOutcome, KernelAssumption DEF Free, Sends, Waits, Still
  <2> QED BY <2>1
<1>5. OnlyHdInformed' /\ has_int_msg'[HD] = has_int_msg[HD]
  BY <1>4 DEF OnlyHdInformed, Proc
<1>6. Still(p) => Free(p)'
  BY <1>4, StillSame
<1>7. ASSUME NEW e \in Proc \ {p}, \A q \in Proc \ {e} : Still(q)
      PROVE  Free(p)' /\ StillBut({e, p})
  BY <1>4, <1>6, <1>7 DEF StillBut
<1>8. (\A q \in Proc \ {p} : Still(q)) => StillBut({p})
  BY <1>4 DEF StillBut
<1> QED BY <1>1, <1>4, <1>5, <1>7, <1>8

\* interrupt_wait.
LEMMA WaitingForInt ==
    ASSUME K!IpcInv, OnlyHdInformed, Kernel!Receive(HD, INTERRUPT)
    PROVE  /\ K!IpcInv' /\ OnlyHdInformed' /\ halted' = halted /\ StillBut({HD}) /\ Free(HD)
           /\ ~ has_int_msg'[HD]
           /\ \/ has_int_msg[HD] /\ Free(HD)'
              \/ ~ has_int_msg[HD] /\ Waits(HD, INTERRUPT)'
<1>0. HD \in Proc /\ INTERRUPT \notin Proc /\ INTERRUPT # ANY
  BY HdAssumption DEF Proc
<1>1. INTERRUPT \in K!Sources(HD)
  BY DEF K!Sources
<1>2. K!IpcInv' /\ K!Receive(HD, INTERRUPT)
  BY <1>0, <1>1, KernelStep, SameCalls
<1>3. /\ Free(HD)
      /\ \A q \in Proc \ {HD} : has_int_msg'[q] = has_int_msg[q] /\ buf'[q] = buf[q]
      /\ \/ /\ has_int_msg[HD] /\ ~ has_int_msg'[HD] /\ halted' = halted
            /\ \A q \in Proc : Still(q)
         \/ /\ has_int_msg'[HD] = has_int_msg[HD] /\ halted' = halted
            /\ \E e \in Proc \ {HD} : INTERRUPT \in {e, ANY}
         \/ /\ has_int_msg'[HD] = has_int_msg[HD]
            /\ has_int_msg[HD] \/ halted' = halted
            /\ ~ has_int_msg[HD]
            /\ Waits(HD, INTERRUPT)'
            /\ \A q \in Proc \ {HD} : Still(q)
  BY <1>0, <1>1, <1>2, K!ReceiveOutcome, KernelAssumption DEF Free, Waits, Still
<1>4. OnlyHdInformed'
  BY <1>3 DEF OnlyHdInformed
<1>5. StillBut({HD})
  BY <1>0, <1>3 DEF StillBut
<1>6. Still(HD) => Free(HD)'
  BY <1>3, StillSame
<1> QED BY <1>0, <1>2, <1>3, <1>4, <1>5, <1>6

\* hd_handler's inform_int.
LEMMA Informing ==
    ASSUME K!IpcInv, OnlyHdInformed, Kernel!InformInt(HD)
    PROVE  /\ K!IpcInv' /\ OnlyHdInformed' /\ halted' = halted /\ StillBut({HD})
           /\ \/ /\ Waits(HD, INTERRUPT) \/ Waits(HD, ANY)
                 /\ Free(HD)' /\ ~ has_int_msg'[HD]
              \/ /\ ~ Waits(HD, INTERRUPT) /\ ~ Waits(HD, ANY)
                 /\ Still(HD) /\ buf'[HD] = buf[HD] /\ has_int_msg'[HD]
<1>1. K!IpcInv'
  BY KernelStep
<1>2. K!InformInt(HD)
  BY SameCalls
<1>3. /\ halted' = halted
      /\ \A q \in Proc \ {HD} : Still(q) /\ buf'[q] = buf[q] /\ has_int_msg'[q] = has_int_msg[q]
      /\ \/ /\ \E s \in {INTERRUPT, ANY} : Waits(HD, s)
            /\ Free(HD)' /\ ~ has_int_msg'[HD]
         \/ /\ ~ Waits(HD, INTERRUPT) /\ ~ Waits(HD, ANY)
            /\ Still(HD) /\ buf'[HD] = buf[HD] /\ has_int_msg'[HD]
  BY <1>2, K!InformOutcome, KernelAssumption DEF Free, Waits, Still
<1>4. OnlyHdInformed' /\ StillBut({HD})
  BY <1>3 DEF OnlyHdInformed, StillBut
<1> QED BY <1>1, <1>3, <1>4


-----------------------------------------------------------------------------
(***************************************************************************)
(* What a step leaves alone.                                               *)
(***************************************************************************)

\* Who the processes are.
LEMMA Processes ==
    /\ HD \in Proc /\ SYS \in Proc /\ FS \in Proc /\ User \subseteq Proc
    /\ HD # SYS /\ HD # FS /\ SYS # FS
    /\ \A u \in User : u # HD /\ u # SYS /\ u # FS /\ ServerOf(u) = SYS
    /\ ServerOf(FS) = HD
    /\ ANY \notin Proc /\ INTERRUPT \notin Proc /\ ANY # INTERRUPT
  BY HdAssumption DEF Proc, ServerOf

\* The local variables between two requests, and at the start of one.
LEMMA LocalShape ==
    /\ Local \in Locals
    /\ \A m \in Type, p \in Proc : [Local EXCEPT !.req = m, !.src = p] \in Locals
<1>1. Local \in Locals
  <2>1. Plain("SYSCALL_RET") \in Type /\ NoPart \in Where /\ <<>> \in Seq(Int)
    BY DEF Type, NoPart, Where
  <2>2. Cmd("none", 0, 0) \in Commands
    BY DEF Cmd, Commands
  <2> QED BY <2>1, <2>2 DEF Local, Locals
<1> QED BY <1>1 DEF Locals

\* A jump of p's program.
LEMMA Jump ==
    ASSUME Shapes, NEW p \in Proc, NEW l \in Label, Goto(p, l)
    PROVE  pc' \in [Proc -> Label] /\ pc'[p] = l /\ \A q \in Proc \ {p} : pc'[q] = pc[q]
  BY DEF Shapes, Goto

\* A client that stands still is where it was.
LEMMA ClientKept ==
    ASSUME NEW p, Still(p), pc'[p] = pc[p]
    PROVE  (Open(p)' <=> Open(p)) /\ (ClientAt(p)' <=> ClientAt(p))
  BY StillSame DEF Open, ClientAt

\* So are the users out of a step.
LEMMA UsersKept ==
    ASSUME Conversation, NEW S, StillBut(S), \A p \in User : p \notin S => pc'[p] = pc[p]
    PROVE  \A p \in User : p \notin S => UserAt(p)' /\ (Open(p)' <=> Open(p))
<1> SUFFICES ASSUME NEW p \in User, p \notin S PROVE UserAt(p)' /\ (Open(p)' <=> Open(p))
  OBVIOUS
<1>1. Still(p) /\ buf'[p] = buf[p] /\ pc'[p] = pc[p] /\ UserAt(p)
  BY Processes DEF StillBut, Conversation
<1> QED BY <1>1, ClientKept, StillSame DEF UserAt

\* And FS.
LEMMA FsKept ==
    ASSUME FsAt, Still(FS), buf'[FS] = buf[FS], pc'[FS] = pc[FS], asked' = asked
    PROVE  FsAt' /\ (Open(FS)' <=> Open(FS))
  BY ClientKept, StillSame DEF FsAt

\* And HD.
LEMMA HdKept ==
    ASSUME HdAt, Still(HD), buf'[HD] = buf[HD], pc'[HD] = pc[HD], hd' = hd,
           HdHas \/ HdServes => asked' = asked,
           elapsed \in Nat, elapsed' \in Nat, elapsed <= elapsed',
           Open(FS) => Open(FS)'
    PROVE  HdAt' /\ (HdAsks' <=> HdAsks)
<1>1. Told(buf[HD]) => Told(buf[HD])'
  BY DEF Told
<1>2. HdAsks' <=> HdAsks
  BY StillSame DEF HdAsks
<1>3. HdIdle => HdIdle'
  BY StillSame DEF HdIdle
<1>4. HdHas => HdHas'
  BY StillSame DEF HdHas
<1>5. HdServes => HdServes'
  BY <1>1, StillSame DEF HdServes
<1> QED BY <1>2, <1>3, <1>4, <1>5 DEF HdAt

\* And SYS, when nobody stops waiting for it.
LEMMA SysKept ==
    ASSUME SysAt, Still(SYS), buf'[SYS] = buf[SYS], pc'[SYS] = pc[SYS],
           elapsed \in Nat, elapsed' \in Nat, elapsed <= elapsed',
           \A p \in Proc : Asks(p) => Asks(p)'
    PROVE  SysAt'
<1>1. Told(buf[SYS]) => Told(buf[SYS])'
  BY DEF Told
<1>2. \A p \in Proc : SysAnswers(p) => SysAnswers(p)'
  BY <1>1, StillSame DEF SysAnswers
<1>3. \A p \in Proc : SysHas(p) => SysHas(p)'
  BY DEF SysHas
<1> QED BY <1>2, <1>3, StillSame DEF SysAt

Data == DriveAt /\ JobAt /\ PartAt

SameStage ==
    /\ InWaitfor' <=> InWaitfor
    /\ InIrq' <=> InIrq
    /\ (pc[HD] \in {"receive", "handle"})' <=> pc[HD] \in {"receive", "handle"}
    /\ (pc[HD] = "reply")' <=> pc[HD] = "reply"

\* A step that stays where the driver is keeps what is known of its work.
LEMMA DataKept ==
    ASSUME Data, UNCHANGED <<hd.req, hd.cmd, hd.issued, hd.bytes_left, hd.moved, hd.geo>>,
           UNCHANGED <<ctl, irq, part, hd_info>>, has_int_msg'[HD] = has_int_msg[HD],
           Taken' <=> Taken, SameStage
    PROVE  Data'
<1>1. DriveAt'
  <2>1. (Quiet' <=> Quiet) /\ (NoneYet' <=> NoneYet) /\ (One' <=> One)
    BY DEF Quiet, NoneYet, One
  <2>2. \A s, c : InStep(s, c)' <=> InStep(s, c)
    BY DEF InStep, Count, Moved
  <2>3. Unissued => Unissued'
    BY <2>1 DEF Unissued, SameStage
  <2>4. Wanting => Wanting'
    BY <2>1, <2>2 DEF Wanting, SameStage
  <2>5. Reads => Reads'
    BY <2>1, <2>2 DEF Reads, SameStage
  <2>6. Writes => Writes'
    BY <2>1, <2>2 DEF Writes, SameStage
  <2> QED BY <2>3, <2>4, <2>5, <2>6 DEF Data, DriveAt
<1>2. JobAt'
  <2>1. Moving => Moving'
    BY DEF Moving, Moved, Uncounted, Sectors, First, SameStage
  <2> QED BY <2>1 DEF Data, JobAt, SameStage
<1>3. PartAt'
  <2>1. AtTable => AtTable'
    BY DEF AtTable, KnownTo, PrimaryKnown, LogicalKnown
  <2>2. AllKnown => AllKnown'
    BY DEF AllKnown, KnownTo, PrimaryKnown, LogicalKnown
  <2>3. ReadsTables' <=> ReadsTables
    BY DEF ReadsTables, SameStage
  <2> QED BY <2>1, <2>2, <2>3 DEF Data, PartAt
<1> QED BY <1>1, <1>2, <1>3 DEF Data

\* The opens FS has asked for and those the driver has counted.
LEMMA BalanceKept ==
    ASSUME Balance, UNCHANGED <<opened, asked, hd.cmd, hd_info>>, Unserved' <=> Unserved,
           InWaitfor \/ InIrq <=> InWaitfor' \/ InIrq'
    PROVE  Balance'
<1>1. Opening' <=> Opening
  BY DEF Opening
<1>2. Closing' <=> Closing
  BY DEF Closing
<1> QED BY <1>1, <1>2 DEF Balance

\* Of the shapes only some change in a call.
LEMMA ShapesKept ==
    ASSUME Shapes, pc' \in [Proc -> Label], UNCHANGED <<opened, asked, ctl, irq, hd, part, hd_info>>,
           elapsed' \in 0 .. HD_TIMEOUT
    PROVE  Shapes'
  BY DEF Shapes

\* A step that leaves HD and its work alone.
LEMMA HdAway ==
    ASSUME Running, Still(HD), pc'[HD] = pc[HD], UNCHANGED <<hd, ctl, irq, part, hd_info>>,
           has_int_msg'[HD] = has_int_msg[HD]
    PROVE  Data'
<1>1. Taken' <=> Taken
  BY StillSame DEF Taken
<1>2. SameStage
  BY DEF SameStage, InWaitfor, InIrq
<1> QED BY <1>1, <1>2, DataKept DEF Running, Data

-----------------------------------------------------------------------------
(***************************************************************************)
(* The system runs.                                                        *)
(***************************************************************************)

Runs == halted = "no" /\ K!IpcInv /\ Running

\* Who waits for SYS sends to nobody, so SYS's answers end every chain.
LEMMA SysChain ==
    ASSUME Runs, NEW p \in Proc \ {SYS}, K!Deadlock(p, SYS)
    PROVE  Asks(p)
<1>1. SysAt
  BY DEF Runs, Running, Conversation
<1>2. PICK e \in Proc : Sends(SYS, e) /\ (e # p => K!Deadlock(p, e))
  BY Chain, Processes DEF Runs
<1>3. Asks(e)
  BY <1>1, <1>2, Standing DEF OneReason, SysAt, SysAnswers
<1>4. e # p => \E f \in Proc : Sends(e, f)
  BY <1>2, Chain DEF Runs
<1>5. \A f : ~ Sends(e, f)
  BY <1>3, Standing DEF OneReason, Asks, HdAsks, Open
<1> QED BY <1>3, <1>4, <1>5

\* What questions are.
LEMMA Questions == Question \subseteq Type
  BY DEF Question, Type

\* get_ticks and getpid of a user.
LEMMA UserCallKeeps ==
    ASSUME Runs, NEW u \in User, UserCall(u)
    PROVE  Runs'
<1>0. K!IpcInv /\ Running /\ Shapes /\ OnlyHdInformed /\ Conversation /\ halted = "no"
  BY DEF Runs, Running
<1>1. PICK t \in Question : Kernel!Send(u, SYS, t)
  BY Processes DEF UserCall, Call, Question
<1>2. /\ pc[u] = "run" /\ Goto(u, "receive")
      /\ UNCHANGED <<opened, asked, elapsed, ctl, irq, hd, part, hd_info>>
  BY DEF UserCall, Call, At, client, device
<1>3. u \in Proc /\ SYS \in Proc \ {u} /\ t \in Type /\ u # HD /\ u # FS /\ u # SYS
  BY Processes, Questions
<1>4. pc' \in [Proc -> Label] /\ pc'[u] = "receive" /\ \A q \in Proc \ {u} : pc'[q] = pc[q]
  BY <1>0, <1>2, <1>3, Jump DEF Label
<1>5. ~ K!Deadlock(u, SYS)
  BY <1>2, <1>3, SysChain, Processes DEF Asks, Open
<1>6. /\ K!IpcInv' /\ OnlyHdInformed' /\ has_int_msg'[HD] = has_int_msg[HD]
      /\ buf'[u].source = u /\ buf'[u].type = t
      /\ StillBut({u, SYS}) /\ halted' = halted
      /\ \/ Expects(SYS, u) /\ Free(u)' /\ Free(SYS)' /\ buf'[SYS] = buf'[u]
         \/ Sends(u, SYS)' /\ Still(SYS) /\ buf'[SYS] = buf[SYS]
  BY <1>0, <1>1, <1>3, <1>5, Sending
<1>7. /\ Still(HD) /\ buf'[HD] = buf[HD] /\ pc'[HD] = pc[HD]
      /\ Still(FS) /\ buf'[FS] = buf[FS] /\ pc'[FS] = pc[FS]
      /\ pc'[SYS] = pc[SYS]
  BY <1>3, <1>4, <1>6, Processes DEF StillBut
<1>8. Shapes'
  BY <1>0, <1>2, <1>4, ShapesKept DEF Shapes
<1>9. Data' /\ Balance'
  <2>1. Data'
    BY <1>0, <1>2, <1>6, <1>7, HdAway
  <2>2. Unserved' <=> Unserved
    BY <1>7, StillSame DEF Unserved
  <2> QED BY <1>0, <1>2, <1>7, <2>1, <2>2, BalanceKept DEF Running, InWaitfor, InIrq
<1>10. elapsed \in Nat /\ elapsed' \in Nat /\ elapsed <= elapsed'
  BY <1>0, <1>2, HdAssumption DEF Shapes
<1>11. FsAt' /\ (Open(FS)' <=> Open(FS))
  BY <1>0, <1>2, <1>7, FsKept DEF Conversation
<1>12. HdAt' /\ (HdAsks' <=> HdAsks)
  BY <1>0, <1>2, <1>7, <1>10, <1>11, HdKept DEF Conversation
<1>13. \A p \in User : p # u => UserAt(p)' /\ (Open(p)' <=> Open(p))
  <2>1. \A p \in User : p \notin {u, SYS} => pc'[p] = pc[p]
    BY <1>4, Processes
  <2>2. \A p \in User : p \notin {u, SYS} => UserAt(p)' /\ (Open(p)' <=> Open(p))
    BY <1>0, <1>6, <2>1, UsersKept
  <2> QED BY <2>2, Processes
<1>14. UserAt(u)'
  <2>1. ClientAt(u)'
    BY <1>4, <1>6, Processes DEF ClientAt
  <2> QED BY <1>6, <2>1 DEF UserAt
<1>15. SysAt'
  <2>1. CASE Expects(SYS, u) /\ Free(u)' /\ Free(SYS)' /\ buf'[SYS] = buf'[u]
    <3>1. pc[SYS] = "answer"
      BY <1>0, <2>1, Standing, Processes DEF OneReason, Expects, Conversation, SysAt, SysAnswers
    <3>2. Asks(u)'
      BY <1>4, <2>1, Processes DEF Asks, Open
    <3>3. SysHas(u)'
      BY <1>3, <1>6, <2>1, <3>2 DEF SysHas
    <3> QED BY <1>3, <1>7, <2>1, <3>1, <3>3 DEF SysAt
  <2>2. CASE Sends(u, SYS)' /\ Still(SYS) /\ buf'[SYS] = buf[SYS]
    <3>1. ~ Asks(u)
      BY <1>2, <1>3 DEF Asks, Open
    <3>2. \A p \in Proc : Asks(p) => Asks(p)'
      BY <1>12, <1>13, <3>1 DEF Asks
    <3> QED BY <1>0, <1>7, <1>10, <2>2, <3>2, SysKept DEF Conversation
  <2> QED BY <1>6, <2>1, <2>2
<1>16. Conversation'
  BY <1>11, <1>12, <1>13, <1>14, <1>15 DEF Conversation
<1> QED BY <1>0, <1>6, <1>8, <1>9, <1>16 DEF Runs, Running, Data

\* A request of FS.
LEMMA FsCallKeeps ==
    ASSUME Runs, NEW r \in Request, FsCall(r)
    PROVE  Runs'
<1>0. K!IpcInv /\ Running /\ Shapes /\ OnlyHdInformed /\ Conversation /\ halted = "no"
  BY DEF Runs, Running
<1>1. Kernel!Send(FS, HD, r)
  BY Processes DEF FsCall, Call
<1>2. /\ pc[FS] = "run" /\ Goto(FS, "receive") /\ asked' = r
      /\ UNCHANGED <<elapsed, ctl, irq, hd, part, hd_info>>
  BY DEF FsCall, Call, At, device
<1>3. HD \in Proc \ {FS} /\ FS \in Proc /\ r \in Type
  BY Processes DEF Type
<1>4. pc' \in [Proc -> Label] /\ pc'[FS] = "receive" /\ \A q \in Proc \ {FS} : pc'[q] = pc[q]
  BY <1>0, <1>2, <1>3, Jump DEF Label
<1>a. asked = Plain("none") /\ ~ Open(FS) /\ HdIdle
  BY <1>0, <1>2 DEF Conversation, FsAt, Open, HdAt
<1>5. ~ K!Deadlock(FS, HD)
  <2> SUFFICES ASSUME K!Deadlock(FS, HD) PROVE FALSE
    OBVIOUS
  <2>1. PICK e \in Proc : Sends(HD, e)
    BY <1>0, <1>3, Chain
  <2> QED BY <1>a, <2>1, Standing DEF OneReason, HdIdle
<1>6. /\ K!IpcInv' /\ OnlyHdInformed' /\ has_int_msg'[HD] = has_int_msg[HD]
      /\ buf'[FS].source = FS /\ buf'[FS].type = r /\ Free(FS)
      /\ StillBut({FS, HD}) /\ halted' = halted
      /\ \/ Expects(HD, FS) /\ Free(FS)' /\ Free(HD)' /\ buf'[HD] = buf'[FS]
         \/ Sends(FS, HD)' /\ Still(HD) /\ buf'[HD] = buf[HD]
  BY <1>0, <1>1, <1>3, <1>5, Sending
<1>7. /\ Still(SYS) /\ buf'[SYS] = buf[SYS] /\ pc'[SYS] = pc[SYS] /\ pc'[HD] = pc[HD]
  BY <1>3, <1>4, <1>6, Processes DEF StillBut
<1>b. opened' \in Int /\ (opened' = opened + (CASE r.type = "DEV_OPEN" -> 1 [] r.type = "DEV_CLOSE" -> -1 [] OTHER -> 0))
      /\ (r.type = "DEV_OPEN" \/ opened > 0)
  BY <1>0 DEF FsCall, Shapes
<1>8. Shapes'
  <2>1. opened' \in Nat
    BY <1>0, <1>b DEF Shapes
  <2> QED BY <1>0, <1>2, <1>4, <2>1 DEF Shapes
<1>c. Expects(HD, FS) => pc[HD] = "handle"
  BY <1>a, Standing, Processes DEF OneReason, Expects, HdIdle
<1>d. pc[HD] \in {"receive", "handle"}
  BY <1>a DEF HdIdle
<1>9. Data'
  <2>1. (Taken' <=> Taken) /\ SameStage
    BY <1>7, <1>d DEF SameStage, InWaitfor, InIrq, Taken
  <2> QED BY <1>0, <1>2, <1>6, <2>1, DataKept DEF Running, Data
<1>10. elapsed \in Nat /\ elapsed' \in Nat /\ elapsed <= elapsed'
  BY <1>0, <1>2, HdAssumption DEF Shapes
<1>11. FsAt'
  <2>1. ClientAt(FS)'
    BY <1>4, <1>6, Processes DEF ClientAt
  <2> QED BY <1>2, <1>4, <1>6, <2>1 DEF FsAt
<1>12. HdAt' /\ (HdAsks' <=> HdAsks)
  <2>0. ~ HdAsks /\ ~ HdAsks'
    BY <1>7, <1>d DEF HdAsks
  <2>1. CASE Expects(HD, FS) /\ Free(FS)' /\ Free(HD)' /\ buf'[HD] = buf'[FS]
    <3>1. HdHas' /\ Open(FS)'
      BY <1>2, <1>4, <1>6, <1>7, <1>c, <2>1 DEF HdHas, Open
    <3> QED BY <2>0, <3>1 DEF HdAt
  <2>2. CASE Sends(FS, HD)' /\ Still(HD) /\ buf'[HD] = buf[HD]
    <3>1. HdIdle'
      BY <1>7, <1>a, <2>2, StillSame DEF HdIdle
    <3> QED BY <2>0, <3>1 DEF HdAt
  <2> QED BY <1>6, <2>1, <2>2
<1>13. \A p \in User : UserAt(p)' /\ (Open(p)' <=> Open(p))
  <2>1. \A p \in User : p \notin {FS, HD} => pc'[p] = pc[p]
    BY <1>4, Processes
  <2>2. \A p \in User : p \notin {FS, HD} => UserAt(p)' /\ (Open(p)' <=> Open(p))
    BY <1>0, <1>6, <2>1, UsersKept
  <2> QED BY <2>2, Processes
<1>14. SysAt'
  <2>1. \A p \in Proc : Asks(p) => Asks(p)'
    BY <1>12, <1>13 DEF Asks
  <2> QED BY <1>0, <1>7, <1>10, <2>1, SysKept DEF Conversation
<1>15. Balance'
  <2>0. Plain("none").type = "none"
    BY DEF Plain, Msg
  <2>1. ~ Opening /\ ~ Closing
    BY <1>a, <2>0 DEF Opening, Closing
  <2>2. opened = hd_info.open_cnt
    BY <1>0, <2>1 DEF Running, Balance
  <2>3. Unserved'
    BY <1>6, <1>7, <1>c DEF Unserved
  <2>4. opened \in Nat /\ hd_info'.open_cnt = hd_info.open_cnt
    BY <1>0, <1>2 DEF Shapes
  <2>5. (Opening' <=> r.type = "DEV_OPEN") /\ (Closing' <=> r.type = "DEV_CLOSE")
    BY <1>2, <2>3 DEF Opening, Closing
  <2>6. r.type = "DEV_OPEN" => opened' = opened + 1
    BY <1>b, <2>4
  <2>7. r.type = "DEV_CLOSE" => opened' = opened - 1
    BY <1>b, <2>4
  <2>8. r.type # "DEV_OPEN" /\ r.type # "DEV_CLOSE" => opened' = opened /\ opened > 0
    BY <1>b, <2>4
  <2> QED BY <1>2, <2>2, <2>4, <2>5, <2>6, <2>7, <2>8 DEF Balance
<1>16. Conversation'
  BY <1>11, <1>12, <1>13, <1>14 DEF Conversation
<1> QED BY <1>0, <1>6, <1>8, <1>9, <1>15, <1>16 DEF Runs, Running, Data

\* A step without a system call leaves the processes standing as they stand.
LEMMA AllStill ==
    ASSUME UNCHANGED <<flags, send_to, recv_from>>
    PROVE  \A q : Still(q)
  BY DEF Still, K!Still, K!Free, K!Sends, K!Waits

\* A process may write its own message.
LEMMA Rewritten ==
    ASSUME K!IpcInv, UNCHANGED <<flags, p_msg, recv_from, send_to, has_int_msg, q_sending, halted>>,
           buf' \in [Proc -> K!Message]
    PROVE  K!IpcInv'
<1>1. K!TypeOK'
  BY DEF K!IpcInv, K!TypeOK, K!SENDING, K!RECEIVING
<1>2. K!PcbConsistent' /\ K!NoSendCycle'
  BY DEF K!IpcInv, K!PcbConsistent, K!NoSendCycle
<1>3. K!QueuesExact'
  BY DEF K!IpcInv, K!QueuesExact, K!SendingTo
<1>4. K!NoMissedRendezvous' /\ K!NoMissedInterrupt'
  BY DEF K!IpcInv, K!NoMissedRendezvous, K!NoMissedInterrupt, K!SendingTo, K!Awaits
<1> QED BY <1>1, <1>2, <1>3, <1>4 DEF K!IpcInv

\* The answer to FS.
LEMMA FsReceiveKeeps ==
    ASSUME Runs, ClientReceive(FS)
    PROVE  Runs'
<1>0. K!IpcInv /\ Running /\ Shapes /\ OnlyHdInformed /\ Conversation /\ halted = "no"
  BY DEF Runs, Running
<1>1. Kernel!Receive(FS, HD)
  BY Processes DEF ClientReceive
<1>2. /\ pc[FS] = "receive" /\ Goto(FS, "return")
      /\ UNCHANGED <<opened, asked, elapsed, ctl, irq, hd, part, hd_info>>
  BY DEF ClientReceive, At, client, device
<1>3. FS \in Proc /\ HD \in K!Sources(FS) /\ ~ has_int_msg[FS]
  BY <1>0, Processes DEF K!Sources, OnlyHdInformed
<1>4. pc' \in [Proc -> Label] /\ pc'[FS] = "return" /\ \A q \in Proc \ {FS} : pc'[q] = pc[q]
  BY <1>0, <1>2, <1>3, Jump DEF Label
<1>5. /\ K!IpcInv' /\ OnlyHdInformed' /\ has_int_msg'[HD] = has_int_msg[HD]
      /\ halted' = halted /\ Free(FS)
      /\ \/ /\ Sends(HD, FS) /\ Free(HD)' /\ Free(FS)' /\ StillBut({HD, FS})
         \/ Waits(FS, HD)' /\ StillBut({FS})
  <2>1. /\ K!IpcInv' /\ OnlyHdInformed' /\ has_int_msg'[HD] = has_int_msg[HD]
        /\ halted' = halted /\ Free(FS)
        /\ \/ \E e \in Proc \ {FS} : /\ Sends(e, FS) /\ HD \in {e, ANY}
                                     /\ Free(e)' /\ Free(FS)' /\ StillBut({e, FS})
           \/ Waits(FS, HD)' /\ StillBut({FS})
    BY <1>0, <1>1, <1>3, Receiving
  <2>2. HD # ANY
    BY Processes
  <2> QED BY <2>1, <2>2
<1>6. /\ StillBut({HD, FS}) /\ Still(SYS) /\ buf'[SYS] = buf[SYS]
      /\ pc'[SYS] = pc[SYS] /\ pc'[HD] = pc[HD]
  BY <1>4, <1>5, Processes DEF StillBut
<1>7. Shapes'
  BY <1>0, <1>2, <1>4, ShapesKept DEF Shapes
<1>8. elapsed \in Nat /\ elapsed' \in Nat /\ elapsed <= elapsed'
  BY <1>0, <1>2, HdAssumption DEF Shapes
<1>9. FsAt'
  <2>1. ClientAt(FS)'
    BY <1>4, <1>5, Processes DEF ClientAt
  <2>2. ~ Sends(FS, HD)'
    BY <1>5, StandingAfter DEF OneReason
  <2> QED BY <1>0, <1>2, <1>4, <2>1, <2>2 DEF FsAt, Conversation
<1>10. /\ HdAt' /\ (HdAsks' <=> HdAsks) /\ (Taken' <=> Taken)
       /\ (pc[HD] = "handle" /\ Free(HD))' <=> pc[HD] = "handle" /\ Free(HD)
  <2>1. CASE Sends(HD, FS) /\ Free(HD)'
    <3>1. pc[HD] = "receive"
      BY <1>0, <2>1, Standing, Processes DEF OneReason, Conversation, HdAt, HdIdle, HdHas, HdServes
    <3> QED BY <1>6, <2>1, <3>1 DEF HdAt, HdIdle, HdAsks, Taken
  <2>2. CASE Waits(FS, HD)' /\ StillBut({FS})
    <3>1. Still(HD) /\ buf'[HD] = buf[HD]
      BY <2>2, Processes DEF StillBut
    <3>2. Open(FS)'
      BY <1>4, <2>2, Processes DEF Open
    <3>3. HdAt' /\ (HdAsks' <=> HdAsks)
      BY <1>0, <1>2, <1>6, <1>8, <3>1, <3>2, HdKept DEF Conversation
    <3> QED BY <1>6, <3>1, <3>3, StillSame DEF Taken
  <2> QED BY <1>5, <2>1, <2>2
<1>11. Data' /\ Balance'
  <2>1. SameStage
    BY <1>6 DEF SameStage, InWaitfor, InIrq
  <2>2. Data'
    BY <1>0, <1>2, <1>5, <1>10, <2>1, DataKept DEF Running, Data
  <2>3. Unserved' <=> Unserved
    BY <1>5, <1>10, Standing, StandingAfter DEF OneReason, Unserved
  <2> QED BY <1>0, <1>2, <1>6, <2>2, <2>3, BalanceKept DEF Running, InWaitfor, InIrq
<1>12. \A p \in User : UserAt(p)' /\ (Open(p)' <=> Open(p))
  <2>1. \A p \in User : p \notin {HD, FS} => pc'[p] = pc[p]
    BY <1>4, Processes
  <2>2. \A p \in User : p \notin {HD, FS} => UserAt(p)' /\ (Open(p)' <=> Open(p))
    BY <1>0, <1>6, <2>1, UsersKept
  <2> QED BY <2>2, Processes
<1>13. SysAt'
  <2>1. \A p \in Proc : Asks(p) => Asks(p)'
    BY <1>10, <1>12 DEF Asks
  <2> QED BY <1>0, <1>6, <1>8, <2>1, SysKept DEF Conversation
<1>14. Conversation'
  BY <1>9, <1>10, <1>12, <1>13 DEF Conversation
<1> QED BY <1>0, <1>5, <1>7, <1>11, <1>14 DEF Runs, Running, Data

\* The answer to a user.
LEMMA UserReceiveKeeps ==
    ASSUME Runs, NEW u \in User, ClientReceive(u)
    PROVE  Runs'
<1>0. K!IpcInv /\ Running /\ Shapes /\ OnlyHdInformed /\ Conversation /\ halted = "no"
  BY DEF Runs, Running
<1>1. Kernel!Receive(u, SYS)
  BY Processes DEF ClientReceive
<1>2. /\ pc[u] = "receive" /\ Goto(u, "return")
      /\ UNCHANGED <<opened, asked, elapsed, ctl, irq, hd, part, hd_info>>
  BY DEF ClientReceive, At, client, device
<1>3. u \in Proc /\ SYS \in K!Sources(u) /\ ~ has_int_msg[u] /\ u # HD /\ u # FS /\ u # SYS
  BY <1>0, Processes DEF K!Sources, OnlyHdInformed
<1>4. pc' \in [Proc -> Label] /\ pc'[u] = "return" /\ \A q \in Proc \ {u} : pc'[q] = pc[q]
  BY <1>0, <1>2, <1>3, Jump DEF Label
<1>5. /\ K!IpcInv' /\ OnlyHdInformed' /\ has_int_msg'[HD] = has_int_msg[HD]
      /\ halted' = halted /\ Free(u)
      /\ \/ /\ Sends(SYS, u) /\ Free(SYS)' /\ Free(u)' /\ StillBut({SYS, u})
         \/ Waits(u, SYS)' /\ StillBut({u})
  <2>1. /\ K!IpcInv' /\ OnlyHdInformed' /\ has_int_msg'[HD] = has_int_msg[HD]
        /\ halted' = halted /\ Free(u)
        /\ \/ \E e \in Proc \ {u} : /\ Sends(e, u) /\ SYS \in {e, ANY}
                                    /\ Free(e)' /\ Free(u)' /\ StillBut({e, u})
           \/ Waits(u, SYS)' /\ StillBut({u})
    BY <1>0, <1>1, <1>3, Receiving
  <2>2. SYS # ANY
    BY Processes
  <2> QED BY <2>1, <2>2
<1>6. /\ StillBut({SYS, u}) /\ pc'[SYS] = pc[SYS]
      /\ Still(HD) /\ buf'[HD] = buf[HD] /\ pc'[HD] = pc[HD]
      /\ Still(FS) /\ buf'[FS] = buf[FS] /\ pc'[FS] = pc[FS]
  BY <1>3, <1>4, <1>5, Processes DEF StillBut
<1>7. Shapes'
  BY <1>0, <1>2, <1>4, ShapesKept DEF Shapes
<1>8. elapsed \in Nat /\ elapsed' \in Nat /\ elapsed <= elapsed'
  BY <1>0, <1>2, HdAssumption DEF Shapes
<1>9. Data' /\ Balance'
  <2>1. Data'
    BY <1>0, <1>2, <1>5, <1>6, HdAway
  <2>2. Unserved' <=> Unserved
    BY <1>6, StillSame DEF Unserved
  <2> QED BY <1>0, <1>2, <1>6, <2>1, <2>2, BalanceKept DEF Running, InWaitfor, InIrq
<1>10. FsAt' /\ (Open(FS)' <=> Open(FS))
  BY <1>0, <1>2, <1>6, FsKept DEF Conversation
<1>11. HdAt' /\ (HdAsks' <=> HdAsks)
  BY <1>0, <1>2, <1>6, <1>8, <1>10, HdKept DEF Conversation
<1>12. \A p \in User : p # u => UserAt(p)' /\ (Open(p)' <=> Open(p))
  <2>1. \A p \in User : p \notin {SYS, u} => pc'[p] = pc[p]
    BY <1>4, Processes
  <2>2. \A p \in User : p \notin {SYS, u} => UserAt(p)' /\ (Open(p)' <=> Open(p))
    BY <1>0, <1>6, <2>1, UsersKept
  <2> QED BY <2>2, Processes
<1>13. UserAt(u)'
  <2>1. ClientAt(u)'
    BY <1>4, <1>5, Processes DEF ClientAt
  <2>2. ~ Sends(u, SYS)'
    BY <1>5, StandingAfter DEF OneReason
  <2> QED BY <2>1, <2>2 DEF UserAt
<1>14. SysAt'
  <2>1. CASE Sends(SYS, u) /\ Free(SYS)'
    <3>1. pc[SYS] = "receive"
      BY <1>0, <2>1, Standing DEF OneReason, Conversation, SysAt
    <3> QED BY <1>6, <2>1, <3>1 DEF SysAt
  <2>2. CASE Waits(u, SYS)' /\ StillBut({u})
    <3>1. Still(SYS) /\ buf'[SYS] = buf[SYS]
      BY <1>3, <2>2, Processes DEF StillBut
    <3>2. Asks(u)'
      BY <1>4, <2>2, Processes DEF Asks, Open
    <3>3. \A p \in Proc : Asks(p) => Asks(p)'
      BY <1>11, <1>12, <3>2 DEF Asks
    <3> QED BY <1>0, <1>6, <1>8, <3>1, <3>3, SysKept DEF Conversation
  <2> QED BY <1>5, <2>1, <2>2
<1>15. Conversation'
  BY <1>10, <1>11, <1>12, <1>13, <1>14 DEF Conversation
<1> QED BY <1>0, <1>5, <1>7, <1>9, <1>15 DEF Runs, Running, Data

\* The end of a call.
LEMMA ClientReturnKeeps ==
    ASSUME Runs, NEW p \in Client, ClientReturn(p)
    PROVE  Runs'
<1>0. K!IpcInv /\ Running /\ Shapes /\ OnlyHdInformed /\ Conversation /\ halted = "no"
  BY DEF Runs, Running
<1>2. /\ pc[p] = "return" /\ Goto(p, "run") /\ Free(p)
      /\ buf' = [buf EXCEPT ![p] = [source |-> p, type |-> Plain("SYSCALL_RET")]]
      /\ asked' = IF p = FS THEN Plain("none") ELSE asked
      /\ UNCHANGED <<flags, p_msg, recv_from, send_to, has_int_msg, q_sending, halted>>
      /\ UNCHANGED <<opened, elapsed, ctl, irq, hd, part, hd_info>>
  BY SameCalls DEF ClientReturn, At, device
<1>3. p \in Proc /\ p # HD /\ p # SYS
  BY Processes DEF Client
<1>4. pc' \in [Proc -> Label] /\ pc'[p] = "run" /\ \A q \in Proc \ {p} : pc'[q] = pc[q]
  BY <1>0, <1>2, <1>3, Jump DEF Label
<1>5. buf \in [Proc -> K!Message]
  BY <1>0 DEF K!IpcInv, K!TypeOK
<1>6. K!IpcInv' /\ OnlyHdInformed'
  <2>1. [source |-> p, type |-> Plain("SYSCALL_RET")] \in K!Message
    BY <1>3 DEF K!Message, Type
  <2>2. buf' \in [Proc -> K!Message]
    BY <1>2, <1>5, <2>1
  <2> QED BY <1>0, <1>2, <2>2, Rewritten DEF OnlyHdInformed
<1>7. (\A q : Still(q)) /\ StillBut({p})
  <2>1. \A q : Still(q)
    BY <1>2, AllStill
  <2>2. \A q \in Proc \ {p} : buf'[q] = buf[q]
    BY <1>2, <1>5
  <2> QED BY <2>1, <2>2 DEF StillBut
<1>8. /\ buf'[HD] = buf[HD] /\ pc'[HD] = pc[HD] /\ buf'[SYS] = buf[SYS] /\ pc'[SYS] = pc[SYS]
      /\ p # FS => buf'[FS] = buf[FS] /\ pc'[FS] = pc[FS]
  BY <1>3, <1>4, <1>7, Processes DEF StillBut
<1>9. Shapes'
  <2>1. asked' \in Request \cup {Plain("none")}
    BY <1>0, <1>2 DEF Shapes
  <2> QED BY <1>0, <1>2, <1>4, <2>1 DEF Shapes
<1>10. elapsed \in Nat /\ elapsed' \in Nat /\ elapsed <= elapsed'
  BY <1>0, <1>2, HdAssumption DEF Shapes
<1>11. Data'
  BY <1>0, <1>2, <1>7, <1>8, HdAway
<1>12. ~ Open(p) /\ (\A d : ~ Sends(p, d)) /\ Free(p)'
  BY <1>2, <1>7, Standing, StillSame DEF OneReason, Open
<1>13. ClientAt(p)' /\ \A d : ~ Sends(p, d)'
  BY <1>4, <1>12, StandingAfter DEF OneReason, ClientAt
<1>14. FsAt' /\ (p # FS => (Open(FS)' <=> Open(FS)) /\ asked' = asked)
  <2>1. CASE p = FS
    BY <1>2, <1>4, <1>13, <2>1 DEF FsAt
  <2>2. CASE p # FS
    BY <1>0, <1>2, <1>7, <1>8, <2>2, FsKept DEF Conversation
  <2> QED BY <2>1, <2>2
<1>15. HdAt' /\ (HdAsks' <=> HdAsks)
  <2>1. p = FS => ~ Open(FS)
    BY <1>12
  <2>2. CASE p = FS
    <3>1. HdIdle'
      BY <1>0, <1>7, <1>8, <2>1, <2>2, StillSame DEF Conversation, HdAt, HdIdle
    <3>2. HdAsks' <=> HdAsks
      BY <1>7, <1>8, StillSame DEF HdAsks
    <3> QED BY <3>1, <3>2 DEF HdAt
  <2>3. CASE p # FS
    BY <1>0, <1>2, <1>7, <1>8, <1>10, <1>14, <2>3, HdKept DEF Conversation
  <2> QED BY <2>2, <2>3
<1>16. \A q \in User : q # p => UserAt(q)' /\ (Open(q)' <=> Open(q))
  <2>1. \A q \in User : q \notin {p} => pc'[q] = pc[q]
    BY <1>4, Processes
  <2>2. \A q \in User : q \notin {p} => UserAt(q)' /\ (Open(q)' <=> Open(q))
    BY <1>0, <1>7, <2>1, UsersKept
  <2> QED BY <2>2
<1>17. \A q \in User : UserAt(q)'
  BY <1>13, <1>16 DEF UserAt
<1>18. SysAt'
  <2>1. ~ Asks(p)
    BY <1>3, <1>12 DEF Asks
  <2>2. \A q \in Proc : Asks(q) => Asks(q)'
    BY <1>15, <1>16, <2>1 DEF Asks
  <2> QED BY <1>0, <1>7, <1>8, <1>10, <2>2, SysKept DEF Conversation
<1>19. Balance'
  <2>1. Unserved' <=> Unserved
    BY <1>7, <1>8, StillSame DEF Unserved
  <2>2. CASE p # FS
    BY <1>0, <1>2, <1>8, <2>1, <2>2, BalanceKept DEF Running, InWaitfor, InIrq
  <2>3. CASE p = FS
    <3>1. HdIdle
      BY <1>0, <1>12, <2>3 DEF Conversation, HdAt
    <3>2. ~ Unserved /\ ~ InWaitfor /\ ~ InIrq
      BY <1>12, <2>3, <3>1, Standing DEF OneReason, HdIdle, Unserved, InWaitfor, InIrq
    <3>3. opened = hd_info.open_cnt
      BY <1>0, <3>2 DEF Running, Balance, Opening, Closing
    <3>4. asked'.type = "none"
      BY <1>2, <2>3 DEF Plain, Msg
    <3> QED BY <1>2, <3>3, <3>4 DEF Balance, Opening, Closing
  <2> QED BY <2>2, <2>3
<1>20. Conversation'
  BY <1>14, <1>15, <1>17, <1>18 DEF Conversation
<1> QED BY <1>0, <1>2, <1>6, <1>9, <1>11, <1>19, <1>20 DEF Runs, Running, Data

\* A tick.
LEMMA TickKeeps ==
    ASSUME Runs, Tick
    PROVE  Runs'
<1>0. K!IpcInv /\ Running /\ Shapes /\ OnlyHdInformed /\ Conversation /\ halted = "no"
  BY DEF Runs, Running
<1>1. /\ elapsed < HD_TIMEOUT /\ elapsed' = elapsed + 1
      /\ UNCHANGED <<flags, p_msg, recv_from, send_to, has_int_msg, q_sending, buf, halted>>
      /\ UNCHANGED <<pc, opened, asked, ctl, irq, hd, part, hd_info>>
  BY DEF Tick, ipcVars, client, device
<1>2. K!IpcInv'
  BY <1>0, <1>1, KernelStep DEF ipcVars
<1>3. (\A q : Still(q)) /\ StillBut({})
  <2>1. \A q : Still(q)
    BY <1>1, AllStill
  <2> QED BY <1>1, <2>1 DEF StillBut
<1>4. elapsed \in Nat /\ elapsed' \in Nat /\ elapsed <= elapsed' /\ elapsed' \in 0 .. HD_TIMEOUT
  BY <1>0, <1>1, HdAssumption DEF Shapes
<1>5. Shapes' /\ OnlyHdInformed'
  BY <1>0, <1>1, <1>4 DEF Shapes, OnlyHdInformed
<1>6. Data'
  BY <1>0, <1>1, <1>3, HdAway
<1>7. Unserved' <=> Unserved
  BY <1>1, <1>3, StillSame DEF Unserved
<1>8. Balance'
  BY <1>0, <1>1, <1>7, BalanceKept DEF Running, InWaitfor, InIrq
<1>9. FsAt' /\ (Open(FS)' <=> Open(FS))
  BY <1>0, <1>1, <1>3, FsKept DEF Conversation
<1>10. HdAt' /\ (HdAsks' <=> HdAsks)
  BY <1>0, <1>1, <1>3, <1>4, <1>9, HdKept DEF Conversation
<1>11. \A q \in User : UserAt(q)' /\ (Open(q)' <=> Open(q))
  <2>1. \A q \in User : q \notin {} => UserAt(q)' /\ (Open(q)' <=> Open(q))
    BY <1>0, <1>1, <1>3, UsersKept
  <2> QED BY <2>1
<1>12. SysAt'
  <2>1. \A q \in Proc : Asks(q) => Asks(q)'
    BY <1>10, <1>11 DEF Asks
  <2> QED BY <1>0, <1>1, <1>3, <1>4, <2>1, SysKept DEF Conversation
<1>13. Conversation'
  BY <1>9, <1>10, <1>11, <1>12 DEF Conversation
<1> QED BY <1>0, <1>1, <1>2, <1>5, <1>6, <1>8, <1>13 DEF Runs, Running, Data

\* SYS takes a question.
LEMMA SysReceiveKeeps ==
    ASSUME Runs, SysReceive
    PROVE  Runs'
<1>0. K!IpcInv /\ Running /\ Shapes /\ OnlyHdInformed /\ Conversation /\ halted = "no"
  BY DEF Runs, Running
<1>1. Kernel!Receive(SYS, ANY)
  BY DEF SysReceive
<1>2. /\ pc[SYS] = "receive" /\ Goto(SYS, "answer")
      /\ UNCHANGED <<opened, asked, elapsed, ctl, irq, hd, part, hd_info>>
  BY DEF SysReceive, At, client, device
<1>3. SYS \in Proc /\ ANY \in K!Sources(SYS) /\ ~ has_int_msg[SYS]
  BY <1>0, Processes DEF K!Sources, OnlyHdInformed
<1>4. pc' \in [Proc -> Label] /\ pc'[SYS] = "answer" /\ \A q \in Proc \ {SYS} : pc'[q] = pc[q]
  BY <1>0, <1>2, <1>3, Jump DEF Label
<1>5. /\ K!IpcInv' /\ OnlyHdInformed' /\ has_int_msg'[HD] = has_int_msg[HD]
      /\ halted' = halted
      /\ \/ \E e \in Proc \ {SYS} :
               /\ Sends(e, SYS) /\ Free(e)' /\ Free(SYS)' /\ buf'[SYS] = buf[e] /\ buf'[e] = buf[e]
               /\ StillBut({e, SYS})
         \/ Waits(SYS, ANY)' /\ StillBut({SYS})
  BY <1>0, <1>1, <1>3, Receiving
<1>6. Shapes'
  BY <1>0, <1>2, <1>4, ShapesKept DEF Shapes
<1>7. elapsed \in Nat /\ elapsed' \in Nat /\ elapsed <= elapsed'
  BY <1>0, <1>2, HdAssumption DEF Shapes
<1>8. CASE Waits(SYS, ANY)' /\ StillBut({SYS})
  <2>1. /\ Still(HD) /\ buf'[HD] = buf[HD] /\ pc'[HD] = pc[HD]
        /\ Still(FS) /\ buf'[FS] = buf[FS] /\ pc'[FS] = pc[FS]
    BY <1>4, <1>8, Processes DEF StillBut
  <2>2. Data'
    BY <1>0, <1>2, <1>5, <2>1, HdAway
  <2>3. Unserved' <=> Unserved
    BY <2>1, StillSame DEF Unserved
  <2>4. Balance'
    BY <1>0, <1>2, <2>1, <2>3, BalanceKept DEF Running, InWaitfor, InIrq
  <2>5. FsAt' /\ (Open(FS)' <=> Open(FS))
    BY <1>0, <1>2, <2>1, FsKept DEF Conversation
  <2>6. HdAt'
    BY <1>0, <1>2, <1>7, <2>1, <2>5, HdKept DEF Conversation
  <2>7. \A p \in User : UserAt(p)'
    <3>1. \A p \in User : p \notin {SYS} => pc'[p] = pc[p]
      BY <1>4, Processes
    <3>2. \A p \in User : p \notin {SYS} => UserAt(p)' /\ (Open(p)' <=> Open(p))
      BY <1>0, <1>8, <3>1, UsersKept
    <3> QED BY <3>2, Processes
  <2>8. SysAt'
    BY <1>4, <1>8 DEF SysAt
  <2> QED BY <1>0, <1>5, <1>6, <2>2, <2>4, <2>5, <2>6, <2>7, <2>8 DEF Runs, Running, Data, Conversation
<1>9. ASSUME NEW e \in Proc \ {SYS},
             Sends(e, SYS), Free(e)', Free(SYS)', buf'[SYS] = buf[e], buf'[e] = buf[e], StillBut({e, SYS})
      PROVE  Runs'
  <2>1. e # FS /\ /\ Still(FS) /\ buf'[FS] = buf[FS] /\ pc'[FS] = pc[FS]
    <3>1. e # FS
      BY <1>0, <1>9, Standing, Processes DEF OneReason, Conversation, FsAt, ClientAt
    <3> QED BY <1>4, <1>9, <3>1, Processes DEF StillBut
  <2>2. pc'[HD] = pc[HD] /\ buf'[HD] = buf[HD] /\ (e # HD => Still(HD))
    BY <1>4, <1>9, Processes DEF StillBut
  <2>3. FsAt' /\ (Open(FS)' <=> Open(FS))
    BY <1>0, <1>2, <2>1, FsKept DEF Conversation
  <2>4. e = HD => pc[HD] = "time" /\ HdServes /\ Open(FS) /\ buf[HD].source = HD /\ buf[HD].type = Plain("GET_TICKS")
    BY <1>0, <1>9, Standing, Processes DEF OneReason, Conversation, HdAt, HdIdle, HdHas, HdServes
  <2>5. HdAt' /\ (e = HD => HdAsks')
    <3>1. CASE e = HD
      <4>1. HdServes'
        BY <1>2, <1>9, <2>2, <2>4, <3>1 DEF HdServes
      <4> QED BY <1>9, <2>2, <2>3, <2>4, <3>1, <4>1 DEF HdAt, HdAsks
    <3>2. CASE e # HD
      BY <1>0, <1>2, <1>7, <2>2, <2>3, <3>2, HdKept DEF Conversation
    <3> QED BY <3>1, <3>2
  <2>6. (Taken' <=> Taken) /\ SameStage
    <3>1. e = HD => ~ Taken /\ ~ Taken'
      BY <2>2, <2>4 DEF Taken
    <3>2. e # HD => (Taken' <=> Taken)
      BY <2>2, StillSame DEF Taken
    <3> QED BY <2>2, <3>1, <3>2 DEF SameStage, InWaitfor, InIrq
  <2>7. Data'
    BY <1>0, <1>2, <1>5, <2>6, DataKept DEF Running, Data
  <2>8. Unserved' <=> Unserved
    <3>1. Sends(FS, HD)' <=> Sends(FS, HD)
      BY <2>1, StillSame
    <3>2. e = HD => pc[HD] # "handle"
      BY <2>4
    <3>3. e # HD => (Free(HD)' <=> Free(HD))
      BY <2>2, StillSame
    <3> QED BY <2>2, <3>1, <3>2, <3>3 DEF Unserved
  <2>9. Balance'
    BY <1>0, <1>2, <2>2, <2>8, BalanceKept DEF Running, InWaitfor, InIrq
  <2>10. \A p \in User : p # e => UserAt(p)'
    <3>1. \A p \in User : p \notin {e, SYS} => pc'[p] = pc[p]
      BY <1>4, Processes
    <3>2. \A p \in User : p \notin {e, SYS} => UserAt(p)' /\ (Open(p)' <=> Open(p))
      BY <1>0, <1>9, <3>1, UsersKept
    <3> QED BY <3>2, Processes
  <2>11. e \in User =>
           /\ pc[e] = "receive" /\ pc'[e] = "receive" /\ buf[e].source = e /\ buf[e].type \in Question
    BY <1>0, <1>4, <1>9, Standing, Processes DEF OneReason, Conversation, UserAt, ClientAt
  <2>12. e \in User => UserAt(e)'
    <3>1. e \in User => ClientAt(e)'
      BY <1>9, <2>11 DEF ClientAt
    <3> QED BY <1>9, <2>11, <3>1 DEF UserAt
  <2>13. Asks(e)'
    <3>1. e \in User => Open(e)'
      BY <1>9, <2>11 DEF Open
    <3> QED BY <2>1, <2>5, <3>1, Processes DEF Asks, Proc
  <2>14. SysHas(e)'
    <3>1. e = HD \/ e \in User
      BY <2>1 DEF Proc
    <3>2. buf'[SYS].source = e /\ buf'[SYS].type \in Question
      BY <1>9, <2>4, <2>11, <3>1 DEF Question
    <3>3. e = HD => buf'[SYS].type = Plain("GET_TICKS")
      BY <1>9, <2>4
    <3> QED BY <2>13, <3>2, <3>3 DEF SysHas
  <2>15. SysAt'
    BY <1>4, <1>9, <2>14 DEF SysAt
  <2>16. Conversation'
    BY <2>3, <2>5, <2>10, <2>12, <2>15 DEF Conversation
  <2> QED BY <1>0, <1>5, <1>6, <2>7, <2>9, <2>16 DEF Runs, Running, Data
<1> QED BY <1>5, <1>8, <1>9

\* SYS answers; the time it tells HD has not passed yet.
LEMMA SysAnswerKeeps ==
    ASSUME Runs, SysAnswer
    PROVE  Runs'
<1>0. K!IpcInv /\ Running /\ Shapes /\ OnlyHdInformed /\ Conversation /\ halted = "no"
  BY DEF Runs, Running
<1>1. Free(SYS) /\ pc[SYS] = "answer"
  BY SameCalls DEF SysAnswer, At
<1>2. PICK p \in Proc : SysHas(p)
  BY <1>0, <1>1, Standing DEF OneReason, Conversation, SysAt
<1>3. p \in Proc \ {SYS} /\ p # FS /\ buf[SYS].source = p /\ (p = HD \/ p \in User)
  BY <1>2, Processes DEF SysHas, Asks
<1>b. elapsed \in Int /\ 0 <= elapsed /\ elapsed <= HD_TIMEOUT /\ HD_TIMEOUT \in Nat
  BY <1>0, HdAssumption DEF Shapes
<1>4. PICK t \in Type : /\ Kernel!Send(SYS, p, t)
                        /\ p = HD => t.cnt \in 0 .. elapsed' /\ elapsed' \in 0 .. HD_TIMEOUT
                        /\ p # HD => elapsed' = elapsed
  <2> DEFINE now == IF p = HD /\ hd.t_read THEN elapsed ELSE 0
  <2>1. now \in 0 .. HD_TIMEOUT
    BY <1>b
  <2>2. Msg("GET_TICKS", 0, 0, now) \in Type /\ Plain("SYSCALL_RET") \in Type
    BY <2>1 DEF Type
  <2>3. Msg("GET_TICKS", 0, 0, now).cnt = now
    BY DEF Msg
  <2>4. CASE buf[SYS].type.type = "GET_TICKS"
    <3>1. Kernel!Send(SYS, p, Msg("GET_TICKS", 0, 0, now)) /\ elapsed' = IF p = HD THEN now ELSE elapsed
      BY <1>3, <2>4 DEF SysAnswer
    <3>2. now \in 0 .. now
      BY <2>1, <1>b
    <3> HIDE DEF now
    <3> QED BY <2>1, <2>2, <2>3, <3>1, <3>2
  <2>5. CASE buf[SYS].type.type # "GET_TICKS"
    <3>1. p # HD
      BY <1>2, <2>5 DEF SysHas, Plain, Msg
    <3>2. Kernel!Send(SYS, p, Plain("SYSCALL_RET")) /\ elapsed' = elapsed
      BY <1>3, <2>5 DEF SysAnswer
    <3> QED BY <2>2, <3>1, <3>2
  <2> QED BY <2>4, <2>5
<1>5. /\ Goto(SYS, "receive")
      /\ UNCHANGED <<opened, asked, ctl, irq, hd, part, hd_info>>
  BY DEF SysAnswer, client, device
<1>6. pc' \in [Proc -> Label] /\ pc'[SYS] = "receive" /\ \A q \in Proc \ {SYS} : pc'[q] = pc[q]
  BY <1>0, <1>5, Processes, Jump DEF Label
<1>7. Asks(p) /\ \A f : ~ Sends(p, f)
  BY <1>2, Standing DEF OneReason, SysHas, Asks, HdAsks, Open
<1>8. ~ K!Deadlock(SYS, p)
  BY <1>0, <1>3, <1>7, Chain, Processes
<1>9. /\ K!IpcInv' /\ OnlyHdInformed' /\ has_int_msg'[HD] = has_int_msg[HD]
      /\ buf'[SYS].source = SYS /\ buf'[SYS].type = t
      /\ StillBut({SYS, p}) /\ halted' = halted
      /\ \/ Expects(p, SYS) /\ Free(SYS)' /\ Free(p)' /\ buf'[p] = buf'[SYS]
         \/ ~ Expects(p, SYS) /\ Sends(SYS, p)' /\ Still(p) /\ buf'[p] = buf[p]
  <2>1. SYS \in Proc /\ p \in Proc \ {SYS} /\ t \in Type /\ Kernel!Send(SYS, p, t)
    BY <1>3, <1>4, Processes
  <2>2. /\ K!IpcInv' /\ OnlyHdInformed' /\ has_int_msg'[HD] = has_int_msg[HD]
        /\ buf'[SYS].source = SYS /\ buf'[SYS].type = t
        /\ StillBut({SYS, p})
        /\ \/ K!Deadlock(SYS, p)
           \/ /\ halted' = halted /\ Expects(p, SYS)
              /\ Free(SYS)' /\ Free(p)' /\ buf'[p] = buf'[SYS]
           \/ /\ halted' = halted /\ ~ Expects(p, SYS)
              /\ Sends(SYS, p)' /\ Still(p) /\ buf'[p] = buf[p]
    BY <1>0, <2>1, Sending
  <2> QED BY <1>8, <2>2
<1>10. /\ Still(FS) /\ buf'[FS] = buf[FS] /\ pc'[FS] = pc[FS] /\ pc'[p] = pc[p]
       /\ pc'[HD] = pc[HD]
       /\ p # HD => Still(HD) /\ buf'[HD] = buf[HD]
  BY <1>3, <1>6, <1>9, Processes DEF StillBut
<1>11. Shapes'
  <2>1. elapsed' \in 0 .. HD_TIMEOUT
    BY <1>0, <1>3, <1>4 DEF Shapes
  <2> QED BY <1>0, <1>5, <1>6, <2>1, ShapesKept
<1>12. FsAt' /\ (Open(FS)' <=> Open(FS))
  BY <1>0, <1>5, <1>10, FsKept DEF Conversation
<1>13. p = HD => HdServes /\ Open(FS) /\ HdAsks
  BY <1>0, <1>7, Standing, Processes DEF OneReason, Asks, HdAsks, Conversation, HdAt, HdIdle, HdHas
<1>14. p = HD => /\ HdAt' /\ ~ Taken /\ ~ Taken'
                 /\ pc[HD] # "handle"
                 /\ Sends(SYS, p)' => HdAsks'
  <2> SUFFICES ASSUME p = HD
               PROVE  HdAt' /\ ~ Taken /\ ~ Taken' /\ pc[HD] # "handle" /\ (Sends(SYS, p)' => HdAsks')
    OBVIOUS
  <2>1. CASE Expects(HD, SYS) /\ Free(SYS)' /\ Free(HD)' /\ buf'[HD] = buf'[SYS]
    <3>1. pc[HD] = "poll"
      BY <1>13, <2>1, Standing DEF OneReason, Expects, HdAsks
    <3>2. Told(buf[HD])'
      BY <1>4, <1>9, <2>1 DEF Told
    <3>3. HdServes'
      BY <1>5, <1>10, <1>13, <2>1, <3>1, <3>2 DEF HdServes
    <3>4. ~ Sends(SYS, p)'
      BY <2>1, StandingAfter DEF OneReason
    <3> QED BY <1>10, <1>12, <1>13, <3>1, <3>3, <3>4 DEF HdAt, Taken
  <2>2. CASE ~ Expects(HD, SYS) /\ Sends(SYS, HD)' /\ Still(HD) /\ buf'[HD] = buf[HD]
    <3>1. pc[HD] = "time" /\ Free(HD)
      BY <1>13, <2>2 DEF HdAsks, Expects
    <3>2. HdServes'
      BY <1>5, <1>10, <1>13, <2>2, <3>1, StillSame DEF HdServes
    <3> QED BY <1>10, <1>12, <1>13, <2>2, <3>1, <3>2, StillSame DEF HdAt, Taken, HdAsks
  <2> QED BY <1>9, <2>1, <2>2
<1>15. p # HD => HdAt' /\ (HdAsks' <=> HdAsks) /\ (Taken' <=> Taken) /\ (Free(HD)' <=> Free(HD))
  <2> SUFFICES ASSUME p # HD
               PROVE  HdAt' /\ (HdAsks' <=> HdAsks) /\ (Taken' <=> Taken) /\ (Free(HD)' <=> Free(HD))
    OBVIOUS
  <2>1. elapsed \in Nat /\ elapsed' \in Nat /\ elapsed <= elapsed'
    BY <1>4, <1>b
  <2>2. HdAt' /\ (HdAsks' <=> HdAsks)
    BY <1>0, <1>5, <1>10, <1>12, <2>1, HdKept DEF Conversation
  <2> QED BY <1>10, <2>2, StillSame DEF Taken
<1>16. Data' /\ Balance'
  <2>1. SameStage
    BY <1>10 DEF SameStage, InWaitfor, InIrq
  <2>2. Data'
    BY <1>0, <1>5, <1>9, <1>14, <1>15, <2>1, DataKept DEF Running, Data
  <2>3. Sends(FS, HD)' <=> Sends(FS, HD)
    BY <1>10, StillSame
  <2>4. Unserved' <=> Unserved
    BY <1>10, <1>14, <1>15, <2>3 DEF Unserved
  <2> QED BY <1>0, <1>5, <1>10, <2>2, <2>4, BalanceKept DEF Running, InWaitfor, InIrq
<1>17. \A q \in User : q # p => UserAt(q)'
  <2>1. \A q \in User : q \notin {SYS, p} => pc'[q] = pc[q]
    BY <1>6, Processes
  <2>2. \A q \in User : q \notin {SYS, p} => UserAt(q)' /\ (Open(q)' <=> Open(q))
    BY <1>0, <1>9, <2>1, UsersKept
  <2> QED BY <2>2, Processes
<1>18. p \in User => UserAt(p)' /\ (Sends(SYS, p)' => Open(p)')
  <2> SUFFICES ASSUME p \in User PROVE UserAt(p)' /\ (Sends(SYS, p)' => Open(p)')
    OBVIOUS
  <2>1. Open(p) /\ p # HD /\ ServerOf(p) = SYS
    BY <1>7, Processes DEF Asks
  <2>2. CASE Expects(p, SYS) /\ Free(SYS)' /\ Free(p)'
    <3>1. pc[p] = "return"
      BY <2>1, <2>2, Standing DEF OneReason, Open, Expects
    <3>2. ClientAt(p)' /\ ~ Sends(p, SYS)' /\ ~ Sends(SYS, p)'
      BY <1>10, <2>2, <3>1, StandingAfter DEF OneReason, ClientAt
    <3> QED BY <3>2 DEF UserAt
  <2>3. CASE ~ Expects(p, SYS) /\ Still(p) /\ buf'[p] = buf[p]
    <3>1. UserAt(p)
      BY <1>0 DEF Conversation
    <3> QED BY <1>10, <2>1, <2>3, <3>1, ClientKept, StillSame DEF UserAt
  <2> QED BY <1>9, <2>2, <2>3
<1>19. SysAt'
  <2>1. CASE Free(SYS)'
    BY <1>6, <2>1 DEF SysAt
  <2>2. CASE Sends(SYS, p)'
    <3>1. Asks(p)'
      BY <1>3, <1>14, <1>18, <2>2 DEF Asks
    <3>2. p = HD => Told(buf[SYS])'
      BY <1>4, <1>9 DEF Told
    <3>3. SysAnswers(p)'
      BY <2>2, <3>1, <3>2 DEF SysAnswers
    <3> QED BY <1>6, <3>3 DEF SysAt
  <2> QED BY <1>9, <2>1, <2>2
<1>20. Conversation'
  BY <1>12, <1>14, <1>15, <1>17, <1>18, <1>19 DEF Conversation
<1> QED BY <1>0, <1>9, <1>11, <1>16, <1>20 DEF Runs, Running, Data

\* A step that does not change where the driver is keeps what is known of its
\* request and of the tables.
LEMMA WorkKept ==
    ASSUME JobAt, PartAt, UNCHANGED <<hd, part, hd_info>>, SameStage
    PROVE  JobAt' /\ PartAt'
<1>1. JobAt'
  <2>1. Moving => Moving'
    BY DEF Moving, Moved, Uncounted, Sectors, First, SameStage
  <2> QED BY <2>1 DEF JobAt, SameStage
<1>2. PartAt'
  <2>1. AtTable => AtTable'
    BY DEF AtTable, KnownTo, PrimaryKnown, LogicalKnown
  <2>2. AllKnown => AllKnown'
    BY DEF AllKnown, KnownTo, PrimaryKnown, LogicalKnown
  <2>3. ReadsTables' <=> ReadsTables
    BY DEF ReadsTables, SameStage
  <2> QED BY <2>1, <2>2, <2>3 DEF PartAt
<1> QED BY <1>1, <1>2

\* What stands still when only HD, and perhaps SYS, is in a call.
LEMMA ClientsKept ==
    ASSUME Runs, NEW S, StillBut(S), S \subseteq {HD, SYS}, asked' = asked,
           \A q \in Proc \ {HD} : pc'[q] = pc[q]
    PROVE  /\ \A p \in User : UserAt(p)' /\ (Open(p)' <=> Open(p))
           /\ FsAt' /\ (Open(FS)' <=> Open(FS)) /\ (Sends(FS, HD)' <=> Sends(FS, HD))
<1>0. Conversation
  BY DEF Runs, Running
<1>1. \A p \in User : p \notin S /\ pc'[p] = pc[p]
  BY Processes
<1>2. \A p \in User : UserAt(p)' /\ (Open(p)' <=> Open(p))
  <2>1. \A p \in User : p \notin S => UserAt(p)' /\ (Open(p)' <=> Open(p))
    BY <1>0, <1>1, UsersKept
  <2> QED BY <1>1, <2>1
<1>3. Still(FS) /\ buf'[FS] = buf[FS] /\ pc'[FS] = pc[FS]
  BY Processes DEF StillBut
<1> QED BY <1>0, <1>2, <1>3, FsKept, StillSame DEF Conversation

\* The main loop's RECEIVE.
LEMMA HdReceiveKeeps ==
    ASSUME Runs, HdReceive
    PROVE  Runs'
<1>0. K!IpcInv /\ Running /\ Shapes /\ OnlyHdInformed /\ Conversation /\ halted = "no"
  BY DEF Runs, Running
<1>1. Kernel!Receive(HD, ANY)
  BY DEF HdReceive
<1>2. /\ pc[HD] = "receive" /\ Goto(HD, "handle") /\ Free(HD)
      /\ UNCHANGED <<opened, asked, elapsed, ctl, irq, hd, part, hd_info>>
  BY SameCalls DEF HdReceive, HdOnly, At, client, device
<1>3. HD \in Proc /\ ANY \in K!Sources(HD)
  BY Processes DEF K!Sources
<1>4. pc' \in [Proc -> Label] /\ pc'[HD] = "handle" /\ \A q \in Proc \ {HD} : pc'[q] = pc[q]
  BY <1>0, <1>2, <1>3, Jump DEF Label
<1>5. ~ has_int_msg[HD]
  BY <1>0, <1>2 DEF Running, DriveAt, Unissued, Wanting, Reads, Writes, Quiet, InWaitfor, InIrq
<1>6. /\ K!IpcInv' /\ OnlyHdInformed' /\ has_int_msg'[HD] = has_int_msg[HD]
      /\ halted' = halted
      /\ \/ \E e \in Proc \ {HD} :
               /\ Sends(e, HD) /\ Free(e)' /\ Free(HD)' /\ buf'[HD] = buf[e] /\ buf'[e] = buf[e]
               /\ StillBut({e, HD})
         \/ /\ \A e \in Proc : ~ Sends(e, HD)
            /\ Waits(HD, ANY)' /\ StillBut({HD})
  <2>1. /\ K!IpcInv' /\ OnlyHdInformed' /\ has_int_msg'[HD] = has_int_msg[HD]
        /\ halted' = halted
        /\ \/ \E e \in Proc \ {HD} :
                 /\ Sends(e, HD) /\ Free(e)' /\ Free(HD)' /\ buf'[HD] = buf[e] /\ buf'[e] = buf[e]
                 /\ StillBut({e, HD})
           \/ /\ \A e \in Proc : Sends(e, HD) => ANY \notin {e, ANY}
              /\ Waits(HD, ANY)' /\ StillBut({HD})
    BY <1>0, <1>1, <1>3, <1>5, Receiving
  <2> QED BY <2>1
<1>7. Shapes'
  BY <1>0, <1>2, <1>4, ShapesKept DEF Shapes
<1>8. elapsed \in Nat /\ elapsed' \in Nat /\ elapsed <= elapsed'
  BY <1>0, <1>2, HdAssumption DEF Shapes
<1>9. SameStage /\ ~ Taken /\ ~ Taken' /\ ~ HdAsks /\ ~ HdAsks' /\ pc'[SYS] = pc[SYS]
  BY <1>2, <1>4, Processes DEF SameStage, InWaitfor, InIrq, Taken, HdAsks
<1>10. Data'
  BY <1>0, <1>2, <1>6, <1>9, DataKept DEF Running, Data
<1>11. CASE (\A e \in Proc : ~ Sends(e, HD)) /\ Waits(HD, ANY)' /\ StillBut({HD})
  <2>1. /\ \A p \in User : UserAt(p)' /\ (Open(p)' <=> Open(p))
        /\ FsAt' /\ (Sends(FS, HD)' <=> Sends(FS, HD))
    BY <1>2, <1>4, <1>11, ClientsKept
  <2>2. HdAt'
    BY <1>4, <1>11 DEF HdAt, HdIdle
  <2>3. SysAt'
    <3>1. Still(SYS) /\ buf'[SYS] = buf[SYS]
      BY <1>11, Processes DEF StillBut
    <3>2. \A p \in Proc : Asks(p) => Asks(p)'
      BY <1>9, <2>1 DEF Asks
    <3> QED BY <1>0, <1>8, <1>9, <3>1, <3>2, SysKept DEF Conversation
  <2>4. Unserved' <=> Unserved
    BY <1>2, <1>11, <2>1, Processes, StandingAfter DEF OneReason, Unserved
  <2>5. Balance'
    BY <1>0, <1>2, <1>9, <2>4, BalanceKept DEF Running, SameStage
  <2> QED BY <1>0, <1>6, <1>7, <1>10, <2>1, <2>2, <2>3, <2>5 DEF Runs, Running, Data, Conversation
<1>12. ASSUME NEW e \in Proc \ {HD}, Sends(e, HD), Free(e)', Free(HD)', buf'[HD] = buf[e], buf'[e] = buf[e],
              StillBut({e, HD})
       PROVE  Runs'
  <2>1. e = FS
    <3>1. e # SYS
      BY <1>0, <1>9, <1>12, Standing, Processes DEF OneReason, Conversation, SysAt, SysAnswers, Asks
    <3>2. e \notin User
      BY <1>0, <1>12, Standing, Processes DEF OneReason, Conversation, UserAt, ClientAt
    <3> QED BY <3>1, <3>2 DEF Proc
  <2>2. pc[FS] = "receive" /\ asked \in Request /\ buf[FS].source = FS /\ buf[FS].type = asked
    BY <1>0, <1>12, <2>1, Standing, Processes DEF OneReason, Conversation, FsAt, ClientAt
  <2>3. pc'[FS] = "receive" /\ Open(FS)'
    BY <1>4, <1>12, <2>1, <2>2, Processes DEF Open
  <2>4. FsAt'
    <3>1. ClientAt(FS)'
      BY <1>12, <2>1, <2>3 DEF ClientAt
    <3> QED BY <1>2, <1>12, <2>1, <2>2, <2>3, <3>1 DEF FsAt
  <2>5. HdAt'
    <3>1. HdHas'
      BY <1>2, <1>4, <1>12, <2>1, <2>2 DEF HdHas
    <3> QED BY <2>3, <3>1 DEF HdAt
  <2>6. \A p \in User : UserAt(p)' /\ (Open(p)' <=> Open(p))
    <3>1. \A p \in User : p \notin {e, HD} => pc'[p] = pc[p]
      BY <1>4, Processes
    <3>2. \A p \in User : p \notin {e, HD} => UserAt(p)' /\ (Open(p)' <=> Open(p))
      BY <1>0, <1>12, <3>1, UsersKept
    <3> QED BY <2>1, <3>2, Processes
  <2>7. SysAt'
    <3>1. Still(SYS) /\ buf'[SYS] = buf[SYS]
      BY <1>12, <2>1, Processes DEF StillBut
    <3>2. \A p \in Proc : Asks(p) => Asks(p)'
      BY <1>9, <2>6 DEF Asks
    <3> QED BY <1>0, <1>8, <1>9, <3>1, <3>2, SysKept DEF Conversation
  <2>8. Unserved' /\ Unserved
    BY <1>4, <1>12, <2>1 DEF Unserved
  <2>9. Balance'
    BY <1>0, <1>2, <1>9, <2>8, BalanceKept DEF Running, SameStage
  <2> QED BY <1>0, <1>6, <1>7, <1>10, <2>4, <2>5, <2>6, <2>7, <2>9 DEF Runs, Running, Data, Conversation
<1> QED BY <1>6, <1>11, <1>12

\* The answer of the main loop.
LEMMA HdReplyKeeps ==
    ASSUME Runs, HdReply
    PROVE  Runs'
<1>0. K!IpcInv /\ Running /\ Shapes /\ OnlyHdInformed /\ Conversation /\ halted = "no"
  BY DEF Runs, Running
<1>1. /\ pc[HD] = "reply" /\ Goto(HD, "receive") /\ hd' = Local /\ Free(HD)
      /\ UNCHANGED <<opened, asked, elapsed, ctl, irq, part, hd_info>>
  BY SameCalls DEF HdReply, HdOnly, At, client, device
<1>2. HdServes /\ Open(FS)
  BY <1>0, <1>1 DEF Conversation, HdAt, HdIdle, HdHas
<1>3. Kernel!Send(HD, FS, hd.req) /\ hd.req \in Type /\ HD \in Proc /\ FS \in Proc \ {HD}
  BY <1>0, <1>2, Processes DEF HdReply, HdServes, Shapes, Locals
<1>4. pc' \in [Proc -> Label] /\ pc'[HD] = "receive" /\ \A q \in Proc \ {HD} : pc'[q] = pc[q]
  BY <1>0, <1>1, <1>3, Jump DEF Label
<1>5. ~ K!Deadlock(HD, FS) /\ \A d : ~ Sends(FS, d)
  <2>1. \A d : ~ Sends(FS, d)
    BY <1>2, Standing DEF OneReason, Open
  <2> QED BY <1>0, <1>3, <2>1, Chain
<1>6. /\ K!IpcInv' /\ OnlyHdInformed' /\ has_int_msg'[HD] = has_int_msg[HD]
      /\ StillBut({HD, FS}) /\ halted' = halted
      /\ \/ Expects(FS, HD) /\ Free(HD)' /\ Free(FS)'
         \/ ~ Expects(FS, HD) /\ Sends(HD, FS)' /\ Still(FS) /\ buf'[FS] = buf[FS]
  BY <1>0, <1>3, <1>5, Sending
<1>7. pc'[SYS] = pc[SYS] /\ pc'[FS] = pc[FS] /\ Still(SYS) /\ buf'[SYS] = buf[SYS]
  BY <1>4, <1>6, Processes DEF StillBut
<1>8. Shapes'
  <2>1. hd' \in Locals
    BY <1>1, LocalShape
  <2> QED BY <1>0, <1>1, <1>4, <2>1 DEF Shapes
<1>9. elapsed \in Nat /\ elapsed' \in Nat /\ elapsed <= elapsed'
  BY <1>0, <1>1, HdAssumption DEF Shapes
<1>10. ~ InWaitfor /\ ~ InIrq /\ ~ InWaitfor' /\ ~ InIrq' /\ ~ HdAsks /\ ~ HdAsks'
  BY <1>1, <1>4 DEF InWaitfor, InIrq, HdAsks
<1>11. Data'
  <2>1. Quiet /\ ctl = Idle
    BY <1>0, <1>10 DEF Running, DriveAt, Unissued, Wanting, Reads, Writes
  <2>2. DriveAt'
    BY <1>1, <1>4, <1>6, <2>1 DEF DriveAt, Unissued, Quiet
  <2>3. JobAt'
    BY <1>4, <1>10 DEF JobAt
  <2>4. PartAt'
    <3>1. AllKnown => AllKnown'
      BY <1>1 DEF AllKnown, KnownTo, PrimaryKnown, LogicalKnown
    <3> QED BY <1>0, <1>1, <1>10, <3>1 DEF Running, PartAt, ReadsTables
  <2> QED BY <2>2, <2>3, <2>4 DEF Data
<1>12. FsAt' /\ (Sends(HD, FS)' => Open(FS)') /\ ~ Sends(FS, HD)'
  <2>1. CASE Expects(FS, HD) /\ Free(HD)' /\ Free(FS)'
    <3>1. pc[FS] = "return"
      BY <1>2, <2>1, Standing DEF OneReason, Open, Expects
    <3>2. ClientAt(FS)' /\ ~ Sends(FS, HD)' /\ ~ Sends(HD, FS)'
      BY <1>7, <2>1, <3>1, StandingAfter DEF OneReason, ClientAt
    <3> QED BY <1>0, <1>1, <1>7, <3>1, <3>2 DEF Conversation, FsAt
  <2>2. CASE Still(FS) /\ buf'[FS] = buf[FS]
    BY <1>0, <1>1, <1>2, <1>5, <1>7, <2>2, FsKept, StillSame DEF Conversation
  <2> QED BY <1>6, <2>1, <2>2
<1>13. HdAt'
  BY <1>4, <1>6, <1>12 DEF HdAt, HdIdle
<1>14. \A p \in User : UserAt(p)' /\ (Open(p)' <=> Open(p))
  <2>1. \A p \in User : p \notin {HD, FS} => pc'[p] = pc[p]
    BY <1>4, Processes
  <2>2. \A p \in User : p \notin {HD, FS} => UserAt(p)' /\ (Open(p)' <=> Open(p))
    BY <1>0, <1>6, <2>1, UsersKept
  <2> QED BY <2>2, Processes
<1>15. SysAt'
  <2>1. \A p \in Proc : Asks(p) => Asks(p)'
    BY <1>10, <1>14 DEF Asks
  <2> QED BY <1>0, <1>7, <1>9, <2>1, SysKept DEF Conversation
<1>16. Balance'
  <2>1. ~ Opening /\ ~ Closing
    BY <1>1, <1>5, <1>10 DEF Opening, Closing, Unserved
  <2>2. ~ Opening' /\ ~ Closing'
    BY <1>4, <1>10, <1>12 DEF Opening, Closing, Unserved
  <2> QED BY <1>0, <1>1, <2>1, <2>2 DEF Running, Balance
<1>17. Conversation'
  BY <1>12, <1>13, <1>14, <1>15 DEF Conversation
<1> QED BY <1>0, <1>6, <1>8, <1>11, <1>16, <1>17 DEF Runs, Running, Data

\* The question for the time.
LEMMA HdAskKeeps ==
    ASSUME Runs, HdAsk
    PROVE  Runs'
<1>0. K!IpcInv /\ Running /\ Shapes /\ OnlyHdInformed /\ Conversation /\ halted = "no"
  BY DEF Runs, Running
<1>1. /\ pc[HD] = "ask" /\ Goto(HD, "time")
      /\ UNCHANGED <<opened, asked, elapsed, ctl, irq, hd, part, hd_info>>
  BY DEF HdAsk, HdOnly, At, client, device
<1>2. HdServes /\ Open(FS)
  BY <1>0, <1>1 DEF Conversation, HdAt, HdIdle, HdHas
<1>3. /\ Kernel!Send(HD, SYS, Plain("GET_TICKS")) /\ Plain("GET_TICKS") \in Type
      /\ HD \in Proc \ {SYS} /\ SYS \in Proc \ {HD}
  BY Processes DEF HdAsk, Type
<1>4. pc' \in [Proc -> Label] /\ pc'[HD] = "time" /\ \A q \in Proc \ {HD} : pc'[q] = pc[q]
  BY <1>0, <1>1, <1>3, Jump DEF Label
<1>5. ~ K!Deadlock(HD, SYS)
  BY <1>1, <1>3, SysChain, Processes DEF Asks, HdAsks
<1>6. /\ K!IpcInv' /\ OnlyHdInformed' /\ has_int_msg'[HD] = has_int_msg[HD]
      /\ buf'[HD].source = HD /\ buf'[HD].type = Plain("GET_TICKS")
      /\ StillBut({HD, SYS}) /\ halted' = halted
      /\ \/ Expects(SYS, HD) /\ Free(HD)' /\ Free(SYS)' /\ buf'[SYS] = buf'[HD]
         \/ Sends(HD, SYS)' /\ Still(SYS) /\ buf'[SYS] = buf[SYS]
  BY <1>0, <1>3, <1>5, Sending
<1>7. Shapes'
  BY <1>0, <1>1, <1>4, ShapesKept DEF Shapes
<1>8. elapsed \in Nat /\ elapsed' \in Nat /\ elapsed <= elapsed'
  BY <1>0, <1>1, HdAssumption DEF Shapes
<1>9. SameStage /\ ~ Taken /\ ~ Taken' /\ ~ HdAsks /\ pc'[SYS] = pc[SYS]
  BY <1>1, <1>4, Processes DEF SameStage, InWaitfor, InIrq, Taken, HdAsks
<1>10. Data'
  BY <1>0, <1>1, <1>6, <1>9, DataKept DEF Running, Data
<1>11. /\ \A p \in User : UserAt(p)' /\ (Open(p)' <=> Open(p))
       /\ FsAt' /\ (Open(FS)' <=> Open(FS)) /\ (Sends(FS, HD)' <=> Sends(FS, HD))
  BY <1>1, <1>4, <1>6, ClientsKept
<1>12. Balance'
  <2>1. Unserved' <=> Unserved
    BY <1>1, <1>4, <1>11 DEF Unserved
  <2> QED BY <1>0, <1>1, <1>9, <2>1, BalanceKept DEF Running, SameStage
<1>13. HdAt'
  <2>1. HdServes'
    BY <1>1, <1>2, <1>4, <1>6 DEF HdServes
  <2> QED BY <1>2, <1>11, <2>1 DEF HdAt
<1>14. SysAt'
  <2>1. CASE Expects(SYS, HD) /\ Free(HD)' /\ Free(SYS)' /\ buf'[SYS] = buf'[HD]
    <3>1. pc[SYS] = "answer"
      BY <1>0, <2>1, Standing, Processes DEF OneReason, Expects, Conversation, SysAt, SysAnswers
    <3>2. Asks(HD)'
      BY <1>4, <2>1 DEF Asks, HdAsks
    <3>3. SysHas(HD)'
      BY <1>6, <2>1, <3>2 DEF SysHas, Question
    <3> QED BY <1>3, <1>9, <2>1, <3>1, <3>3 DEF SysAt
  <2>2. CASE Sends(HD, SYS)' /\ Still(SYS) /\ buf'[SYS] = buf[SYS]
    <3>1. \A p \in Proc : Asks(p) => Asks(p)'
      BY <1>9, <1>11 DEF Asks
    <3> QED BY <1>0, <1>8, <1>9, <2>2, <3>1, SysKept DEF Conversation
  <2> QED BY <1>6, <2>1, <2>2
<1>15. Conversation'
  BY <1>11, <1>13, <1>14 DEF Conversation
<1> QED BY <1>0, <1>6, <1>7, <1>10, <1>12, <1>15 DEF Runs, Running, Data

\* The time is told.
LEMMA HdTimeKeeps ==
    ASSUME Runs, HdTime
    PROVE  Runs'
<1>0. K!IpcInv /\ Running /\ Shapes /\ OnlyHdInformed /\ Conversation /\ halted = "no"
  BY DEF Runs, Running
<1>1. Kernel!Receive(HD, SYS)
  BY DEF HdTime
<1>2. /\ pc[HD] = "time" /\ Goto(HD, "poll") /\ Free(HD)
      /\ UNCHANGED <<opened, asked, elapsed, ctl, irq, hd, part, hd_info>>
  BY SameCalls DEF HdTime, HdOnly, At, client, device
<1>3. HD \in Proc /\ SYS \in Proc \ {HD} /\ SYS \in K!Sources(HD) /\ SYS # ANY
  BY Processes DEF K!Sources
<1>4. pc' \in [Proc -> Label] /\ pc'[HD] = "poll" /\ \A q \in Proc \ {HD} : pc'[q] = pc[q]
  BY <1>0, <1>2, <1>3, Jump DEF Label
<1>5. ~ has_int_msg[HD] /\ HdServes /\ Open(FS)
  <2>1. ~ has_int_msg[HD]
    BY <1>0, <1>2 DEF Running, DriveAt, Unissued, Wanting, Reads, Writes, Quiet, InWaitfor, InIrq
  <2> QED BY <1>0, <1>2, <2>1 DEF Conversation, HdAt, HdIdle, HdHas
<1>6. /\ K!IpcInv' /\ OnlyHdInformed' /\ has_int_msg'[HD] = has_int_msg[HD]
      /\ halted' = halted /\ StillBut({HD, SYS})
      /\ \/ Sends(SYS, HD) /\ Free(SYS)' /\ Free(HD)' /\ buf'[HD] = buf[SYS]
         \/ Waits(HD, SYS)' /\ StillBut({HD})
  <2>1. /\ K!IpcInv' /\ OnlyHdInformed' /\ has_int_msg'[HD] = has_int_msg[HD]
        /\ halted' = halted
        /\ \/ \E e \in Proc \ {HD} :
                 /\ Sends(e, HD) /\ SYS \in {e, ANY}
                 /\ Free(e)' /\ Free(HD)' /\ buf'[HD] = buf[e] /\ StillBut({e, HD})
           \/ Waits(HD, SYS)' /\ StillBut({HD})
    BY <1>0, <1>1, <1>3, <1>5, Receiving
  <2>2. StillBut({HD}) => StillBut({HD, SYS})
    BY DEF StillBut
  <2>3. {SYS, HD} = {HD, SYS}
    OBVIOUS
  <2> QED BY <1>3, <2>1, <2>2, <2>3
<1>7. Shapes'
  BY <1>0, <1>2, <1>4, ShapesKept DEF Shapes
<1>8. elapsed \in Nat /\ elapsed' \in Nat /\ elapsed <= elapsed'
  BY <1>0, <1>2, HdAssumption DEF Shapes
<1>9. SameStage /\ ~ Taken /\ ~ Taken' /\ pc'[SYS] = pc[SYS]
  BY <1>2, <1>4, Processes DEF SameStage, InWaitfor, InIrq, Taken
<1>10. Data'
  BY <1>0, <1>2, <1>6, <1>9, DataKept DEF Running, Data
<1>11. /\ \A p \in User : UserAt(p)' /\ (Open(p)' <=> Open(p))
       /\ FsAt' /\ (Open(FS)' <=> Open(FS)) /\ (Sends(FS, HD)' <=> Sends(FS, HD))
  BY <1>2, <1>4, <1>6, ClientsKept
<1>12. Balance'
  <2>1. Unserved' <=> Unserved
    BY <1>2, <1>4, <1>11 DEF Unserved
  <2> QED BY <1>0, <1>2, <1>9, <2>1, BalanceKept DEF Running, SameStage
<1>13. CASE Sends(SYS, HD) /\ Free(SYS)' /\ Free(HD)' /\ buf'[HD] = buf[SYS]
  <2>1. pc[SYS] = "receive" /\ SysAnswers(HD)
    BY <1>0, <1>13, Standing, Processes DEF OneReason, Conversation, SysAt, SysAnswers
  <2>2. Told(buf[HD])'
    BY <1>2, <1>13, <2>1 DEF SysAnswers, Told
  <2>3. HdServes'
    BY <1>2, <1>4, <1>5, <1>13, <2>2 DEF HdServes
  <2>4. SysAt'
    BY <1>9, <1>13, <2>1 DEF SysAt
  <2> QED BY <1>0, <1>5, <1>6, <1>7, <1>10, <1>11, <1>12, <2>3, <2>4 DEF Runs, Running, Data, Conversation, HdAt
<1>14. CASE Waits(HD, SYS)' /\ StillBut({HD})
  <2>1. HdServes' /\ HdAsks'
    BY <1>2, <1>4, <1>5, <1>14 DEF HdServes, HdAsks
  <2>2. SysAt'
    <3>1. Still(SYS) /\ buf'[SYS] = buf[SYS]
      BY <1>3, <1>14 DEF StillBut
    <3>2. \A p \in Proc : Asks(p) => Asks(p)'
      BY <1>11, <2>1 DEF Asks
    <3> QED BY <1>0, <1>8, <1>9, <3>1, <3>2, SysKept DEF Conversation
  <2> QED BY <1>0, <1>5, <1>6, <1>7, <1>10, <1>11, <1>12, <2>1, <2>2 DEF Runs, Running, Data, Conversation, HdAt
<1> QED BY <1>6, <1>13, <1>14

\* The wait for an interrupt.
LEMMA interrupt_waitKeeps ==
    ASSUME Runs, interrupt_wait
    PROVE  Runs'
<1>0. K!IpcInv /\ Running /\ Shapes /\ OnlyHdInformed /\ Conversation /\ halted = "no"
  BY DEF Runs, Running
<1>1. Kernel!Receive(HD, INTERRUPT)
  BY DEF interrupt_wait
<1>2. /\ pc[HD] = "irq" /\ Goto(HD, "woken")
      /\ UNCHANGED <<opened, asked, elapsed, ctl, irq, hd, part, hd_info>>
  BY DEF interrupt_wait, HdOnly, At, client, device
<1>3. pc' \in [Proc -> Label] /\ pc'[HD] = "woken" /\ \A q \in Proc \ {HD} : pc'[q] = pc[q]
  BY <1>0, <1>2, Processes, Jump DEF Label
<1>4. HdServes /\ Open(FS)
  BY <1>0, <1>2 DEF Conversation, HdAt, HdIdle, HdHas
<1>5. /\ K!IpcInv' /\ OnlyHdInformed' /\ halted' = halted /\ StillBut({HD})
      /\ ~ has_int_msg'[HD]
      /\ \/ has_int_msg[HD] /\ Free(HD)'
         \/ ~ has_int_msg[HD] /\ Waits(HD, INTERRUPT)'
  BY <1>0, <1>1, WaitingForInt
<1>6. Shapes'
  BY <1>0, <1>2, <1>3, ShapesKept DEF Shapes
<1>7. elapsed \in Nat /\ elapsed' \in Nat /\ elapsed <= elapsed'
  BY <1>0, <1>2, HdAssumption DEF Shapes
<1>8. SameStage /\ ~ Taken /\ ~ HdAsks /\ ~ HdAsks' /\ pc'[SYS] = pc[SYS]
  BY <1>2, <1>3, Processes DEF SameStage, InWaitfor, InIrq, Taken, HdAsks
<1>9. DriveAt'
  <2>1. (One => One') /\ (NoneYet => NoneYet')
    <3>1. has_int_msg[HD] => Taken'
      BY <1>3, <1>5 DEF Taken
    <3>2. ~ has_int_msg[HD] => ~ Taken'
      BY <1>5, StandingAfter DEF OneReason, Taken
    <3> QED BY <1>2, <1>5, <1>8, <3>1, <3>2 DEF One, NoneYet, Quiet
  <2>2. \A s, c : InStep(s, c) => InStep(s, c)'
    BY <1>2 DEF InStep, Count, Moved
  <2>3. Reads => Reads'
    BY <1>2, <1>8, <2>1, <2>2 DEF Reads, SameStage
  <2>4. Writes => Writes'
    BY <1>2, <1>8, <2>1, <2>2 DEF Writes, SameStage
  <2>5. Reads \/ Writes
    BY <1>0, <1>2 DEF Running, DriveAt, Unissued, Wanting, InWaitfor
  <2> QED BY <2>3, <2>4, <2>5 DEF DriveAt
<1>10. JobAt' /\ PartAt'
  BY <1>0, <1>2, <1>8, WorkKept DEF Running
<1>11. /\ \A p \in User : UserAt(p)' /\ (Open(p)' <=> Open(p))
       /\ FsAt' /\ (Open(FS)' <=> Open(FS)) /\ (Sends(FS, HD)' <=> Sends(FS, HD))
  BY <1>2, <1>3, <1>5, ClientsKept
<1>12. Balance'
  <2>1. Unserved' <=> Unserved
    BY <1>2, <1>3, <1>11 DEF Unserved
  <2> QED BY <1>0, <1>2, <1>8, <2>1, BalanceKept DEF Running, SameStage
<1>13. HdAt'
  <2>1. HdServes'
    BY <1>2, <1>3, <1>4, <1>5 DEF HdServes
  <2> QED BY <1>4, <1>11, <2>1 DEF HdAt
<1>14. SysAt'
  <2>1. Still(SYS) /\ buf'[SYS] = buf[SYS]
    BY <1>5, Processes DEF StillBut
  <2>2. \A p \in Proc : Asks(p) => Asks(p)'
    BY <1>8, <1>11 DEF Asks
  <2> QED BY <1>0, <1>7, <1>8, <2>1, <2>2, SysKept DEF Conversation
<1> QED BY <1>0, <1>5, <1>6, <1>9, <1>10, <1>11, <1>12, <1>13, <1>14 DEF Runs, Running, Conversation

\* The interrupt finds the driver before or in interrupt_wait.
LEMMA hd_handlerKeeps ==
    ASSUME Runs, hd_handler
    PROVE  Runs'
<1>0. K!IpcInv /\ Running /\ Shapes /\ OnlyHdInformed /\ Conversation /\ halted = "no"
  BY DEF Runs, Running
<1>1. Kernel!InformInt(HD) /\ irq /\ irq' = FALSE
  BY DEF hd_handler
<1>2. UNCHANGED <<pc, opened, asked, elapsed, ctl, hd, part, hd_info>>
  BY DEF hd_handler, client
<1>3. One /\ InIrq /\ (Reads \/ Writes) /\ ~ Taken /\ ~ has_int_msg[HD]
  BY <1>0, <1>1 DEF Running, DriveAt, Unissued, Wanting, Reads, Writes, Quiet, NoneYet, One
<1>4. HdServes /\ Open(FS)
  BY <1>0, <1>3 DEF Conversation, HdAt, HdIdle, HdHas, InIrq
<1>5. \/ pc[HD] = "irq" /\ Free(HD)
      \/ pc[HD] = "woken" /\ Waits(HD, INTERRUPT)
  BY <1>3, <1>4 DEF HdServes, InIrq, Taken
<1>6. /\ K!IpcInv' /\ OnlyHdInformed' /\ halted' = halted /\ StillBut({HD})
      /\ \/ pc[HD] = "woken" /\ Free(HD)' /\ ~ has_int_msg'[HD]
         \/ pc[HD] = "irq" /\ Free(HD)' /\ has_int_msg'[HD]
  <2>1. /\ K!IpcInv' /\ OnlyHdInformed' /\ halted' = halted /\ StillBut({HD})
        /\ \/ /\ Waits(HD, INTERRUPT) \/ Waits(HD, ANY)
              /\ Free(HD)' /\ ~ has_int_msg'[HD]
           \/ /\ ~ Waits(HD, INTERRUPT) /\ ~ Waits(HD, ANY)
              /\ Still(HD) /\ has_int_msg'[HD]
    BY <1>0, <1>1, Informing
  <2>2. pc[HD] = "irq" => ~ Waits(HD, INTERRUPT) /\ ~ Waits(HD, ANY)
    BY <1>5, Standing DEF OneReason
  <2> QED BY <1>5, <2>1, <2>2, StillSame
<1>7. Shapes'
  BY <1>0, <1>1, <1>2 DEF Shapes
<1>8. elapsed \in Nat /\ elapsed' \in Nat /\ elapsed <= elapsed'
  BY <1>0, <1>2, HdAssumption DEF Shapes
<1>9. SameStage /\ ~ HdAsks /\ ~ HdAsks'
  BY <1>2, <1>3 DEF SameStage, InWaitfor, InIrq, HdAsks
<1>10. DriveAt'
  <2>1. One'
    BY <1>1, <1>2, <1>6 DEF One, Quiet, Taken
  <2>2. \A s, c : InStep(s, c) => InStep(s, c)'
    BY <1>2 DEF InStep, Count, Moved
  <2>3. Reads => Reads'
    BY <1>1, <1>2, <1>9, <2>1, <2>2 DEF Reads, SameStage, NoneYet, Quiet
  <2>4. Writes => Writes'
    BY <1>1, <1>2, <1>9, <2>1, <2>2 DEF Writes, SameStage, NoneYet, Quiet
  <2> QED BY <1>3, <2>3, <2>4 DEF DriveAt
<1>11. JobAt' /\ PartAt'
  BY <1>0, <1>2, <1>9, WorkKept DEF Running
<1>12. /\ \A p \in User : UserAt(p)' /\ (Open(p)' <=> Open(p))
       /\ FsAt' /\ (Open(FS)' <=> Open(FS)) /\ (Sends(FS, HD)' <=> Sends(FS, HD))
  BY <1>2, <1>6, ClientsKept
<1>13. Balance'
  <2>1. Unserved' <=> Unserved
    BY <1>2, <1>5, <1>12 DEF Unserved
  <2> QED BY <1>0, <1>2, <1>9, <2>1, BalanceKept DEF Running, SameStage
<1>14. HdAt'
  <2>1. HdServes'
    BY <1>2, <1>4, <1>6 DEF HdServes
  <2> QED BY <1>4, <1>12, <2>1 DEF HdAt
<1>15. SysAt'
  <2>1. Still(SYS) /\ buf'[SYS] = buf[SYS]
    BY <1>6, Processes DEF StillBut
  <2>2. \A p \in Proc : Asks(p) => Asks(p)'
    BY <1>9, <1>12 DEF Asks
  <2> QED BY <1>0, <1>2, <1>8, <2>1, <2>2, SysKept DEF Conversation
<1> QED BY <1>0, <1>6, <1>7, <1>10, <1>11, <1>12, <1>13, <1>14, <1>15 DEF Runs, Running, Conversation

-----------------------------------------------------------------------------
(***************************************************************************)
(* Steps without a system call: the controller's, and what the driver does *)
(* between two calls.                                                      *)
(***************************************************************************)

\* In such a step only the driver, or nobody, gets on.
LEMMA Computes ==
    ASSUME Runs, UNCHANGED <<ipcVars, elapsed, asked>>, \A q \in Proc \ {HD} : pc'[q] = pc[q],
           HdIdle' \/ ((HdHas' \/ HdServes') /\ Open(FS)), HdAsks => HdAsks'
    PROVE  /\ K!IpcInv' /\ OnlyHdInformed' /\ Conversation' /\ halted' = "no"
           /\ has_int_msg'[HD] = has_int_msg[HD] /\ (Free(HD)' <=> Free(HD))
           /\ Sends(FS, HD)' <=> Sends(FS, HD)
<1>0. K!IpcInv /\ Running /\ Shapes /\ OnlyHdInformed /\ Conversation /\ halted = "no"
  BY DEF Runs, Running
<1>1. UNCHANGED <<flags, p_msg, recv_from, send_to, has_int_msg, q_sending, buf, halted>>
  BY DEF ipcVars
<1>2. K!IpcInv' /\ OnlyHdInformed'
  BY <1>0, <1>1, KernelStep DEF OnlyHdInformed
<1>3. (\A q : Still(q)) /\ StillBut({})
  <2>1. \A q : Still(q)
    BY <1>1, AllStill
  <2> QED BY <1>1, <2>1 DEF StillBut
<1>4. /\ \A p \in User : UserAt(p)' /\ (Open(p)' <=> Open(p))
      /\ FsAt' /\ (Open(FS)' <=> Open(FS)) /\ (Sends(FS, HD)' <=> Sends(FS, HD))
  BY <1>3, ClientsKept
<1>5. HdAt'
  BY <1>4 DEF HdAt
<1>6. SysAt'
  <2>1. Still(SYS) /\ buf'[SYS] = buf[SYS] /\ pc'[SYS] = pc[SYS]
    BY <1>1, <1>3, Processes
  <2>2. \A p \in Proc : Asks(p) => Asks(p)'
    BY <1>4 DEF Asks
  <2>3. elapsed \in Nat /\ elapsed' \in Nat /\ elapsed <= elapsed'
    BY <1>0, HdAssumption DEF Shapes
  <2> QED BY <1>0, <2>1, <2>2, <2>3, SysKept DEF Conversation
<1> QED BY <1>0, <1>1, <1>2, <1>3, <1>4, <1>5, <1>6, StillSame DEF Conversation

\* The controller goes on.
LEMMA ControllerReadyKeeps ==
    ASSUME Runs, ControllerReady
    PROVE  Runs'
<1>0. K!IpcInv /\ Running /\ Shapes /\ OnlyHdInformed /\ Conversation /\ halted = "no"
  BY DEF Runs, Running
<1>1. UNCHANGED <<ipcVars, buf, has_int_msg, flags, send_to, recv_from, pc, opened, asked, elapsed, hd, part, hd_info>>
  BY DEF ControllerReady, ipcVars, client
<1>2. \A q : Still(q)
  BY <1>1, AllStill
<1>3. /\ ctl.status = "busy"
      /\ \/ /\ ctl.command = "WRITE" /\ irq' = irq
            /\ ctl'.command = "WRITING" /\ ctl'.status = "drq" /\ ctl'.left = ctl.left /\ ctl'.next = ctl.next
         \/ /\ ctl.command = "WRITING" /\ irq' = TRUE
            /\ IF ctl.left = 0 THEN ctl' = Idle
               ELSE ctl'.command = "WRITING" /\ ctl'.status = "drq" /\ ctl'.left = ctl.left /\ ctl'.next = ctl.next
         \/ /\ ctl.command \in {"READ", "IDENTIFY"} /\ irq' = TRUE
            /\ ctl'.command = ctl.command /\ ctl'.status = "drq"
            /\ ctl'.left = ctl.left /\ ctl'.next = ctl.next
  BY <1>0 DEF ControllerReady, Shapes, Controls
<1>4. Shapes'
  <2>0. ctl \in Controls
    BY <1>0 DEF Shapes
  <2>a. Idle \in Controls
    BY DEF Idle, Controls
  <2>b. ctl' = [ctl EXCEPT !.command = "WRITING", !.status = "drq"] => ctl' \in Controls
    BY <2>0 DEF Controls
  <2>c. ctl' = [ctl EXCEPT !.status = "drq"] => ctl' \in Controls
    BY <2>0 DEF Controls
  <2>1. ctl' \in Controls
    BY <2>a, <2>b, <2>c DEF ControllerReady
  <2>2. irq' \in BOOLEAN
    BY <1>0 DEF ControllerReady, Shapes
  <2> QED BY <1>0, <1>1, <2>1, <2>2 DEF Shapes
<1>5. SameStage /\ (Taken' <=> Taken) /\ (HdAsks' <=> HdAsks)
  BY <1>1, <1>2, StillSame DEF SameStage, InWaitfor, InIrq, Taken, HdAsks
<1>6. DriveAt'
  <2>1. Count' = Count /\ Moved' = Moved
    BY <1>1 DEF Count, Moved
  <2>2. ~ Unissued
    BY <1>3 DEF Unissued, Idle
  <2>3. Wanting => Wanting'
    <3> SUFFICES ASSUME Wanting PROVE Wanting'
      OBVIOUS
    <3>1. InStep("busy", "WRITE") /\ ctl.left > 0
      BY <1>3 DEF Wanting, InStep, Idle
    <3>2. InStep("drq", "WRITING")' /\ (ctl.left > 0)' /\ irq' = irq
      BY <1>1, <1>3, <2>1, <3>1 DEF InStep
    <3> QED BY <1>1, <1>5, <3>2 DEF Wanting, SameStage, Quiet
  <2>4. Reads => Reads'
    <3> SUFFICES ASSUME Reads PROVE Reads'
      OBVIOUS
    <3>1. InStep("busy", hd.cmd.command) /\ ctl.left > 0 /\ NoneYet
      BY <1>3 DEF Reads, InStep, Idle
    <3>2. InStep("drq", hd.cmd.command)' /\ (ctl.left > 0)' /\ irq' = TRUE
      BY <1>1, <1>3, <2>1, <3>1 DEF InStep, Reads
    <3>3. One'
      BY <1>1, <1>5, <3>1, <3>2 DEF One, NoneYet, Quiet
    <3> QED BY <1>1, <1>5, <3>2, <3>3 DEF Reads, SameStage
  <2>5. Writes => Writes'
    <3> SUFFICES ASSUME Writes PROVE Writes'
      OBVIOUS
    <3>1. InStep("busy", "WRITING") /\ ctl.left >= 0 /\ NoneYet
      BY <1>3 DEF Writes, InStep, Idle
    <3>2. One'
      BY <1>1, <1>3, <1>5, <3>1 DEF One, NoneYet, Quiet, InStep
    <3>3. ctl' = Idle \/ (InStep("drq", "WRITING")' /\ (ctl.left > 0)')
      BY <1>0, <1>1, <1>3, <2>1, <3>1 DEF InStep, Shapes, Controls
    <3>4. Idle' = Idle
      BY DEF Idle
    <3> QED BY <1>1, <1>5, <3>2, <3>3, <3>4 DEF Writes, SameStage
  <2> QED BY <1>0, <2>2, <2>3, <2>4, <2>5 DEF Running, DriveAt
<1>7. JobAt' /\ PartAt'
  BY <1>0, <1>1, <1>5, WorkKept DEF Running
<1>8. HdIdle' \/ ((HdHas' \/ HdServes') /\ Open(FS))
  <2>1. Told(buf[HD])' <=> Told(buf[HD])
    BY <1>1 DEF Told
  <2> QED BY <1>0, <1>1, <1>2, <2>1, StillSame DEF Conversation, HdAt, HdIdle, HdHas, HdServes, Open
<1>9. /\ K!IpcInv' /\ OnlyHdInformed' /\ Conversation' /\ halted' = "no" /\ (Free(HD)' <=> Free(HD))
      /\ Sends(FS, HD)' <=> Sends(FS, HD)
  BY <1>1, <1>5, <1>8, Computes
<1>10. Balance'
  <2>1. Unserved' <=> Unserved
    BY <1>1, <1>9 DEF Unserved
  <2> QED BY <1>0, <1>1, <1>5, <2>1, BalanceKept DEF Running, SameStage
<1> QED BY <1>4, <1>6, <1>7, <1>9, <1>10 DEF Runs, Running

-----------------------------------------------------------------------------
(***************************************************************************)
(* Arithmetic.                                                             *)
(***************************************************************************)

\* Quotient and remainder.
LEMMA Quotient ==
    ASSUME NEW c \in Nat, NEW s \in Nat \ {0}
    PROVE  c = (c \div s) * s + (c % s) /\ c \div s \in Nat /\ c % s \in 0 .. s - 1
  BY SMT

\* Only one quotient leaves a remainder below s.
LEMMA QuotientIs ==
    ASSUME NEW c \in Nat, NEW s \in Nat \ {0}, NEW q \in Nat, NEW r \in 0 .. s - 1, c = q * s + r
    PROVE  c \div s = q
  BY SMT

\* Rounding up what is whole changes nothing (hd_rdwt).
LEMMA Whole ==
    ASSUME NEW c \in Nat, NEW s \in Nat \ {0}, c % s = 0
    PROVE  (c + s - 1) \div s = c \div s /\ (c \div s) * s = c /\ c \div s \in Nat
<1>1. c = (c \div s) * s /\ c \div s \in Nat
  BY Quotient
<1>2. s - 1 \in 0 .. s - 1 /\ c + s - 1 \in Nat
  OBVIOUS
<1>3. c + s - 1 = (c \div s) * s + (s - 1)
  BY <1>1
<1> QED BY <1>1, <1>2, <1>3, QuotientIs

\* What a short count of n is (cmd.count, an u8).
LEMMA Wrap ==
    ASSUME NEW n \in Nat \ {0}, NEW r \in Nat \ {0}
    PROVE  n % r \in Nat /\ n % r <= n /\ (n % r = 0 => r <= n)
<1>1. n = (n \div r) * r + (n % r) /\ n \div r \in Nat /\ n % r \in 0 .. r - 1
  BY Quotient
<1>2. n \div r # 0 => (n \div r) * r >= r
  BY <1>1, SMT
<1>3. n \div r = 0 => n = n % r
  BY <1>1
<1> QED BY <1>1, <1>2, <1>3

\* What is below n wraps to itself.
LEMMA Small ==
    ASSUME NEW x \in Nat, NEW n \in Nat \ {0}, x < n
    PROVE  x % n = x
  BY SMT

\* The places of the logical partitions are apart.
LEMMA Apart ==
    ASSUME NEW d \in Nat \ {0}, NEW e \in Nat \ {0}, NEW s \in Nat \ {0},
           NEW j \in 1 .. s, NEW k \in 1 .. s, d < e
    PROVE  (d - 1) * s + j - 1 < (e - 1) * s + k - 1
<1>1. d * s <= (e - 1) * s
  BY SMT
<1>2. (d - 1) * s + s = d * s
  BY SMT
<1> QED BY <1>1, <1>2, SMT

\* Each of them is in hdi->logical.
LEMMA Below ==
    ASSUME NEW n \in Nat \ {0}, NEW d \in 1 .. n, NEW s \in Nat \ {0}, NEW j \in 1 .. s
    PROVE  (d - 1) * s + j - 1 \in 0 .. n * s - 1 /\ n * s \in Nat \ {0}
<1>1. d * s <= n * s /\ (d - 1) * s >= 0
  BY SMT
<1>2. (d - 1) * s + s = d * s /\ n * s \in Int /\ (d - 1) * s \in Int /\ d * s \in Int
  BY SMT
<1> QED BY <1>1, <1>2, SMT

\* How many sectors are left, of n sectors, when one of a * s bytes is done.
LEMMA OneLess ==
    ASSUME NEW a \in Int, NEW s \in Nat \ {0}
    PROVE  /\ a * s \in Int
           /\ a * s - s = (a - 1) * s
           /\ a * s = s <=> a = 1
<1>1. a * s \in Int /\ (a - 1) * s \in Int /\ a * s - s = (a - 1) * s
  BY SMT
<1>2. (a - 1) * s = 0 <=> a = 1
  BY SMT
<1> QED BY <1>1, <1>2

\* The entries of a table.
LEMMA EntryShape ==
    ASSUME NEW s \in DOMAIN Disk, NEW i \in 1 .. NR_PART_PER_DRIVE, NEW b \in Int
    PROVE  /\ Placed(b, Disk[s][i]) \in Where
           /\ Disk[s][i].start_sect \in Nat /\ Disk[s][i].nr_sects \in Nat
<1>1. Disk[s][i].start_sect \in Nat /\ Disk[s][i].nr_sects \in Nat
  BY DiskAssumption
<1> QED BY <1>1 DEF Placed, Where

\* An extended partition has at most as many tables as it is looked for.
LEMMA TablesShort ==
    ASSUME NEW d \in 1 .. NR_PART_PER_DRIVE, IsExtended(d)
    PROVE  /\ Len(Tables[d]) \in 1 .. NR_SUB_PER_PART /\ DOMAIN Tables[d] = 1 .. Len(Tables[d])
           /\ \A k \in DOMAIN Tables[d] : Tables[d][k] \in DOMAIN Disk /\ Tables[d][k] \in Nat
           /\ Tables[d][1] = Disk[0][d].start_sect
<1>1. /\ Tables[d] \in Seq(DOMAIN Disk) /\ Tables[d] # <<>>
      /\ Tables[d][1] = Disk[0][d].start_sect
      /\ \A k \in DOMAIN Tables[d] :
            /\ LastTable(Disk[Tables[d][k]], k) <=> k = Len(Tables[d])
            /\ k < Len(Tables[d]) => Tables[d][k + 1] = Tables[d][1] + Disk[Tables[d][k]][2].start_sect
  BY DiskAssumption DEF IsExtended
<1>2. Len(Tables[d]) \in Nat \ {0} /\ DOMAIN Tables[d] = 1 .. Len(Tables[d])
  BY <1>1
<1>3. NR_SUB_PER_PART \in Nat \ {0} /\ NR_PART_PER_DRIVE \in Nat /\ NR_PART_PER_DRIVE > 1
  BY HdAssumption
<1>4. NR_SUB_PER_PART \in DOMAIN Tables[d] => NR_SUB_PER_PART = Len(Tables[d])
  BY <1>1 DEF LastTable
<1>5. \A k \in DOMAIN Tables[d] : Tables[d][k] \in DOMAIN Disk
  BY <1>1
<1>6. Tables[d][1] \in Nat
  <2>1. 0 \in DOMAIN Disk
    BY DiskAssumption
  <2> QED BY <1>1, <2>1, EntryShape
<1>7. ASSUME NEW k \in DOMAIN Tables[d], k # 1 PROVE Tables[d][k] \in Nat
  <2>1. k - 1 \in DOMAIN Tables[d] /\ k - 1 < Len(Tables[d]) /\ (k - 1) + 1 = k
    BY <1>2, <1>7
  <2>2. Tables[d][k] = Tables[d][1] + Disk[Tables[d][k - 1]][2].start_sect
    BY <1>1, <2>1
  <2>3. Disk[Tables[d][k - 1]][2].start_sect \in Nat
    BY <1>3, <1>5, <2>1, EntryShape
  <2> QED BY <1>6, <2>2, <2>3
<1> QED BY <1>1, <1>2, <1>3, <1>4, <1>5, <1>6, <1>7

\* When all tables have been read, hd_info has every partition where it is.
LEMMA InfoRight ==
    ASSUME AllKnown, NEW dev \in DOMAIN Partition
    PROVE  PartInfo(dev) = Partition[dev]
<1>0. /\ NR_PART_PER_DRIVE \in Nat \ {0} /\ NR_SUB_PER_PART \in Nat \ {0}
      /\ 2 * (NR_PART_PER_DRIVE + 1) - 1 <= 16
  BY HdAssumption DEF MAX_PRIM, MINOR_hd1a
<1>1. CASE dev \in 1 .. NR_PART_PER_DRIVE /\ Disk[0][dev].sys_id # "NO_PART"
           /\ Partition[dev] = Placed(0, Disk[0][dev])
  <2>1. PrimaryKnown(dev)
    BY <1>0, <1>1 DEF AllKnown, KnownTo
  <2>2. dev < MAX_PRIM
    BY <1>0, <1>1 DEF MAX_PRIM
  <2> QED BY <1>1, <2>1, <2>2 DEF PrimaryKnown, PartInfo
<1>2. CASE \E d \in 1 .. NR_PART_PER_DRIVE :
              /\ Disk[0][d].sys_id = "EXT_PART"
              /\ \E k \in DOMAIN Tables[d] :
                    /\ dev = MINOR_hd1a + (d - 1) * NR_SUB_PER_PART + k - 1
                    /\ Partition[dev] = Placed(Tables[d][k], Disk[Tables[d][k]][1])
  <2>1. PICK d \in 1 .. NR_PART_PER_DRIVE :
              /\ IsExtended(d)
              /\ \E k \in DOMAIN Tables[d] :
                    /\ dev = MINOR_hd1a + (d - 1) * NR_SUB_PER_PART + k - 1
                    /\ Partition[dev] = Placed(Tables[d][k], Disk[Tables[d][k]][1])
    BY <1>2 DEF IsExtended
  <2>2. PICK k \in DOMAIN Tables[d] :
              /\ dev = MINOR_hd1a + (d - 1) * NR_SUB_PER_PART + k - 1
              /\ Partition[dev] = Placed(Tables[d][k], Disk[Tables[d][k]][1])
    BY <2>1
  <2>3. k \in 1 .. NR_SUB_PER_PART
    BY <1>0, <2>1, TablesShort
  <2>4. LogicalKnown(d, k)
    BY <1>0, <2>1 DEF AllKnown, KnownTo
  <2> DEFINE at == (d - 1) * NR_SUB_PER_PART + k - 1
  <2>5. at \in 0 .. NR_SUB_PER_DRIVE - 1 /\ NR_SUB_PER_DRIVE \in Nat \ {0}
    BY <1>0, <2>3, Below DEF NR_SUB_PER_DRIVE
  <2>6. (d - 1) * NR_SUB_PER_PART \in Int
    BY <1>0, SMT
  <2>7. dev - MINOR_hd1a = at /\ dev >= 16
    BY <2>2, <2>3, <2>5, <2>6 DEF MINOR_hd1a
  <2>8. at % NR_SUB_PER_DRIVE = at
    BY <2>5, Small
  <2>9. ~ (dev < MAX_PRIM)
    BY <1>0, <2>2, <2>3, <2>6, <2>7 DEF MAX_PRIM, MINOR_hd1a
  <2>10. hd_info.logical[at] = Placed(Tables[d][k], Disk[Tables[d][k]][1])
    BY <2>4 DEF LogicalKnown
  <2> HIDE DEF at
  <2> QED BY <2>2, <2>7, <2>8, <2>9, <2>10 DEF PartInfo
<1> QED BY <1>1, <1>2, DiskAssumption

\* Where devices are.
LEMMA PartitionShape ==
    ASSUME NEW dev \in DOMAIN Partition
    PROVE  Partition[dev] \in Where
<1>1. 0 \in DOMAIN Disk /\ NR_PART_PER_DRIVE \in Nat /\ NR_PART_PER_DRIVE > 1
  BY HdAssumption, DiskAssumption
<1>2. CASE dev \in 1 .. NR_PART_PER_DRIVE /\ Partition[dev] = Placed(0, Disk[0][dev])
  BY <1>1, <1>2, EntryShape
<1>3. CASE \E d \in 1 .. NR_PART_PER_DRIVE :
              /\ IsExtended(d)
              /\ \E k \in DOMAIN Tables[d] : Partition[dev] = Placed(Tables[d][k], Disk[Tables[d][k]][1])
  <2>1. PICK d \in 1 .. NR_PART_PER_DRIVE :
              /\ IsExtended(d)
              /\ \E k \in DOMAIN Tables[d] : Partition[dev] = Placed(Tables[d][k], Disk[Tables[d][k]][1])
    BY <1>3
  <2>2. PICK k \in DOMAIN Tables[d] : Partition[dev] = Placed(Tables[d][k], Disk[Tables[d][k]][1])
    BY <2>1
  <2> QED BY <1>1, <2>1, <2>2, TablesShort, EntryShape
<1> QED BY <1>2, <1>3, DiskAssumption DEF IsExtended

-----------------------------------------------------------------------------
(***************************************************************************)
(* The driver takes a request up.                                          *)
(***************************************************************************)

\* A step of the driver between two calls, in a request.
LEMMA Serves ==
    ASSUME Runs, UNCHANGED <<ipcVars, elapsed, asked>>, Free(HD), HdHas \/ HdServes, Open(FS), ~ HdAsks,
           NEW l \in {"ask", "irq", "reply"}, Goto(HD, l), hd'.req = asked, hd'.src = FS
    PROVE  /\ K!IpcInv' /\ OnlyHdInformed' /\ Conversation' /\ halted' = "no"
           /\ has_int_msg'[HD] = has_int_msg[HD] /\ Free(HD)' /\ ~ Unserved'
           /\ pc' \in [Proc -> Label] /\ pc'[HD] = l
<1>1. pc' \in [Proc -> Label] /\ pc'[HD] = l /\ \A q \in Proc \ {HD} : pc'[q] = pc[q]
  BY Processes, Jump DEF Label, Runs, Running
<1>2. UNCHANGED <<flags, send_to, recv_from>>
  BY DEF ipcVars
<1>3. Free(HD)'
  BY <1>2, AllStill, StillSame
<1>4. HdServes'
  BY <1>1, <1>3 DEF HdServes
<1>5. /\ K!IpcInv' /\ OnlyHdInformed' /\ Conversation' /\ halted' = "no"
      /\ has_int_msg'[HD] = has_int_msg[HD]
      /\ Sends(FS, HD)' <=> Sends(FS, HD)
  BY <1>1, <1>4, Computes
<1>6. ~ Sends(FS, HD)
  BY Standing, Processes DEF OneReason, Open
<1> QED BY <1>1, <1>3, <1>5, <1>6 DEF Unserved

\* What is known then.
LEMMA HandlingAt ==
    ASSUME Runs, NEW types, Handling(types)
    PROVE  /\ pc[HD] = "handle" /\ Free(HD) /\ HdHas /\ Open(FS) /\ ~ HdAsks
           /\ buf[HD].source = FS /\ buf[HD].type = asked
           /\ asked \in Request /\ asked \in Type /\ asked.type \in types
           /\ Quiet /\ ctl = Idle
           /\ hd_info.open_cnt > 0 => AllKnown
           /\ opened \in Nat /\ hd_info.open_cnt \in Int
           /\ asked.type = "DEV_OPEN" => opened = hd_info.open_cnt + 1
           /\ asked.type = "DEV_CLOSE" => opened = hd_info.open_cnt - 1
           /\ asked.type \in {"DEV_IOCTL", "DEV_READ", "DEV_WRITE"} =>
                 opened = hd_info.open_cnt /\ hd_info.open_cnt > 0
           /\ Serving(buf[HD].type) \in Locals /\ ~ Sends(FS, HD)
<1>0. Running /\ Shapes /\ Conversation
  BY DEF Runs, Running
<1>1. pc[HD] = "handle" /\ Free(HD)
  BY SameCalls DEF Handling, At
<1>2. HdHas /\ Open(FS) /\ ~ HdAsks
  BY <1>0, <1>1, Standing DEF OneReason, Conversation, HdAt, HdIdle, HdServes, HdAsks
<1>3. buf[HD].source = FS /\ buf[HD].type = asked /\ asked.type \in types
  BY <1>2 DEF HdHas, Handling
<1>4. asked \in Request /\ asked \in Type
  <2>1. pc[FS] # "run"
    BY <1>2 DEF Open
  <2> QED BY <1>0, <2>1 DEF Conversation, FsAt, Type
<1>5. Unissued
  BY <1>0, <1>1 DEF Running, DriveAt, Wanting, Reads, Writes, InWaitfor, InIrq
<1>6. hd_info.open_cnt > 0 => AllKnown
  BY <1>0, <1>1 DEF Running, PartAt, ReadsTables, InWaitfor, InIrq
<1>7. opened \in Nat /\ hd_info.open_cnt \in Int
  BY <1>0 DEF Shapes, Infos
<1>8. Unserved
  BY <1>1 DEF Unserved
<1>9. /\ asked.type = "DEV_OPEN" => opened = hd_info.open_cnt + 1
      /\ asked.type = "DEV_CLOSE" => opened = hd_info.open_cnt - 1
      /\ asked.type \in {"DEV_IOCTL", "DEV_READ", "DEV_WRITE"} =>
            opened = hd_info.open_cnt /\ hd_info.open_cnt > 0
  <2>1. /\ Opening <=> asked.type = "DEV_OPEN"
        /\ Closing <=> asked.type = "DEV_CLOSE"
    BY <1>1, <1>8 DEF Opening, Closing, InWaitfor, InIrq
  <2> QED BY <1>0, <2>1 DEF Running, Balance
<1>10. Serving(buf[HD].type) \in Locals
  BY <1>3, <1>4, LocalShape, Processes DEF Serving
<1>11. ~ Sends(FS, HD)
  BY <1>2, Standing, Processes DEF OneReason, Open
<1> QED BY <1>1, <1>2, <1>3, <1>4, <1>5, <1>6, <1>7, <1>9, <1>10, <1>11 DEF Unissued

\* The local variables at the start of a request.
LEMMA ServingIs ==
    ASSUME NEW m
    PROVE  /\ Serving(m).req = m /\ Serving(m).src = buf[HD].source
           /\ Serving(m).cmd = Cmd("none", 0, 0) /\ Serving(m).bytes_left = 0
           /\ Serving(m).issued = FALSE /\ Serving(m).moved = <<>>
  BY DEF Serving, Local

\* A command before it is issued.
LEMMA CmdIs ==
    ASSUME NEW c, NEW l, NEW n
    PROVE  /\ Cmd(c, l, n).command = c /\ Cmd(c, l, n).lba = l /\ Cmd(c, l, n).count = n
  BY DEF Cmd

\* The local variables with another command.
LEMMA WithCmd ==
    ASSUME NEW l \in Locals, NEW c \in Commands, NEW n, n = [l EXCEPT !.cmd = c]
    PROVE  /\ n \in Locals /\ n.cmd = c /\ n.req = l.req /\ n.src = l.src /\ n.issued = l.issued
           /\ n.bytes_left = l.bytes_left /\ n.moved = l.moved /\ n.geo = l.geo /\ n.t_read = l.t_read
  BY DEF Locals

\* hd_open begins to identify the drive.
LEMMA HdOpenKeeps ==
    ASSUME Runs, HdOpen
    PROVE  Runs'
<1>0. K!IpcInv /\ Running /\ Shapes /\ OnlyHdInformed /\ Conversation /\ halted = "no"
  BY DEF Runs, Running
<1>1. /\ Handling({"DEV_OPEN"}) /\ Goto(HD, "ask")
      /\ hd' = [Serving(asked) EXCEPT !.cmd = Cmd("IDENTIFY", 0, 0)]
      /\ UNCHANGED <<ipcVars, opened, asked, elapsed, ctl, irq, part, hd_info>>
  BY HandlingAt DEF HdOpen, HdOnly, client, device
<1>2. /\ pc[HD] = "handle" /\ Free(HD) /\ HdHas /\ Open(FS) /\ ~ HdAsks
      /\ buf[HD].source = FS /\ buf[HD].type = asked
      /\ asked \in Request /\ asked.type = "DEV_OPEN"
      /\ Quiet /\ ctl = Idle
      /\ hd_info.open_cnt > 0 => AllKnown
      /\ opened = hd_info.open_cnt + 1
      /\ Serving(asked) \in Locals /\ ~ Sends(FS, HD)
  BY <1>1, HandlingAt
<1>4. /\ hd'.req = asked /\ hd'.src = FS /\ hd'.cmd.command = "IDENTIFY"
      /\ hd'.issued = FALSE /\ hd'.moved = <<>> /\ hd' \in Locals
  <2>1. Cmd("IDENTIFY", 0, 0) \in Commands
    BY DEF Cmd, Commands
  <2> DEFINE l == Serving(asked)
  <2>2. l \in Locals /\ hd' = [l EXCEPT !.cmd = Cmd("IDENTIFY", 0, 0)]
    BY <1>1, <1>2
  <2>3. l.req = asked /\ l.src = FS /\ l.issued = FALSE /\ l.moved = <<>>
    BY <1>2, ServingIs
  <2> HIDE DEF l
  <2>4. /\ hd' \in Locals /\ hd'.cmd = Cmd("IDENTIFY", 0, 0) /\ hd'.req = l.req /\ hd'.src = l.src
        /\ hd'.issued = l.issued /\ hd'.moved = l.moved
    BY <2>1, <2>2, WithCmd
  <2> QED BY <2>3, <2>4, CmdIs
<1>7. /\ K!IpcInv' /\ OnlyHdInformed' /\ Conversation' /\ halted' = "no"
      /\ has_int_msg'[HD] = has_int_msg[HD] /\ ~ Unserved' /\ pc' \in [Proc -> Label] /\ pc'[HD] = "ask"
  BY <1>1, <1>2, <1>4, Serves
<1>8. Shapes'
  BY <1>0, <1>1, <1>7, <1>4 DEF Shapes
<1>9. DriveAt'
  <2>1. Idle' = Idle
    BY DEF Idle
  <2> QED BY <1>1, <1>2, <1>4, <1>7, <2>1 DEF DriveAt, Unissued, InWaitfor, Quiet
<1>10. JobAt'
  BY <1>2, <1>7, <1>4 DEF JobAt
<1>11. PartAt'
  <2>1. AllKnown => AllKnown'
    BY <1>1 DEF AllKnown, KnownTo, PrimaryKnown, LogicalKnown
  <2> QED BY <1>1, <1>2, <1>4, <2>1 DEF PartAt, ReadsTables
<1>12. Balance'
  <2>1. Opening' /\ ~ Closing'
    BY <1>1, <1>2, <1>7, <1>4 DEF Opening, Closing, InWaitfor
  <2> QED BY <1>1, <1>2, <2>1 DEF Balance
<1> QED BY <1>7, <1>8, <1>9, <1>10, <1>11, <1>12 DEF Runs, Running

\* hd_close.
LEMMA HdCloseKeeps ==
    ASSUME Runs, HdClose
    PROVE  Runs'
<1>0. K!IpcInv /\ Running /\ Shapes /\ OnlyHdInformed /\ Conversation /\ halted = "no"
  BY DEF Runs, Running
<1>1. /\ Handling({"DEV_CLOSE"}) /\ Goto(HD, "reply")
      /\ hd' = Serving(asked) /\ hd_info' = Closed
      /\ UNCHANGED <<ipcVars, opened, asked, elapsed, ctl, irq, part>>
  BY HandlingAt DEF HdClose, client, device
<1>2. /\ pc[HD] = "handle" /\ Free(HD) /\ HdHas /\ Open(FS) /\ ~ HdAsks
      /\ buf[HD].source = FS
      /\ asked \in Request /\ asked.type = "DEV_CLOSE"
      /\ Quiet /\ ctl = Idle
      /\ hd_info.open_cnt > 0 => AllKnown
      /\ opened = hd_info.open_cnt - 1 /\ hd_info.open_cnt \in Int
      /\ Serving(asked) \in Locals /\ ~ Sends(FS, HD)
  BY <1>1, HandlingAt
<1>4. hd'.req = asked /\ hd'.src = FS /\ hd' \in Locals
  BY <1>1, <1>2, ServingIs
<1>7. /\ K!IpcInv' /\ OnlyHdInformed' /\ Conversation' /\ halted' = "no"
      /\ has_int_msg'[HD] = has_int_msg[HD] /\ ~ Unserved' /\ pc' \in [Proc -> Label] /\ pc'[HD] = "reply"
  BY <1>1, <1>2, <1>4, Serves
<1>8. /\ hd_info'.open_cnt = hd_info.open_cnt - 1 /\ hd_info'.primary = hd_info.primary
      /\ hd_info'.logical = hd_info.logical
  BY <1>0, <1>1 DEF Closed, Shapes, Infos
<1>9. Shapes'
  <2>1. hd_info' \in Infos
    BY <1>0, <1>1 DEF Closed, Shapes, Infos
  <2> QED BY <1>0, <1>1, <1>7, <1>4, <2>1 DEF Shapes
<1>10. DriveAt'
  <2>1. Idle' = Idle
    BY DEF Idle
  <2> QED BY <1>1, <1>2, <1>7, <2>1 DEF DriveAt, Unissued, Quiet
<1>11. JobAt'
  BY <1>2, <1>7, <1>4 DEF JobAt
<1>12. PartAt'
  <2>1. AllKnown => AllKnown'
    BY <1>8 DEF AllKnown, KnownTo, PrimaryKnown, LogicalKnown
  <2>2. ~ ReadsTables'
    BY <1>7 DEF ReadsTables, InWaitfor, InIrq
  <2>3. hd_info'.open_cnt > 0 => hd_info.open_cnt > 0
    BY <1>2, <1>8
  <2> QED BY <1>2, <2>1, <2>2, <2>3 DEF PartAt
<1>13. Balance'
  <2>1. ~ Opening' /\ ~ Closing'
    BY <1>1, <1>2, <1>7 DEF Opening, Closing, InWaitfor, InIrq
  <2> QED BY <1>1, <1>2, <1>8, <2>1 DEF Balance
<1> QED BY <1>7, <1>9, <1>10, <1>11, <1>12, <1>13 DEF Runs, Running

\* hd_ioctl tells where the device is.
LEMMA HdIoctlKeeps ==
    ASSUME Runs, HdIoctl
    PROVE  Runs'
<1>0. Shapes /\ halted = "no"
  BY DEF Runs, Running
<1>1. /\ Handling({"DEV_IOCTL"}) /\ Goto(HD, "reply")
      /\ hd' = [Serving(asked) EXCEPT !.geo = PartInfo(asked.dev)]
      /\ UNCHANGED <<ipcVars, opened, asked, elapsed, ctl, irq, part, hd_info>>
  BY HandlingAt DEF HdIoctl, HdOnly, client, device
<1>2. /\ Free(HD) /\ HdHas /\ Open(FS) /\ ~ HdAsks
      /\ buf[HD].source = FS
      /\ asked \in Request /\ asked.type = "DEV_IOCTL"
      /\ Quiet /\ ctl = Idle /\ AllKnown
      /\ opened = hd_info.open_cnt /\ hd_info.open_cnt > 0
      /\ Serving(asked) \in Locals
  BY <1>1, HandlingAt
<1>3. PartInfo(asked.dev) = Partition[asked.dev] /\ PartInfo(asked.dev) \in Where
  <2>1. asked.dev \in DOMAIN Partition
    BY <1>2, RequestAssumption
  <2>2. Partition[asked.dev] \in Where
    BY <2>1, PartitionShape
  <2> QED BY <1>2, <2>1, <2>2, InfoRight
<1>4. /\ hd'.req = asked /\ hd'.src = FS /\ hd' \in Locals /\ hd'.geo = Partition[asked.dev]
  <2> DEFINE l == Serving(asked)
             g == PartInfo(asked.dev)
  <2>1. l \in Locals /\ g \in Where /\ hd' = [l EXCEPT !.geo = g] /\ g = Partition[asked.dev]
    BY <1>1, <1>2, <1>3
  <2>2. l.req = asked /\ l.src = FS
    BY <1>2, ServingIs
  <2> HIDE DEF l, g
  <2>3. hd' \in Locals /\ hd'.geo = g /\ hd'.req = l.req /\ hd'.src = l.src
    BY <2>1 DEF Locals
  <2> QED BY <2>1, <2>2, <2>3
<1>5. /\ K!IpcInv' /\ OnlyHdInformed' /\ Conversation' /\ halted' = "no"
      /\ has_int_msg'[HD] = has_int_msg[HD] /\ ~ Unserved' /\ pc' \in [Proc -> Label] /\ pc'[HD] = "reply"
  BY <1>1, <1>2, <1>4, Serves
<1>6. Shapes'
  BY <1>0, <1>1, <1>4, <1>5 DEF Shapes
<1>7. DriveAt'
  <2>1. Idle' = Idle
    BY DEF Idle
  <2> QED BY <1>1, <1>2, <1>5, <2>1 DEF DriveAt, Unissued, Quiet
<1>8. JobAt'
  BY <1>2, <1>4, <1>5 DEF JobAt
<1>9. PartAt'
  <2>1. AllKnown'
    BY <1>1, <1>2 DEF AllKnown, KnownTo, PrimaryKnown, LogicalKnown
  <2>2. ~ ReadsTables'
    BY <1>5 DEF ReadsTables, InWaitfor, InIrq
  <2> QED BY <2>1, <2>2 DEF PartAt
<1>10. Balance'
  BY <1>1, <1>2, <1>5 DEF Balance, Opening, Closing
<1> QED BY <1>5, <1>6, <1>7, <1>8, <1>9, <1>10 DEF Runs, Running

\* hd_rdwt has the sectors' numbers.
LEMMA HdRdwtKeeps ==
    ASSUME Runs, HdRdwt
    PROVE  Runs'
<1>0. Shapes /\ halted = "no"
  BY DEF Runs, Running
<1> DEFINE sectors == asked.cnt \div SECTOR_SIZE
           lba == asked.pos \div SECTOR_SIZE + PartInfo(asked.dev).base
           c == Cmd(IF asked.type = "DEV_READ" THEN "READ" ELSE "WRITE", lba, sectors % REG_NSECTOR)
<1>1. /\ Handling({"DEV_READ", "DEV_WRITE"}) /\ Goto(HD, "ask")
      /\ UNCHANGED <<ipcVars, opened, asked, elapsed, ctl, irq, part, hd_info>>
  BY DEF HdRdwt, HdOnly, client, device
<1>2. /\ Free(HD) /\ HdHas /\ Open(FS) /\ ~ HdAsks
      /\ buf[HD].source = FS /\ buf[HD].type = asked
      /\ asked \in Request /\ asked.type \in {"DEV_READ", "DEV_WRITE"}
      /\ Quiet /\ ctl = Idle /\ AllKnown
      /\ opened = hd_info.open_cnt /\ hd_info.open_cnt > 0
      /\ Serving(asked) \in Locals
  BY <1>1, HandlingAt
<1>a. /\ asked.cnt \in Nat \ {0} /\ asked.cnt % SECTOR_SIZE = 0 /\ asked.pos \in Nat
      /\ asked.dev \in DOMAIN Partition /\ SECTOR_SIZE \in Nat \ {0} /\ REG_NSECTOR \in Nat \ {0}
  BY <1>2, RequestAssumption, HdAssumption
<1>b. /\ (asked.cnt + SECTOR_SIZE - 1) \div SECTOR_SIZE = sectors
      /\ sectors * SECTOR_SIZE = asked.cnt /\ sectors \in Nat \ {0}
  <2>1. /\ (asked.cnt + SECTOR_SIZE - 1) \div SECTOR_SIZE = sectors
        /\ sectors * SECTOR_SIZE = asked.cnt /\ sectors \in Nat
    BY <1>a, Whole
  <2> HIDE DEF sectors
  <2>2. sectors # 0
    BY <1>a, <2>1
  <2> QED BY <2>1, <2>2
<1>3. PartInfo(asked.dev) = Partition[asked.dev] /\ Partition[asked.dev].base \in Int
  BY <1>2, <1>a, InfoRight, PartitionShape DEF Where
<1>c. c \in Commands
  <2>1. asked.pos \div SECTOR_SIZE \in Nat
    BY <1>a, Quotient
  <2>a. \A n \in Nat : n % REG_NSECTOR \in Nat
    BY <1>a, Quotient
  <2>b. sectors % REG_NSECTOR \in Nat
    BY <1>b, <2>a
  <2>2. lba \in Int
    BY <1>3, <2>1
  <2> HIDE DEF sectors, lba
  <2> QED BY <2>b, <2>2 DEF Cmd, Commands
<1>d. hd' = [Serving(asked) EXCEPT !.cmd = c, !.bytes_left = asked.cnt]
  <2>1. hd' = [Serving(asked) EXCEPT
                  !.cmd = Cmd(IF asked.type = "DEV_READ" THEN "READ" ELSE "WRITE",
                              asked.pos \div SECTOR_SIZE + PartInfo(asked.dev).base,
                              ((asked.cnt + SECTOR_SIZE - 1) \div SECTOR_SIZE) % REG_NSECTOR),
                  !.bytes_left = asked.cnt]
    BY <1>2 DEF HdRdwt
  <2> QED BY <1>b, <2>1
<1>4. /\ hd'.req = asked /\ hd'.src = FS /\ hd' \in Locals /\ hd'.cmd = c /\ hd'.issued = FALSE
      /\ hd'.bytes_left = asked.cnt /\ hd'.moved = <<>>
  <2> DEFINE l == Serving(asked)
             b == asked.cnt
  <2>1. l \in Locals /\ hd' = [l EXCEPT !.cmd = c, !.bytes_left = b] /\ b \in Int
    BY <1>2, <1>a, <1>d
  <2>2. l.req = asked /\ l.src = FS /\ l.issued = FALSE /\ l.moved = <<>>
    BY <1>2, ServingIs
  <2> HIDE DEF l, c, b
  <2>3. /\ hd' \in Locals /\ hd'.cmd = c /\ hd'.req = l.req /\ hd'.src = l.src
        /\ hd'.issued = l.issued /\ hd'.moved = l.moved /\ hd'.bytes_left = b
    BY <1>c, <2>1 DEF Locals
  <2> QED BY <2>2, <2>3 DEF b
<1> HIDE DEF c, lba, sectors
<1>5. /\ K!IpcInv' /\ OnlyHdInformed' /\ Conversation' /\ halted' = "no"
      /\ has_int_msg'[HD] = has_int_msg[HD] /\ ~ Unserved' /\ pc' \in [Proc -> Label] /\ pc'[HD] = "ask"
  BY <1>1, <1>2, <1>4, Serves
<1>6. Shapes'
  BY <1>0, <1>1, <1>4, <1>5 DEF Shapes
<1>7. DriveAt'
  <2>1. Idle' = Idle
    BY DEF Idle
  <2> QED BY <1>1, <1>2, <1>4, <1>5, <2>1 DEF DriveAt, Unissued, Quiet, InWaitfor
<1>8. JobAt'
  <2>1. Sectors' = sectors
    BY <1>4 DEF Sectors, sectors
  <2>2. First' = lba
    <3>1. asked.pos \div SECTOR_SIZE \in Nat
      BY <1>a, Quotient
    <3> QED BY <1>3, <1>4, <3>1 DEF First, lba
  <2>3. Moved' = 0 /\ Uncounted' = 0
    BY <1>4, <1>5 DEF Moved, Uncounted, InIrq
  <2>4. hd'.bytes_left = (sectors - 0 + 0) * SECTOR_SIZE
    BY <1>b, <1>4
  <2>5. \A i \in 1 .. 0 : hd'.moved[i] = lba + i - 1
    OBVIOUS
  <2>6. Moving'
    BY <1>4, <1>5, <1>b, <2>1, <2>2, <2>3, <2>4, <2>5 DEF Moving, c
  <2> QED BY <1>2, <1>4, <2>6 DEF JobAt
<1>9. PartAt'
  <2>1. AllKnown'
    BY <1>1, <1>2 DEF AllKnown, KnownTo, PrimaryKnown, LogicalKnown
  <2>2. ~ ReadsTables'
    BY <1>2, <1>4 DEF ReadsTables
  <2> QED BY <2>1, <2>2 DEF PartAt
<1>10. Balance'
  BY <1>1, <1>2, <1>5 DEF Balance, Opening, Closing
<1> QED BY <1>5, <1>6, <1>7, <1>8, <1>9, <1>10 DEF Runs, Running

-----------------------------------------------------------------------------
(***************************************************************************)
(* The driver in waitfor and after an interrupt.                           *)
(***************************************************************************)

\* What is known then.
LEMMA ServingAt ==
    ASSUME Runs, NEW l \in {"poll", "woken"}, At(HD, l)
    PROVE  /\ pc[HD] = l /\ Free(HD) /\ HdServes /\ Open(FS) /\ ~ HdAsks /\ ~ Unserved
           /\ hd \in Locals /\ hd.req = asked /\ hd.src = FS /\ asked \in Request
           /\ asked.type \in {"DEV_OPEN", "DEV_READ", "DEV_WRITE"}
           /\ l = "poll" => Told(buf[HD])
           /\ opened \in Nat /\ hd_info.open_cnt \in Int
           /\ IF asked.type = "DEV_OPEN" /\ hd.cmd.command = "IDENTIFY"
              THEN opened = hd_info.open_cnt + 1
              ELSE opened = hd_info.open_cnt
           /\ asked.type \in {"DEV_READ", "DEV_WRITE"} => Moving /\ opened > 0
           /\ asked.type = "DEV_OPEN" =>
                 /\ hd.moved = <<>>
                 /\ hd.cmd.command = "IDENTIFY" \/ (hd.cmd.command = "READ" /\ hd.cmd.count = 1)
<1>0. Running /\ Shapes /\ Conversation
  BY DEF Runs, Running
<1>1. pc[HD] = l /\ Free(HD)
  BY SameCalls DEF At
<1>2. HdServes /\ Open(FS) /\ ~ HdAsks /\ (l = "poll" => Told(buf[HD]))
  BY <1>0, <1>1, Standing, Processes DEF OneReason, Conversation, HdAt, HdIdle, HdHas, HdServes, HdAsks
<1>3. ~ Unserved
  BY <1>1, <1>2, Standing, Processes DEF OneReason, Open, Unserved
<1>4. hd.req = asked /\ hd.src = FS /\ hd \in Locals
  BY <1>0, <1>2 DEF HdServes, Shapes
<1>5. asked \in Request
  <2>1. pc[FS] # "run"
    BY <1>2 DEF Open
  <2> QED BY <1>0, <2>1 DEF Conversation, FsAt
<1>6. InWaitfor \/ InIrq
  BY <1>1 DEF InWaitfor, InIrq
<1>7. asked.type \in {"DEV_OPEN", "DEV_READ", "DEV_WRITE"}
  BY <1>0, <1>1, <1>4, <1>5, <1>6, RequestAssumption DEF Running, JobAt
<1>8. /\ asked.type \in {"DEV_READ", "DEV_WRITE"} => Moving
      /\ asked.type = "DEV_OPEN" =>
            /\ hd.moved = <<>>
            /\ hd.cmd.command = "IDENTIFY" \/ (hd.cmd.command = "READ" /\ hd.cmd.count = 1)
  BY <1>0, <1>1, <1>4, <1>6 DEF Running, JobAt
<1>9. /\ Opening <=> asked.type = "DEV_OPEN" /\ hd.cmd.command = "IDENTIFY"
      /\ ~ Closing
  BY <1>3, <1>6 DEF Opening, Closing
<1>10. opened \in Nat /\ hd_info.open_cnt \in Int
  BY <1>0 DEF Shapes, Infos
<1>11. /\ IF asked.type = "DEV_OPEN" /\ hd.cmd.command = "IDENTIFY"
          THEN opened = hd_info.open_cnt + 1
          ELSE opened = hd_info.open_cnt
       /\ asked.type \in {"DEV_READ", "DEV_WRITE"} => opened > 0
  BY <1>0, <1>9 DEF Running, Balance
<1> QED BY <1>1, <1>2, <1>3, <1>4, <1>5, <1>7, <1>8, <1>10, <1>11

\* The opens counted, when no open becomes or stops being one to count.
LEMMA BalanceSame ==
    ASSUME asked' = asked, opened' = opened, hd_info'.open_cnt = hd_info.open_cnt,
           asked.type \in {"DEV_OPEN", "DEV_READ", "DEV_WRITE"},
           asked.type \in {"DEV_READ", "DEV_WRITE"} => opened > 0,
           ~ Unserved',
           IF asked.type = "DEV_OPEN" /\ (InWaitfor' \/ InIrq') /\ hd'.cmd.command = "IDENTIFY"
           THEN opened = hd_info.open_cnt + 1
           ELSE opened = hd_info.open_cnt
    PROVE  Balance'
<1>1. /\ Opening' <=> asked.type = "DEV_OPEN" /\ (InWaitfor' \/ InIrq') /\ hd'.cmd.command = "IDENTIFY"
      /\ ~ Closing'
  BY DEF Opening, Closing
<1> QED BY <1>1 DEF Balance

\* waitfor asks again.
LEMMA HdAgainKeeps ==
    ASSUME Runs, HdAgain
    PROVE  Runs'
<1>0. Shapes /\ Running
  BY DEF Runs, Running
<1>1. /\ At(HD, "poll") /\ Goto(HD, "ask")
      /\ hd' = [hd EXCEPT !.t_read = TRUE]
      /\ UNCHANGED <<ipcVars, opened, asked, elapsed, ctl, irq, part, hd_info>>
  BY DEF HdAgain, HdOnly, client, device
<1>2. /\ pc[HD] = "poll" /\ Free(HD) /\ HdServes /\ Open(FS) /\ ~ HdAsks /\ ~ Unserved
      /\ hd \in Locals /\ hd.req = asked /\ hd.src = FS
  BY <1>1, ServingAt
<1>3. /\ hd' \in Locals /\ hd'.src = hd.src
      /\ UNCHANGED <<hd.req, hd.cmd, hd.issued, hd.bytes_left, hd.moved, hd.geo>>
  BY <1>1, <1>2 DEF Locals
<1>4. hd'.req = asked /\ hd'.src = FS
  BY <1>2, <1>3
<1>5. /\ K!IpcInv' /\ OnlyHdInformed' /\ Conversation' /\ halted' = "no"
      /\ has_int_msg'[HD] = has_int_msg[HD] /\ ~ Unserved' /\ pc' \in [Proc -> Label] /\ pc'[HD] = "ask"
  BY <1>1, <1>2, <1>4, Serves
<1>6. Shapes'
  BY <1>0, <1>1, <1>3, <1>5 DEF Shapes
<1>7. SameStage /\ ~ Taken /\ ~ Taken'
  BY <1>2, <1>5 DEF SameStage, InWaitfor, InIrq, Taken
<1>8. Data'
  BY <1>0, <1>1, <1>3, <1>5, <1>7, DataKept DEF Running, Data
<1>9. Balance'
  BY <1>0, <1>1, <1>2, <1>3, <1>5, <1>7, BalanceKept DEF Running, SameStage
<1> QED BY <1>5, <1>6, <1>8, <1>9 DEF Runs, Running, Data

\* What cmd.count stands for, and that a request has at least as many sectors.
LEMMA Counted ==
    ASSUME hd \in Locals
    PROVE  /\ Count \in Nat \ {0} /\ Moved \in Nat
           /\ hd.cmd.count = 1 => Count = 1
           /\ hd.req \in Request /\ hd.req.type \in {"DEV_READ", "DEV_WRITE"} =>
                 /\ Sectors \in Nat \ {0}
                 /\ Moving => Count <= Sectors
<1>1. hd.cmd.count \in Nat /\ REG_NSECTOR \in Nat \ {0} /\ SECTOR_SIZE \in Nat \ {0}
  BY HdAssumption DEF Locals, Commands
<1>2. Count \in Nat \ {0} /\ (hd.cmd.count = 1 => Count = 1)
  BY <1>1 DEF Count
<1>3. Moved \in Nat
  BY DEF Moved, Locals
<1>4. ASSUME hd.req \in Request, hd.req.type \in {"DEV_READ", "DEV_WRITE"}
      PROVE  Sectors \in Nat \ {0} /\ (Moving => Count <= Sectors)
  <2>1. hd.req.cnt \in Nat \ {0} /\ hd.req.cnt % SECTOR_SIZE = 0
    BY <1>4, RequestAssumption
  <2>2. Sectors * SECTOR_SIZE = hd.req.cnt /\ Sectors \in Nat
    BY <1>1, <2>1, Whole DEF Sectors
  <2>3. Sectors \in Nat \ {0}
    BY <1>1, <2>1, <2>2
  <2>4. Moving => hd.cmd.count = Sectors % REG_NSECTOR
    BY CmdIs DEF Moving
  <2>5. /\ Sectors % REG_NSECTOR \in Nat /\ Sectors % REG_NSECTOR <= Sectors
        /\ Sectors % REG_NSECTOR = 0 => REG_NSECTOR <= Sectors
    BY <1>1, <2>3, Wrap
  <2> QED BY <2>3, <2>4, <2>5 DEF Count
<1> QED BY <1>2, <1>3, <1>4

\* Where a request's sectors start.
LEMMA FirstShape ==
    ASSUME hd.req \in Request, hd.req.type \in {"DEV_READ", "DEV_WRITE"}
    PROVE  First \in Int
<1>1. /\ hd.req.pos \in Nat /\ hd.req.dev \in DOMAIN Partition /\ SECTOR_SIZE \in Nat \ {0}
  BY RequestAssumption, HdAssumption
<1>2. hd.req.pos \div SECTOR_SIZE \in Nat
  BY <1>1, Quotient
<1>3. Partition[hd.req.dev].base \in Int
  BY <1>1, PartitionShape DEF Where
<1> QED BY <1>2, <1>3 DEF First

\* A command is put out.
LEMMA HdCmdOutKeeps ==
    ASSUME Runs, HdCmdOut
    PROVE  Runs'
<1>0. Shapes /\ Running
  BY DEF Runs, Running
<1>1. /\ At(HD, "poll") /\ hd.issued = FALSE /\ Goto(HD, AfterCmd)
      /\ Accept(hd.cmd)
      /\ hd' = [hd EXCEPT !.issued = TRUE, !.t_read = FALSE]
      /\ UNCHANGED <<ipcVars, opened, asked, elapsed, irq, part, hd_info>>
  BY <1>0 DEF HdCmdOut, InTime, client, Shapes, Locals
<1>2. /\ pc[HD] = "poll" /\ Free(HD) /\ HdServes /\ Open(FS) /\ ~ HdAsks /\ ~ Unserved
      /\ hd \in Locals /\ hd.req = asked /\ hd.src = FS /\ asked \in Request
      /\ asked.type \in {"DEV_OPEN", "DEV_READ", "DEV_WRITE"}
      /\ opened \in Nat /\ hd_info.open_cnt \in Int
      /\ IF asked.type = "DEV_OPEN" /\ hd.cmd.command = "IDENTIFY"
         THEN opened = hd_info.open_cnt + 1
         ELSE opened = hd_info.open_cnt
      /\ asked.type \in {"DEV_READ", "DEV_WRITE"} => Moving /\ opened > 0
      /\ asked.type = "DEV_OPEN" =>
            /\ hd.moved = <<>>
            /\ hd.cmd.command = "IDENTIFY" \/ (hd.cmd.command = "READ" /\ hd.cmd.count = 1)
  BY <1>1, ServingAt
<1>3. /\ hd' \in Locals /\ hd'.src = hd.src /\ hd'.issued = TRUE
      /\ UNCHANGED <<hd.req, hd.cmd, hd.bytes_left, hd.moved, hd.geo>>
  BY <1>1, <1>2 DEF Locals
<1>4. AfterCmd \in {"ask", "irq"} /\ (AfterCmd = "ask" <=> hd.cmd.command = "WRITE")
  BY DEF AfterCmd
<1>5. PICK l \in {"ask", "irq"} : l = AfterCmd
  BY <1>4
<1>6. hd'.req = asked /\ hd'.src = FS /\ Goto(HD, l) /\ l \in {"ask", "irq", "reply"}
  BY <1>1, <1>2, <1>3, <1>5
<1>7. /\ K!IpcInv' /\ OnlyHdInformed' /\ Conversation' /\ halted' = "no"
      /\ has_int_msg'[HD] = has_int_msg[HD] /\ ~ Unserved' /\ pc' \in [Proc -> Label] /\ pc'[HD] = l
  BY <1>1, <1>2, <1>6, Serves
<1>8. /\ ctl'.status = "busy" /\ ctl'.command = hd.cmd.command /\ ctl'.next = hd.cmd.lba /\ ctl'.left = Count
      /\ ctl' \in Controls
  <2>1. Count \in Nat \ {0} /\ hd.cmd.lba \in Int /\ hd.cmd.command \in {"none", "READ", "IDENTIFY", "WRITE"}
    BY <1>2, Counted DEF Locals, Commands
  <2>2. ctl' = [status |-> "busy", command |-> hd.cmd.command, next |-> hd.cmd.lba, left |-> Count]
    BY <1>1 DEF Accept, Count
  <2> QED BY <2>1, <2>2 DEF Controls
<1>9. Shapes'
  BY <1>0, <1>1, <1>3, <1>7, <1>8 DEF Shapes
<1>10. Quiet /\ InWaitfor
  BY <1>0, <1>1, <1>2 DEF Running, DriveAt, Unissued, Wanting, Reads, Writes, InWaitfor, InIrq
<1>11. Moved = 0 /\ hd.cmd.command \in {"READ", "IDENTIFY", "WRITE"}
  <2>1. CASE asked.type = "DEV_OPEN"
    BY <1>2, <2>1 DEF Moved
  <2>2. CASE asked.type \in {"DEV_READ", "DEV_WRITE"}
    BY <1>1, <1>2, <1>10, <2>2, CmdIs DEF Moving
  <2> QED BY <1>2, <2>1, <2>2
<1>12. DriveAt'
  <2>1. Count' = Count /\ Moved' = 0 /\ Count \in Nat \ {0} /\ hd.cmd.lba \in Int
    BY <1>2, <1>3, <1>11, Counted DEF Count, Moved, Locals, Commands
  <2>2. InStep("busy", hd.cmd.command)' /\ (ctl.left > 0)'
    BY <1>3, <1>8, <2>1 DEF InStep
  <2>3. Quiet' /\ ~ Taken'
    BY <1>1, <1>7, <1>10 DEF Quiet, Taken
  <2>4. CASE hd.cmd.command = "WRITE"
    BY <1>3, <1>4, <1>5, <1>7, <2>2, <2>3, <2>4 DEF DriveAt, Wanting, InWaitfor
  <2>5. CASE hd.cmd.command # "WRITE"
    BY <1>3, <1>4, <1>5, <1>7, <1>11, <2>2, <2>3, <2>5 DEF DriveAt, Reads, InIrq, NoneYet
  <2> QED BY <2>4, <2>5
<1>13. JobAt'
  <2>1. Moving => Moving'
    <3>1. Uncounted = 0 /\ Uncounted' = 0
      BY <1>2, <1>3, <1>4, <1>5, <1>7 DEF Uncounted, InIrq
    <3> QED BY <1>2, <1>3, <1>7, <3>1 DEF Moving, Moved, Sectors, First
  <2> QED BY <1>2, <1>3, <2>1 DEF JobAt
<1>14. PartAt'
  <2>1. AtTable => AtTable'
    BY <1>1, <1>3 DEF AtTable, KnownTo, PrimaryKnown, LogicalKnown
  <2>2. AllKnown => AllKnown'
    BY <1>1 DEF AllKnown, KnownTo, PrimaryKnown, LogicalKnown
  <2>3. ReadsTables' <=> ReadsTables
    BY <1>3, <1>7, <1>10 DEF ReadsTables, InWaitfor, InIrq
  <2> QED BY <1>0, <1>1, <2>1, <2>2, <2>3 DEF PartAt, Running
<1>15. Balance'
  <2>1. InWaitfor' \/ InIrq'
    BY <1>7 DEF InWaitfor, InIrq
  <2> QED BY <1>1, <1>2, <1>3, <1>7, <2>1, BalanceSame
<1> QED BY <1>7, <1>9, <1>12, <1>13, <1>14, <1>15 DEF Runs, Running

\* One more sector, the next one, has been moved.
LEMMA MovedOn ==
    ASSUME NEW s \in Seq(Int), NEW f \in Int, \A i \in 1 .. Len(s) : s[i] = f + i - 1,
           NEW x, x = f + Len(s)
    PROVE  /\ Append(s, x) \in Seq(Int) /\ Len(Append(s, x)) = Len(s) + 1
           /\ \A i \in 1 .. Len(s) + 1 : Append(s, x)[i] = f + i - 1
<1>1. Len(s) \in Nat /\ x \in Int
  OBVIOUS
<1>2. Append(s, x) \in Seq(Int) /\ Len(Append(s, x)) = Len(s) + 1
  BY <1>1
<1>3. ASSUME NEW i \in 1 .. Len(s) + 1 PROVE Append(s, x)[i] = f + i - 1
  <2>1. CASE i \in 1 .. Len(s)
    BY <1>1, <2>1
  <2>2. CASE i = Len(s) + 1
    BY <1>1, <2>2
  <2> QED BY <1>1, <2>1, <2>2
<1> QED BY <1>2, <1>3

\* The controller's place after a sector.
LEMMA TookIs ==
    ASSUME NEW c \in Controls
    PROVE  /\ Took(c) \in Controls
           /\ Took(c).next = c.next + 1 /\ Took(c).left = c.left - 1 /\ Took(c).command = c.command
<1>1. c.next + 1 \in Int /\ c.left - 1 \in Int
  BY DEF Controls
<1>2. Took(c).next = c.next + 1 /\ Took(c).left = c.left - 1 /\ Took(c).command = c.command
  BY DEF Took, Controls
<1> DEFINE n == c.next + 1
           l == c.left - 1
<1>3. n \in Int /\ l \in Int /\ Took(c) = [c EXCEPT !.next = n, !.left = l]
  BY <1>1 DEF Took
<1> HIDE DEF n, l
<1>4. Took(c) \in Controls
  BY <1>3 DEF Controls
<1> QED BY <1>2, <1>4

\* A sector has been given to the controller.
LEMMA HdPortWriteKeeps ==
    ASSUME Runs, HdPortWrite
    PROVE  Runs'
<1>0. Shapes /\ Running
  BY DEF Runs, Running
<1>1. /\ At(HD, "poll") /\ hd.issued = TRUE /\ Reached /\ Goto(HD, "irq")
      /\ port_write
      /\ hd' = [hd EXCEPT !.moved = Append(hd.moved, AtPort), !.t_read = FALSE]
      /\ UNCHANGED <<ipcVars, opened, asked, elapsed, irq, part, hd_info>>
  BY <1>0 DEF HdPortWrite, InTime, AfterPortWrite, client, Shapes, Locals
<1>2. /\ pc[HD] = "poll" /\ Free(HD) /\ HdServes /\ Open(FS) /\ ~ HdAsks /\ ~ Unserved
      /\ hd \in Locals /\ hd.req = asked /\ hd.src = FS /\ asked \in Request
      /\ asked.type \in {"DEV_OPEN", "DEV_READ", "DEV_WRITE"}
      /\ asked.type \in {"DEV_READ", "DEV_WRITE"} => Moving /\ opened > 0
      /\ asked.type = "DEV_OPEN" =>
            hd.cmd.command = "IDENTIFY" \/ (hd.cmd.command = "READ" /\ hd.cmd.count = 1)
      /\ IF asked.type = "DEV_OPEN" /\ hd.cmd.command = "IDENTIFY"
         THEN opened = hd_info.open_cnt + 1
         ELSE opened = hd_info.open_cnt
  BY <1>1, ServingAt
<1>3. /\ Wanting /\ hd.cmd.command = "WRITE" /\ Quiet
      /\ InStep("drq", "WRITING") /\ ctl.left > 0
  <2>1. Wanting
    BY <1>0, <1>1, <1>2 DEF Running, DriveAt, Unissued, Reads, Writes, InIrq, InWaitfor
  <2>2. ctl.status = "drq"
    BY <1>1 DEF Reached
  <2> QED BY <2>1, <2>2 DEF Wanting, InStep, Idle
<1>4. asked.type \in {"DEV_READ", "DEV_WRITE"} /\ Moving /\ opened > 0
  BY <1>2, <1>3
<1>5. /\ First \in Int /\ Sectors \in Nat \ {0} /\ Count \in Nat /\ Moved \in Nat /\ hd.cmd.lba = First
  BY <1>2, <1>4, FirstShape, Counted, CmdIs DEF Moving
<1>6. AtPort = First + Moved
  BY <1>3, <1>5 DEF AtPort, InStep
<1>7. /\ Append(hd.moved, AtPort) \in Seq(Int) /\ Len(Append(hd.moved, AtPort)) = Moved + 1
      /\ \A i \in 1 .. Moved + 1 : Append(hd.moved, AtPort)[i] = First + i - 1
  <2>1. hd.moved \in Seq(Int) /\ \A i \in 1 .. Len(hd.moved) : hd.moved[i] = First + i - 1
    BY <1>2, <1>4 DEF Moving, Moved, Locals
  <2>2. AtPort = First + Len(hd.moved)
    BY <1>6 DEF Moved
  <2> QED BY <1>5, <2>1, <2>2, MovedOn DEF Moved
<1>8. /\ hd' \in Locals /\ hd'.src = hd.src /\ hd'.moved = Append(hd.moved, AtPort)
      /\ UNCHANGED <<hd.req, hd.cmd, hd.bytes_left, hd.issued, hd.geo>>
  <2> DEFINE m == Append(hd.moved, AtPort)
  <2>1. m \in Seq(Int) /\ hd' = [hd EXCEPT !.moved = m, !.t_read = FALSE]
    BY <1>1, <1>7
  <2> HIDE DEF m
  <2>2. /\ hd' \in Locals /\ hd'.src = hd.src /\ hd'.moved = m
        /\ UNCHANGED <<hd.req, hd.cmd, hd.bytes_left, hd.issued, hd.geo>>
    BY <1>2, <2>1 DEF Locals
  <2> QED BY <2>2 DEF m
<1>9. hd'.req = asked /\ hd'.src = FS
  BY <1>2, <1>8
<1>10. /\ K!IpcInv' /\ OnlyHdInformed' /\ Conversation' /\ halted' = "no"
       /\ has_int_msg'[HD] = has_int_msg[HD] /\ ~ Unserved' /\ pc' \in [Proc -> Label] /\ pc'[HD] = "irq"
  BY <1>1, <1>2, <1>9, Serves
<1>11. /\ ctl'.status = "busy" /\ ctl'.command = "WRITING" /\ ctl'.next = ctl.next + 1 /\ ctl'.left = ctl.left - 1
       /\ ctl' \in Controls
  <2>1. ctl \in Controls
    BY <1>0 DEF Shapes
  <2>2. Took(ctl).next = ctl.next + 1 /\ Took(ctl).left = ctl.left - 1 /\ Took(ctl).command = ctl.command
        /\ Took(ctl) \in Controls
    BY <2>1, TookIs
  <2>3. ctl' = [Took(ctl) EXCEPT !.status = "busy"]
    BY <1>1 DEF port_write
  <2>4. /\ ctl'.status = "busy" /\ ctl'.command = ctl.command /\ ctl'.next = Took(ctl).next
        /\ ctl'.left = Took(ctl).left /\ ctl' \in Controls
    BY <2>2, <2>3 DEF Controls
  <2> QED BY <1>3, <2>2, <2>4 DEF InStep
<1>12. Shapes'
  BY <1>0, <1>1, <1>8, <1>10, <1>11 DEF Shapes
<1>13. Moved' = Moved + 1 /\ Count' = Count /\ Sectors' = Sectors /\ First' = First
  BY <1>7, <1>8 DEF Moved, Count, Sectors, First
<1>14. DriveAt'
  <2>1. Quiet' /\ ~ Taken'
    BY <1>1, <1>3, <1>10 DEF Quiet, Taken
  <2>2. ctl.left \in Int /\ ctl.left = Count - Moved /\ ctl.next = hd.cmd.lba + Moved /\ hd.cmd.lba \in Int
    BY <1>3, <1>5 DEF InStep
  <2>3. InStep("busy", "WRITING")' /\ (ctl.left >= 0)'
    BY <1>3, <1>5, <1>8, <1>11, <1>13, <2>2 DEF InStep
  <2> QED BY <1>1, <1>3, <1>8, <1>10, <2>1, <2>3 DEF DriveAt, Writes, InIrq, NoneYet
<1>15. JobAt'
  <2>1. Uncounted = 0 /\ Uncounted' = 1
    BY <1>2, <1>3, <1>8, <1>10 DEF Uncounted, InIrq
  <2>2. /\ hd.bytes_left = (Sectors - Moved + 0) * SECTOR_SIZE /\ Moved < Sectors
    BY <1>2, <1>4, <1>5, <2>1 DEF Moving
  <2>3. Sectors - Moved + 0 = Sectors - (Moved + 1) + 1 /\ Moved + 1 < Sectors + 1
    BY <1>5, <2>2
  <2>4. hd'.bytes_left = (Sectors' - Moved' + Uncounted') * SECTOR_SIZE
    BY <1>8, <1>13, <2>1, <2>2, <2>3
  <2>5. /\ hd'.cmd = hd.cmd
        /\ hd.cmd = Cmd(IF hd.req.type = "DEV_READ" THEN "READ" ELSE "WRITE", First, Sectors % REG_NSECTOR)
    BY <1>4, <1>8 DEF Moving
  <2>6. Moving'
    BY <1>7, <1>8, <1>10, <1>13, <2>1, <2>3, <2>4, <2>5 DEF Moving, InWaitfor
  <2> QED BY <1>4, <1>9, <2>6 DEF JobAt
<1>16. PartAt'
  <2>1. AllKnown => AllKnown'
    BY <1>1 DEF AllKnown, KnownTo, PrimaryKnown, LogicalKnown
  <2>2. ~ ReadsTables' /\ ~ ReadsTables
    BY <1>3, <1>8 DEF ReadsTables
  <2> QED BY <1>0, <1>1, <2>1, <2>2 DEF PartAt, Running
<1>17. Balance'
  BY <1>1, <1>2, <1>4, <1>10, BalanceSame
<1> QED BY <1>10, <1>12, <1>14, <1>15, <1>16, <1>17 DEF Runs, Running

\* The driver has taken an interrupt, so the controller has come to the sector.
LEMMA WokenAt ==
    ASSUME Runs, At(HD, "woken")
    PROVE  /\ Quiet /\ InIrq /\ hd.issued
           /\ \/ /\ hd.cmd.command \in {"READ", "IDENTIFY"}
                 /\ InStep("drq", hd.cmd.command) /\ ctl.left > 0
              \/ /\ hd.cmd.command = "WRITE"
                 /\ \/ InStep("drq", "WRITING") /\ ctl.left > 0
                    \/ ctl = Idle
<1>1. pc[HD] = "woken" /\ Free(HD) /\ DriveAt
  BY ServingAt DEF Runs, Running
<1>2. Taken /\ InIrq /\ ~ InWaitfor
  BY <1>1 DEF Taken, InIrq, InWaitfor
<1>3. Reads \/ Writes
  BY <1>1, <1>2 DEF DriveAt, Unissued, Wanting
<1>4. ~ NoneYet /\ (One => Quiet)
  BY <1>2 DEF NoneYet, One
<1> QED BY <1>2, <1>3, <1>4 DEF Reads, Writes

\* What the controller does when its sector is read.
LEMMA PortRead ==
    ASSUME ctl \in Controls, ctl.status = "drq", port_read
    PROVE  /\ ctl' \in Controls
           /\ ctl.left = 1 \/ ctl.command = "IDENTIFY" => ctl' = Idle
           /\ ctl.left # 1 /\ ctl.command # "IDENTIFY" =>
                 /\ ctl'.status = "busy" /\ ctl'.command = ctl.command
                 /\ ctl'.next = ctl.next + 1 /\ ctl'.left = ctl.left - 1
<1>1. Idle \in Controls
  BY DEF Idle, Controls
<1>2. /\ Took(ctl).next = ctl.next + 1 /\ Took(ctl).left = ctl.left - 1 /\ Took(ctl).command = ctl.command
      /\ Took(ctl) \in Controls
  BY TookIs
<1>3. CASE ctl' = [Took(ctl) EXCEPT !.status = "busy"] /\ ctl.left # 1 /\ ctl.command # "IDENTIFY"
  <2>1. /\ ctl'.status = "busy" /\ ctl'.command = Took(ctl).command /\ ctl'.next = Took(ctl).next
        /\ ctl'.left = Took(ctl).left /\ ctl' \in Controls
    BY <1>2, <1>3 DEF Controls
  <2> QED BY <1>2, <1>3, <2>1
<1>4. CASE ctl' = Idle /\ (ctl.left = 1 \/ ctl.command = "IDENTIFY")
  BY <1>1, <1>4
<1> QED BY <1>3, <1>4 DEF port_read

\* hd_rdwt has a sector that was read.
LEMMA HdSectorReadKeeps ==
    ASSUME Runs, HdSectorRead
    PROVE  Runs'
<1>0. Shapes /\ Running
  BY DEF Runs, Running
<1>1. /\ At(HD, "woken") /\ hd.cmd.command = "READ" /\ hd.req.type = "DEV_READ"
      /\ Goto(HD, LoopOr("irq"))
      /\ port_read
      /\ hd' = [hd EXCEPT !.moved = Append(hd.moved, AtPort), !.bytes_left = hd.bytes_left - SECTOR_SIZE]
      /\ UNCHANGED <<ipcVars, opened, asked, elapsed, irq, part, hd_info>>
  BY <1>0 DEF HdSectorRead, Woken, AfterPortRead, client, Shapes, Locals
<1>2. /\ pc[HD] = "woken" /\ Free(HD) /\ HdServes /\ Open(FS) /\ ~ HdAsks /\ ~ Unserved
      /\ hd \in Locals /\ hd.req = asked /\ hd.src = FS /\ asked \in Request
      /\ asked.type = "DEV_READ"
      /\ Moving /\ opened > 0 /\ opened = hd_info.open_cnt
  BY <1>1, ServingAt
<1>3. Quiet /\ InIrq /\ hd.issued /\ InStep("drq", "READ") /\ ctl.left > 0
  BY <1>1, WokenAt
<1>4. /\ First \in Int /\ Sectors \in Nat \ {0} /\ Count \in Nat /\ Moved \in Nat /\ hd.cmd.lba = First
      /\ Count <= Sectors
  BY <1>2, FirstShape, Counted, CmdIs DEF Moving
<1>5. AtPort = First + Moved
  BY <1>3, <1>4 DEF AtPort, InStep
<1>6. /\ Append(hd.moved, AtPort) \in Seq(Int) /\ Len(Append(hd.moved, AtPort)) = Moved + 1
      /\ \A i \in 1 .. Moved + 1 : Append(hd.moved, AtPort)[i] = First + i - 1
  <2> DEFINE s == hd.moved
             x == AtPort
  <2>1. s \in Seq(Int) /\ (\A i \in 1 .. Len(s) : s[i] = First + i - 1) /\ Len(s) = Moved
    BY <1>2 DEF Moving, Moved, Locals
  <2>2. x = First + Len(s) /\ First \in Int
    BY <1>4, <1>5 DEF Moved
  <2> HIDE DEF s, x
  <2>3. /\ Append(s, x) \in Seq(Int) /\ Len(Append(s, x)) = Len(s) + 1
        /\ \A i \in 1 .. Len(s) + 1 : Append(s, x)[i] = First + i - 1
    BY <2>1, <2>2, MovedOn
  <2> QED BY <2>1, <2>3 DEF s, x
<1>7. /\ hd.bytes_left = (Sectors - Moved) * SECTOR_SIZE
      /\ hd.bytes_left - SECTOR_SIZE = (Sectors - (Moved + 1)) * SECTOR_SIZE
      /\ hd.bytes_left - SECTOR_SIZE \in Int
      /\ hd.bytes_left - SECTOR_SIZE = 0 <=> Sectors = Moved + 1
      /\ Moved < Sectors
  <2>1. SECTOR_SIZE \in Nat \ {0} /\ Sectors - Moved \in Int /\ Sectors - Moved - 1 \in Int
    BY <1>4, HdAssumption
  <2>2. Uncounted = 0
    BY <1>1 DEF Uncounted
  <2>3. /\ hd.bytes_left = (Sectors - Moved + 0) * SECTOR_SIZE /\ Moved < Sectors + 0
    BY <1>2, <2>2 DEF Moving
  <2>4. hd.bytes_left = (Sectors - Moved) * SECTOR_SIZE /\ Moved < Sectors
    BY <1>4, <2>3
  <2>5. /\ (Sectors - Moved) * SECTOR_SIZE \in Int
        /\ (Sectors - Moved) * SECTOR_SIZE - SECTOR_SIZE = (Sectors - Moved - 1) * SECTOR_SIZE
        /\ (Sectors - Moved) * SECTOR_SIZE = SECTOR_SIZE <=> Sectors - Moved = 1
    BY <2>1, OneLess
  <2>6. Sectors - Moved - 1 = Sectors - (Moved + 1) /\ (Sectors - Moved = 1 <=> Sectors = Moved + 1)
    BY <1>4
  <2> QED BY <2>1, <2>4, <2>5, <2>6
<1>8. PICK l \in {"irq", "reply"} : Goto(HD, l) /\ (l = "reply" <=> Sectors = Moved + 1)
  BY <1>1, <1>7 DEF LoopOr
<1>9. /\ hd' \in Locals /\ hd'.src = hd.src /\ hd'.moved = Append(hd.moved, AtPort)
      /\ hd'.bytes_left = hd.bytes_left - SECTOR_SIZE
      /\ UNCHANGED <<hd.req, hd.cmd, hd.issued, hd.geo>>
  <2> DEFINE m == Append(hd.moved, AtPort)
             b == hd.bytes_left - SECTOR_SIZE
  <2>1. m \in Seq(Int) /\ b \in Int /\ hd' = [hd EXCEPT !.moved = m, !.bytes_left = b]
    BY <1>1, <1>6, <1>7
  <2> HIDE DEF m, b
  <2>2. /\ hd' \in Locals /\ hd'.src = hd.src /\ hd'.moved = m /\ hd'.bytes_left = b
        /\ UNCHANGED <<hd.req, hd.cmd, hd.issued, hd.geo>>
    BY <1>2, <2>1 DEF Locals
  <2> QED BY <2>2 DEF m, b
<1>10. hd'.req = asked /\ hd'.src = FS /\ l \in {"ask", "irq", "reply"}
  BY <1>2, <1>9
<1>11. /\ K!IpcInv' /\ OnlyHdInformed' /\ Conversation' /\ halted' = "no"
       /\ has_int_msg'[HD] = has_int_msg[HD] /\ ~ Unserved' /\ pc' \in [Proc -> Label] /\ pc'[HD] = l
  BY <1>1, <1>2, <1>8, <1>10, Serves
<1>12. /\ ctl' \in Controls
       /\ ctl.left = 1 => ctl' = Idle
       /\ ctl.left # 1 => /\ ctl'.status = "busy" /\ ctl'.command = "READ"
                          /\ ctl'.next = ctl.next + 1 /\ ctl'.left = ctl.left - 1
  <2>1. ctl \in Controls /\ ctl.status = "drq" /\ ctl.command = "READ"
    BY <1>0, <1>3 DEF Shapes, InStep
  <2> QED BY <1>1, <2>1, PortRead
<1>13. Shapes'
  BY <1>0, <1>1, <1>9, <1>11, <1>12 DEF Shapes
<1>14. Moved' = Moved + 1 /\ Count' = Count /\ Sectors' = Sectors /\ First' = First /\ Idle' = Idle
  BY <1>6, <1>9 DEF Moved, Count, Sectors, First, Idle
<1>15. DriveAt'
  <2>1. Quiet' /\ ~ Taken'
    BY <1>1, <1>3, <1>11 DEF Quiet, Taken
  <2>2. ctl.left \in Int /\ ctl.left = Count - Moved /\ ctl.next = hd.cmd.lba + Moved /\ hd.cmd.lba \in Int
    BY <1>3, <1>4 DEF InStep
  <2>a. ctl.next + 1 = hd.cmd.lba + (Moved + 1) /\ ctl.left - 1 = Count - (Moved + 1)
    BY <1>4, <2>2
  <2>b. ctl.left # 1 => ctl.left - 1 > 0
    BY <1>3, <2>2
  <2>3. ctl.left # 1 => InStep("busy", "READ")' /\ (ctl.left > 0)'
    BY <1>9, <1>12, <1>14, <2>a, <2>b DEF InStep
  <2>4. CASE l = "irq"
    BY <1>1, <1>3, <1>9, <1>11, <1>12, <1>14, <2>1, <2>3, <2>4 DEF DriveAt, Reads, InIrq, NoneYet
  <2>5. CASE l = "reply"
    <3>1. ctl.left = 1
      BY <1>3, <1>4, <1>8, <2>2, <2>5
    <3> QED BY <1>11, <1>12, <1>14, <2>1, <2>5, <3>1 DEF DriveAt, Unissued
  <2> QED BY <2>4, <2>5
<1>16. JobAt'
  <2>1. Uncounted' = 0
    BY <1>1, <1>9 DEF Uncounted
  <2>2. /\ hd'.bytes_left = (Sectors - (Moved + 1)) * SECTOR_SIZE
        /\ Sectors - (Moved + 1) = Sectors - (Moved + 1) + 0
    BY <1>4, <1>7, <1>9
  <2>3. hd'.bytes_left = (Sectors' - Moved' + Uncounted') * SECTOR_SIZE
    BY <1>14, <2>1, <2>2
  <2>4. /\ hd'.cmd = hd.cmd
        /\ hd.cmd = Cmd(IF hd.req.type = "DEV_READ" THEN "READ" ELSE "WRITE", First, Sectors % REG_NSECTOR)
    BY <1>2, <1>9 DEF Moving
  <2>5. IF pc'[HD] = "reply" THEN Moved' = Sectors' ELSE Moved' < Sectors' + Uncounted'
    BY <1>4, <1>7, <1>8, <1>11, <1>14, <2>1
  <2>6. ~ InWaitfor'
    BY <1>11 DEF InWaitfor
  <2>7. Moving'
    BY <1>6, <1>9, <1>14, <2>3, <2>4, <2>5, <2>6 DEF Moving
  <2> QED BY <1>2, <1>10, <2>7 DEF JobAt
<1>17. PartAt'
  <2>1. AllKnown => AllKnown'
    BY <1>1 DEF AllKnown, KnownTo, PrimaryKnown, LogicalKnown
  <2>2. ~ ReadsTables' /\ ~ ReadsTables
    BY <1>1, <1>9 DEF ReadsTables
  <2> QED BY <1>0, <1>1, <2>1, <2>2 DEF PartAt, Running
<1>18. Balance'
  BY <1>1, <1>2, <1>11, BalanceSame
<1> QED BY <1>11, <1>13, <1>15, <1>16, <1>17, <1>18 DEF Runs, Running

\* hd_rdwt has written a sector.
LEMMA HdSectorWrittenKeeps ==
    ASSUME Runs, HdSectorWritten
    PROVE  Runs'
<1>0. Shapes /\ Running
  BY DEF Runs, Running
<1>1. /\ At(HD, "woken") /\ hd.cmd.command = "WRITE"
      /\ Goto(HD, LoopOr("ask"))
      /\ hd' = [hd EXCEPT !.bytes_left = hd.bytes_left - SECTOR_SIZE]
      /\ UNCHANGED <<ipcVars, opened, asked, elapsed, ctl, irq, part, hd_info>>
  BY <1>0 DEF HdSectorWritten, Woken, HdOnly, client, device, Shapes, Locals
<1>2. /\ pc[HD] = "woken" /\ Free(HD) /\ HdServes /\ Open(FS) /\ ~ HdAsks /\ ~ Unserved
      /\ hd \in Locals /\ hd.req = asked /\ hd.src = FS /\ asked \in Request
      /\ asked.type \in {"DEV_READ", "DEV_WRITE"}
      /\ Moving /\ opened > 0 /\ opened = hd_info.open_cnt
  BY <1>1, ServingAt
<1>3. /\ Quiet /\ InIrq /\ hd.issued
      /\ \/ InStep("drq", "WRITING") /\ ctl.left > 0
         \/ ctl = Idle
  BY <1>1, WokenAt
<1>4. /\ Sectors \in Nat \ {0} /\ Count \in Nat /\ Moved \in Nat /\ Count <= Sectors
  BY <1>2, Counted
<1>7. /\ hd.bytes_left = (Sectors - Moved + 1) * SECTOR_SIZE
      /\ hd.bytes_left - SECTOR_SIZE = (Sectors - Moved) * SECTOR_SIZE
      /\ hd.bytes_left - SECTOR_SIZE \in Int
      /\ hd.bytes_left - SECTOR_SIZE = 0 <=> Sectors = Moved
      /\ Moved < Sectors + 1
  <2>1. SECTOR_SIZE \in Nat \ {0} /\ Sectors - Moved + 1 \in Int
    BY <1>4, HdAssumption
  <2>2. Uncounted = 1
    BY <1>1, <1>3 DEF Uncounted
  <2>4. /\ hd.bytes_left = (Sectors - Moved + 1) * SECTOR_SIZE /\ Moved < Sectors + 1
    BY <1>2, <2>2 DEF Moving
  <2>5. PICK a \in Int : a = Sectors - Moved + 1
    BY <2>1
  <2>6. hd.bytes_left = a * SECTOR_SIZE
    BY <2>4, <2>5
  <2>7. /\ a * SECTOR_SIZE \in Int /\ a * SECTOR_SIZE - SECTOR_SIZE = (a - 1) * SECTOR_SIZE
        /\ a * SECTOR_SIZE = SECTOR_SIZE <=> a = 1
    BY <2>1, OneLess
  <2>8. a - 1 = Sectors - Moved /\ (a = 1 <=> Sectors = Moved)
    BY <1>4, <2>5
  <2>9. hd.bytes_left - SECTOR_SIZE = (Sectors - Moved) * SECTOR_SIZE
    BY <2>6, <2>7, <2>8
  <2>10. hd.bytes_left - SECTOR_SIZE \in Int /\ (hd.bytes_left - SECTOR_SIZE = 0 <=> Sectors = Moved)
    <3>1. \A x, y \in Int : (x - y = 0 <=> x = y) /\ x - y \in Int
      OBVIOUS
    <3> QED BY <2>1, <2>6, <2>7, <2>8, <3>1
  <2> QED BY <2>4, <2>9, <2>10
<1>8. PICK l \in {"ask", "reply"} : Goto(HD, l) /\ (l = "reply" <=> Sectors = Moved)
  BY <1>1, <1>7 DEF LoopOr
<1>9. /\ hd' \in Locals /\ hd'.src = hd.src
      /\ hd'.bytes_left = hd.bytes_left - SECTOR_SIZE
      /\ UNCHANGED <<hd.req, hd.cmd, hd.issued, hd.moved, hd.geo>>
  <2> DEFINE b == hd.bytes_left - SECTOR_SIZE
  <2>1. b \in Int /\ hd' = [hd EXCEPT !.bytes_left = b]
    BY <1>1, <1>7
  <2> HIDE DEF b
  <2>2. /\ hd' \in Locals /\ hd'.src = hd.src /\ hd'.bytes_left = b
        /\ UNCHANGED <<hd.req, hd.cmd, hd.issued, hd.moved, hd.geo>>
    BY <1>2, <2>1 DEF Locals
  <2> QED BY <2>2 DEF b
<1>10. hd'.req = asked /\ hd'.src = FS /\ l \in {"ask", "irq", "reply"}
  BY <1>2, <1>9
<1>11. /\ K!IpcInv' /\ OnlyHdInformed' /\ Conversation' /\ halted' = "no"
       /\ has_int_msg'[HD] = has_int_msg[HD] /\ ~ Unserved' /\ pc' \in [Proc -> Label] /\ pc'[HD] = l
  BY <1>1, <1>2, <1>8, <1>10, Serves
<1>13. Shapes'
  BY <1>0, <1>1, <1>9, <1>11 DEF Shapes
<1>14. Moved' = Moved /\ Count' = Count /\ Sectors' = Sectors /\ First' = First /\ Idle' = Idle
  BY <1>9 DEF Moved, Count, Sectors, First, Idle
<1>15. DriveAt'
  <2>1. Quiet'
    BY <1>1, <1>3, <1>11 DEF Quiet
  <2>3. InStep("drq", "WRITING") => InStep("drq", "WRITING")'
    BY <1>1, <1>9, <1>14 DEF InStep
  <2>4. CASE l = "ask"
    BY <1>1, <1>3, <1>9, <1>11, <1>14, <2>1, <2>3, <2>4 DEF DriveAt, Wanting, InWaitfor
  <2>5. CASE l = "reply"
    <3>1. ~ (InStep("drq", "WRITING") /\ ctl.left > 0)
      BY <1>4, <1>8, <2>5 DEF InStep
    <3> QED BY <1>1, <1>3, <1>11, <1>14, <2>1, <2>5, <3>1 DEF DriveAt, Unissued
  <2> QED BY <2>4, <2>5
<1>16. JobAt'
  <2>1. Uncounted' = 0
    BY <1>8, <1>11 DEF Uncounted, InIrq
  <2>2. /\ hd'.bytes_left = (Sectors - Moved) * SECTOR_SIZE /\ Sectors - Moved = Sectors - Moved + 0
    BY <1>4, <1>7, <1>9
  <2>3. hd'.bytes_left = (Sectors' - Moved' + Uncounted') * SECTOR_SIZE
    BY <1>14, <2>1, <2>2
  <2>4. /\ hd'.cmd = hd.cmd
        /\ hd.cmd = Cmd(IF hd.req.type = "DEV_READ" THEN "READ" ELSE "WRITE", First, Sectors % REG_NSECTOR)
        /\ \A i \in 1 .. Moved : hd.moved[i] = First + i - 1
    BY <1>2, <1>9 DEF Moving
  <2>5. IF pc'[HD] = "reply" THEN Moved' = Sectors' ELSE Moved' < Sectors' + Uncounted'
    BY <1>4, <1>7, <1>8, <1>11, <1>14, <2>1
  <2>6. hd'.issued
    BY <1>3, <1>9
  <2>7. Moving'
    BY <1>9, <1>14, <2>3, <2>4, <2>5, <2>6 DEF Moving
  <2> QED BY <1>2, <1>10, <2>7 DEF JobAt
<1>17. PartAt'
  <2>1. AllKnown => AllKnown'
    BY <1>1 DEF AllKnown, KnownTo, PrimaryKnown, LogicalKnown
  <2>2. ~ ReadsTables' /\ ~ ReadsTables
    BY <1>1, <1>9 DEF ReadsTables
  <2> QED BY <1>0, <1>1, <2>1, <2>2 DEF PartAt, Running
<1>18. Balance'
  BY <1>1, <1>2, <1>11, BalanceSame
<1> QED BY <1>11, <1>13, <1>15, <1>16, <1>17, <1>18 DEF Runs, Running

-----------------------------------------------------------------------------
(***************************************************************************)
(* hd_open: the drive is identified, the partition tables are read.        *)
(***************************************************************************)

\* get_part_table asks for one sector.
LEMMA GetTable ==
    ASSUME hd \in Locals, NEW n \in Int, get_part_table(n)
    PROVE  /\ Goto(HD, "ask")
           /\ hd' \in Locals /\ hd'.cmd = Cmd("READ", n, 1) /\ hd'.issued = FALSE
           /\ hd'.req = hd.req /\ hd'.src = hd.src /\ hd'.moved = hd.moved
<1>1. Cmd("READ", n, 1) \in Commands
  BY DEF Cmd, Commands
<1> DEFINE c == Cmd("READ", n, 1)
<1>2. c \in Commands /\ hd' = [hd EXCEPT !.cmd = c, !.issued = FALSE] /\ Goto(HD, "ask")
  BY <1>1 DEF get_part_table
<1> HIDE DEF c
<1>3. /\ hd' \in Locals /\ hd'.cmd = c /\ hd'.issued = FALSE
      /\ hd'.req = hd.req /\ hd'.src = hd.src /\ hd'.moved = hd.moved
  BY <1>2 DEF Locals
<1> QED BY <1>2, <1>3 DEF c

\* The drive is identified; the first table is asked for, if it was not open.
LEMMA HdIdentifiedKeeps ==
    ASSUME Runs, HdIdentified
    PROVE  Runs'
<1>0. Shapes /\ Running
  BY DEF Runs, Running
<1>1. /\ At(HD, "woken") /\ hd.cmd.command = "IDENTIFY" /\ port_read
      /\ hd_info' = [hd_info EXCEPT !.open_cnt = hd_info.open_cnt + 1]
      /\ part' = [part EXCEPT !.dev = 0]
      /\ UNCHANGED <<ipcVars, opened, asked, elapsed, irq>>
  BY <1>0 DEF HdIdentified, Woken, client, Shapes, Infos
<1>2. /\ pc[HD] = "woken" /\ Free(HD) /\ HdServes /\ Open(FS) /\ ~ HdAsks /\ ~ Unserved
      /\ hd \in Locals /\ hd.req = asked /\ hd.src = FS /\ asked \in Request
      /\ asked.type = "DEV_OPEN" /\ hd.moved = <<>>
      /\ opened \in Nat /\ hd_info.open_cnt \in Int /\ opened = hd_info.open_cnt + 1
  <2>1. /\ pc[HD] = "woken" /\ Free(HD) /\ HdServes /\ Open(FS) /\ ~ HdAsks /\ ~ Unserved
        /\ hd \in Locals /\ hd.req = asked /\ hd.src = FS /\ asked \in Request
        /\ asked.type \in {"DEV_OPEN", "DEV_READ", "DEV_WRITE"}
        /\ opened \in Nat /\ hd_info.open_cnt \in Int
        /\ asked.type = "DEV_OPEN" => opened = hd_info.open_cnt + 1
        /\ asked.type \in {"DEV_READ", "DEV_WRITE"} => Moving
        /\ asked.type = "DEV_OPEN" => hd.moved = <<>>
    BY <1>1, ServingAt
  <2>2. Moving => hd.cmd.command # "IDENTIFY"
    BY CmdIs DEF Moving
  <2> QED BY <1>1, <2>1, <2>2
<1>3. Quiet /\ InIrq /\ InStep("drq", "IDENTIFY")
  BY <1>1, WokenAt
<1>4. ctl' = Idle
  <2>1. ctl \in Controls /\ ctl.status = "drq" /\ ctl.command = "IDENTIFY"
    BY <1>0, <1>3 DEF Shapes, InStep
  <2> QED BY <1>1, <2>1, PortRead
<1>5. PICK l \in {"ask", "reply"} :
         /\ Goto(HD, l)
         /\ hd' \in Locals /\ hd'.req = asked /\ hd'.src = FS /\ hd'.moved = <<>>
         /\ IF l = "ask"
            THEN hd_info.open_cnt = 0 /\ hd'.cmd = Cmd("READ", 0, 1) /\ hd'.issued = FALSE
            ELSE hd_info.open_cnt # 0 /\ hd' = hd
  <2>1. CASE hd_info.open_cnt = 0
    <3>1. get_part_table(0)
      BY <2>1 DEF HdIdentified
    <3> QED BY <1>2, <2>1, <3>1, GetTable
  <2>2. CASE hd_info.open_cnt # 0
    <3>1. Goto(HD, "reply") /\ hd' = hd
      BY <2>2 DEF HdIdentified
    <3> QED BY <1>2, <2>2, <3>1
  <2> QED BY <2>1, <2>2
<1>6. /\ K!IpcInv' /\ OnlyHdInformed' /\ Conversation' /\ halted' = "no"
      /\ has_int_msg'[HD] = has_int_msg[HD] /\ ~ Unserved' /\ pc' \in [Proc -> Label] /\ pc'[HD] = l
  BY <1>1, <1>2, <1>5, Serves
<1>7. /\ hd_info' \in Infos /\ hd_info'.open_cnt = hd_info.open_cnt + 1
      /\ hd_info'.primary = hd_info.primary /\ hd_info'.logical = hd_info.logical
  <2>1. hd_info \in Infos
    BY <1>0 DEF Shapes
  <2>2. PICK n \in Int : n = hd_info.open_cnt + 1
    BY <1>2
  <2>3. hd_info' = [hd_info EXCEPT !.open_cnt = n]
    BY <1>1, <2>2
  <2> QED BY <2>1, <2>2, <2>3 DEF Infos
<1>8. part' \in Parts /\ part'.dev = 0
  <2>1. part \in Parts /\ 0 \in 0 .. NR_PART_PER_DRIVE
    BY <1>0, HdAssumption DEF Shapes
  <2> QED BY <1>1, <2>1 DEF Parts
<1>9. Shapes'
  <2>1. ctl' \in Controls
    BY <1>4 DEF Controls, Idle
  <2> QED BY <1>0, <1>1, <1>5, <1>6, <1>7, <1>8, <2>1 DEF Shapes
<1>10. DriveAt'
  <2>1. Idle' = Idle
    BY DEF Idle
  <2> QED BY <1>1, <1>3, <1>4, <1>5, <1>6, <2>1 DEF DriveAt, Unissued, Quiet, InWaitfor
<1>11. JobAt'
  BY <1>2, <1>5, <1>6, CmdIs DEF JobAt, InWaitfor, InIrq
<1>12. PartAt'
  <2>1. CASE l = "ask"
    <3>1. hd'.cmd.lba = 0
      BY <1>5, <2>1, CmdIs
    <3>2. AtTable'
      BY <1>8, <3>1 DEF AtTable
    <3>3. ReadsTables'
      BY <1>2, <1>5, <1>6, <2>1, CmdIs DEF ReadsTables, InWaitfor
    <3> QED BY <3>2, <3>3 DEF PartAt
  <2>2. CASE l = "reply"
    <3>1. ~ ReadsTables' /\ ~ ReadsTables
      BY <1>1, <1>6, <2>2 DEF ReadsTables, InWaitfor, InIrq
    <3>2. hd_info'.open_cnt > 0 => hd_info.open_cnt > 0
      BY <1>2, <1>5, <1>7, <2>2
    <3>3. AllKnown => AllKnown'
      BY <1>7 DEF AllKnown, KnownTo, PrimaryKnown, LogicalKnown
    <3> QED BY <1>0, <3>1, <3>2, <3>3 DEF PartAt, Running
  <2> QED BY <2>1, <2>2
<1>13. Balance'
  <2>1. ~ Opening' /\ ~ Closing'
    BY <1>1, <1>2, <1>5, <1>6, CmdIs DEF Opening, Closing, InWaitfor, InIrq
  <2> QED BY <1>1, <1>2, <1>7, <2>1 DEF Balance
<1> QED BY <1>6, <1>9, <1>10, <1>11, <1>12, <1>13 DEF Runs, Running

\* A table has been read.
LEMMA TableAt ==
    ASSUME Runs, Partitioning, port_read
    PROVE  /\ pc[HD] = "woken" /\ Free(HD) /\ HdServes /\ Open(FS) /\ ~ HdAsks /\ ~ Unserved
           /\ hd \in Locals /\ hd.req = asked /\ hd.src = FS /\ asked \in Request
           /\ asked.type = "DEV_OPEN" /\ hd.moved = <<>> /\ hd.cmd.command = "READ"
           /\ opened = hd_info.open_cnt
           /\ Quiet /\ ctl' = Idle /\ AtTable /\ AtPort = hd.cmd.lba
<1>0. Shapes /\ Running
  BY DEF Runs, Running
<1>1. At(HD, "woken") /\ hd.cmd.command = "READ" /\ hd.req.type = "DEV_OPEN"
  BY DEF Partitioning, Woken
<1>2. /\ pc[HD] = "woken" /\ Free(HD) /\ HdServes /\ Open(FS) /\ ~ HdAsks /\ ~ Unserved
      /\ hd \in Locals /\ hd.req = asked /\ hd.src = FS /\ asked \in Request
      /\ asked.type = "DEV_OPEN" /\ hd.moved = <<>> /\ hd.cmd.count = 1
      /\ opened = hd_info.open_cnt
  BY <1>1, ServingAt
<1>3. Quiet /\ InIrq /\ InStep("drq", "READ")
  BY <1>1, WokenAt
<1>4. Count = 1 /\ Moved = 0 /\ hd.cmd.lba \in Int
  BY <1>2, Counted DEF Moved, Locals, Commands
<1>5. ctl.left = 1 /\ ctl.next = hd.cmd.lba /\ ctl.status = "drq"
  BY <1>3, <1>4 DEF InStep
<1>6. ctl' = Idle
  BY <1>0, <1>5, PortRead DEF Shapes
<1>7. AtTable
  BY <1>0, <1>1, <1>3 DEF Running, PartAt, ReadsTables
<1> QED BY <1>1, <1>2, <1>3, <1>5, <1>6, <1>7 DEF AtPort

\* The loop of partition over the primary partitions.
LEMMA PrimariesOn ==
    ASSUME hd \in Locals, part \in Parts, hd_info \in Infos,
           NEW i \in 1 .. NR_PART_PER_DRIVE + 1, NEW log \in Logicals,
           PrimariesFrom(i, Disk[0], log),
           \A d \in 1 .. i - 1 : PrimaryKnown(d),
           \A d \in 1 .. i - 1 : IsExtended(d) =>
               \A k \in DOMAIN Tables[d] :
                   log[(d - 1) * NR_SUB_PER_PART + k - 1] = Placed(Tables[d][k], Disk[Tables[d][k]][1])
    PROVE  /\ hd_info' \in Infos /\ hd_info'.open_cnt = hd_info.open_cnt
           /\ part' \in Parts
           /\ hd' \in Locals /\ hd'.req = hd.req /\ hd'.src = hd.src /\ hd'.moved = hd.moved
           /\ \/ /\ Goto(HD, "ask")
                 /\ hd'.cmd.command = "READ" /\ hd'.cmd.count = 1 /\ hd'.issued = FALSE
                 /\ AtTable'
              \/ Goto(HD, "reply") /\ hd' = hd /\ AllKnown'
<1>0. NR_PART_PER_DRIVE \in Nat /\ 0 \in DOMAIN Disk
  BY HdAssumption, DiskAssumption
<1> DEFINE tbl == Disk[0]
           Ext(last) == last >= i /\ tbl[last].sys_id = "EXT_PART"
           Prim(last) == [d \in DOMAIN hd_info.primary |->
                             IF d \in i .. last /\ tbl[d].sys_id # "NO_PART" THEN Placed(0, tbl[d])
                             ELSE hd_info.primary[d]]
<1>1. PICK last \in i - 1 .. NR_PART_PER_DRIVE :
         /\ \A e \in i .. last - 1 : tbl[e].sys_id # "EXT_PART"
         /\ Ext(last) \/ last = NR_PART_PER_DRIVE
         /\ hd_info' = [hd_info EXCEPT !.logical = log, !.primary = Prim(last)]
         /\ IF Ext(last)
            THEN /\ get_part_table(tbl[last].start_sect)
                 /\ part' = [tbl |-> tbl, dev |-> last, sub |-> 0, s |-> tbl[last].start_sect]
            ELSE Goto(HD, "reply") /\ part' = [part EXCEPT !.tbl = tbl] /\ hd' = hd
  BY DEF PrimariesFrom, Infos
<1>2. \A d \in 1 .. NR_PART_PER_DRIVE : Placed(0, tbl[d]) \in Where
  BY <1>0, EntryShape
<1>3. Prim(last) \in [0 .. NR_PART_PER_DRIVE -> Where] /\ DOMAIN hd_info.primary = 0 .. NR_PART_PER_DRIVE
  BY <1>0, <1>2 DEF Infos
<1>4. \A d \in 0 .. NR_PART_PER_DRIVE :
         Prim(last)[d] = IF d \in i .. last /\ tbl[d].sys_id # "NO_PART" THEN Placed(0, tbl[d])
                         ELSE hd_info.primary[d]
  BY <1>3
<1>5. /\ hd_info' \in Infos /\ hd_info'.open_cnt = hd_info.open_cnt
      /\ hd_info'.logical = log /\ hd_info'.primary = Prim(last)
  <2> HIDE DEF Prim
  <2> QED BY <1>1, <1>3 DEF Infos
<1>6. \A d \in 1 .. last : PrimaryKnown(d)'
  <2> SUFFICES ASSUME NEW d \in 1 .. last, tbl[d].sys_id # "NO_PART"
               PROVE  hd_info'.primary[d] = Placed(0, tbl[d])
    BY DEF PrimaryKnown
  <2>1. d \in 0 .. NR_PART_PER_DRIVE /\ (d \in i .. last \/ d \in 1 .. i - 1)
    BY <1>0
  <2> HIDE DEF Prim
  <2> QED BY <1>4, <1>5, <2>1 DEF PrimaryKnown
<1>7. \A d \in 1 .. i - 1 : IsExtended(d) => \A k \in DOMAIN Tables[d] : LogicalKnown(d, k)'
  BY <1>5 DEF LogicalKnown
<1>8. \A d \in 1 .. last - 1 : d \in 1 .. i - 1 \/ ~ IsExtended(d)
  BY <1>0, <1>1 DEF IsExtended
<1>9. CASE Ext(last)
  <2>1. last \in 1 .. NR_PART_PER_DRIVE /\ IsExtended(last)
    BY <1>0, <1>9 DEF IsExtended
  <2>2. Disk[0][last].start_sect \in Nat
    BY <1>0, <2>1, EntryShape
  <2>a. PICK n \in Int : n = Disk[0][last].start_sect
    BY <2>2
  <2>b. get_part_table(n)
    BY <1>1, <1>9, <2>a
  <2>3. /\ Goto(HD, "ask") /\ hd' \in Locals /\ hd'.req = hd.req /\ hd'.src = hd.src /\ hd'.moved = hd.moved
        /\ hd'.cmd = Cmd("READ", n, 1) /\ hd'.issued = FALSE
    BY <2>b, GetTable
  <2>4. part'.tbl = Disk[0] /\ part'.dev = last /\ part'.sub = 0 /\ part'.s = Disk[0][last].start_sect
    BY <1>1, <1>9
  <2>5. part' \in Parts
    BY <1>0, <1>1, <1>9, <2>1, <2>2 DEF Parts, Entries
  <2>6. 1 \in DOMAIN Tables[last] /\ Tables[last][1] = Disk[0][last].start_sect
    BY <2>1, TablesShort
  <2>7. hd'.cmd.lba = Disk[0][last].start_sect /\ hd'.cmd.command = "READ" /\ hd'.cmd.count = 1
    BY <2>3, <2>a, CmdIs
  <2>8. KnownTo(last)'
    BY <1>0, <1>6, <1>7, <1>8 DEF KnownTo
  <2>9. AtTable'
    <3>1. 0 + 1 = 1 /\ 1 .. 0 = {}
      OBVIOUS
    <3> HIDE DEF tbl
    <3> QED BY <2>1, <2>4, <2>6, <2>7, <2>8, <3>1 DEF AtTable, KnownTo, PrimaryKnown, LogicalKnown
  <2> QED BY <1>5, <2>3, <2>5, <2>7, <2>9
<1>10. CASE ~ Ext(last)
  <2>1. last = NR_PART_PER_DRIVE /\ Goto(HD, "reply") /\ part' = [part EXCEPT !.tbl = tbl] /\ hd' = hd
    BY <1>1, <1>10
  <2>2. part' \in Parts
    BY <1>0, <2>1 DEF Parts, Entries
  <2>3. \A d \in 1 .. NR_PART_PER_DRIVE : d \in 1 .. i - 1 \/ ~ IsExtended(d)
    BY <1>0, <1>8, <1>10, <2>1 DEF IsExtended
  <2>4. AllKnown'
    BY <1>0, <1>6, <1>7, <2>1, <2>3 DEF AllKnown, KnownTo
  <2> QED BY <1>5, <2>1, <2>2, <2>4
<1> QED BY <1>9, <1>10

\* After a table the driver reads the next one, or is done with all of them.
LEMMA TableDone ==
    ASSUME Runs, Partitioning, port_read, UNCHANGED <<ipcVars, opened, asked, elapsed, irq>>,
           hd_info' \in Infos, hd_info'.open_cnt = hd_info.open_cnt, part' \in Parts,
           hd' \in Locals, hd'.req = hd.req, hd'.src = hd.src, hd'.moved = hd.moved,
           \/ /\ Goto(HD, "ask")
              /\ hd'.cmd.command = "READ" /\ hd'.cmd.count = 1 /\ hd'.issued = FALSE
              /\ AtTable'
           \/ Goto(HD, "reply") /\ hd' = hd /\ AllKnown'
    PROVE  Runs'
<1>0. Shapes /\ Running
  BY DEF Runs, Running
<1>1. /\ pc[HD] = "woken" /\ Free(HD) /\ HdServes /\ Open(FS) /\ ~ HdAsks /\ ~ Unserved
      /\ hd \in Locals /\ hd.req = asked /\ hd.src = FS /\ asked \in Request
      /\ asked.type = "DEV_OPEN" /\ hd.moved = <<>> /\ hd.cmd.command = "READ"
      /\ opened = hd_info.open_cnt
      /\ Quiet /\ ctl' = Idle
  BY TableAt
<1>2. PICK l \in {"ask", "reply"} :
         /\ Goto(HD, l)
         /\ IF l = "ask"
            THEN hd'.cmd.command = "READ" /\ hd'.cmd.count = 1 /\ hd'.issued = FALSE /\ AtTable'
            ELSE hd' = hd /\ AllKnown'
  OBVIOUS
<1>3. hd'.req = asked /\ hd'.src = FS /\ l \in {"ask", "irq", "reply"}
  BY <1>1
<1>4. /\ K!IpcInv' /\ OnlyHdInformed' /\ Conversation' /\ halted' = "no"
      /\ has_int_msg'[HD] = has_int_msg[HD] /\ ~ Unserved' /\ pc' \in [Proc -> Label] /\ pc'[HD] = l
  BY <1>1, <1>2, <1>3, Serves
<1>5. Shapes'
  <2>1. ctl' \in Controls
    BY <1>1 DEF Controls, Idle
  <2> QED BY <1>0, <1>4, <2>1 DEF Shapes
<1>6. DriveAt'
  <2>1. Idle' = Idle
    BY DEF Idle
  <2> QED BY <1>1, <1>2, <1>4, <2>1 DEF DriveAt, Unissued, Quiet, InWaitfor
<1>7. JobAt'
  BY <1>1, <1>2, <1>3, <1>4 DEF JobAt
<1>8. PartAt'
  <2>1. CASE l = "ask"
    <3>1. ReadsTables'
      BY <1>1, <1>2, <1>3, <1>4, <2>1 DEF ReadsTables, InWaitfor
    <3> QED BY <1>2, <2>1, <3>1 DEF PartAt
  <2>2. CASE l = "reply"
    <3>1. ~ ReadsTables'
      BY <1>4, <2>2 DEF ReadsTables, InWaitfor, InIrq
    <3> QED BY <1>2, <2>2, <3>1 DEF PartAt
  <2> QED BY <2>1, <2>2
<1>9. Balance'
  <2>1. hd'.cmd.command # "IDENTIFY"
    BY <1>1, <1>2
  <2> QED BY <1>1, <1>4, <2>1, BalanceSame
<1> QED BY <1>4, <1>5, <1>6, <1>7, <1>8, <1>9 DEF Runs, Running

\* The first table has been read.
LEMMA HdPrimaryKeeps ==
    ASSUME Runs, HdPrimary
    PROVE  Runs'
<1>0. Shapes /\ Running
  BY DEF Runs, Running
<1>1. /\ Partitioning /\ port_read /\ part.dev = 0
      /\ UNCHANGED <<ipcVars, opened, asked, elapsed, irq>>
  BY DEF HdPrimary, client
<1>2. hd \in Locals /\ AtTable /\ AtPort = hd.cmd.lba
  BY <1>1, TableAt
<1>3. AtPort = 0 /\ 0 \in DOMAIN Disk /\ NR_PART_PER_DRIVE \in Nat
  BY <1>1, <1>2, HdAssumption, DiskAssumption DEF AtTable
<1>4. PICK log \in Logicals : log = hd_info.logical
  BY <1>0 DEF Shapes, Infos
<1>5. PrimariesFrom(1, Disk[0], log)
  BY <1>3, <1>4 DEF HdPrimary, TableRead
<1>6. 1 .. 1 - 1 = {} /\ 1 \in 1 .. NR_PART_PER_DRIVE + 1
  BY <1>3
<1>7. /\ hd_info' \in Infos /\ hd_info'.open_cnt = hd_info.open_cnt
      /\ part' \in Parts
      /\ hd' \in Locals /\ hd'.req = hd.req /\ hd'.src = hd.src /\ hd'.moved = hd.moved
      /\ \/ /\ Goto(HD, "ask")
            /\ hd'.cmd.command = "READ" /\ hd'.cmd.count = 1 /\ hd'.issued = FALSE
            /\ AtTable'
         \/ Goto(HD, "reply") /\ hd' = hd /\ AllKnown'
  BY <1>0, <1>2, <1>5, <1>6, PrimariesOn DEF Shapes
<1> QED BY <1>1, <1>7, TableDone

\* A table of an extended partition has been read.
LEMMA HdExtendedKeeps ==
    ASSUME Runs, HdExtended
    PROVE  Runs'
<1>0. Shapes /\ Running
  BY DEF Runs, Running
<1>1. /\ Partitioning /\ port_read /\ part.dev # 0
      /\ UNCHANGED <<ipcVars, opened, asked, elapsed, irq>>
  BY DEF HdExtended, client
<1>2. hd \in Locals /\ part \in Parts /\ hd_info \in Infos /\ AtTable /\ AtPort = hd.cmd.lba
  BY <1>0, <1>1, TableAt DEF Shapes
<1>3. /\ NR_PART_PER_DRIVE \in Nat \ {0} /\ NR_SUB_PER_PART \in Nat \ {0}
      /\ 0 \in DOMAIN Disk
  BY HdAssumption, DiskAssumption
<1>4a. PICK dev \in 1 .. NR_PART_PER_DRIVE : dev = part.dev /\ part.sub + 1 \in DOMAIN Tables[dev]
  BY <1>1, <1>2 DEF AtTable
<1>4b. PICK k \in DOMAIN Tables[dev] : k = part.sub + 1
  BY <1>4a
<1>4. dev \in 1 .. NR_PART_PER_DRIVE /\ k \in DOMAIN Tables[dev] /\ dev = part.dev /\ k = part.sub + 1
  BY <1>4a, <1>4b
<1>5. /\ IsExtended(dev) /\ part.tbl = Disk[0]
      /\ part.s = Tables[dev][k] /\ hd.cmd.lba = Tables[dev][k]
      /\ KnownTo(dev)
      /\ \A j \in 1 .. k - 1 : LogicalKnown(dev, j)
  <2>1. part.sub \in Nat /\ k - 1 = part.sub
    BY <1>2, <1>4 DEF Parts
  <2> QED BY <1>1, <1>2, <1>4, <2>1 DEF AtTable
<1>6. /\ k \in 1 .. Len(Tables[dev]) /\ Len(Tables[dev]) \in 1 .. NR_SUB_PER_PART
      /\ DOMAIN Tables[dev] = 1 .. Len(Tables[dev])
      /\ Tables[dev][k] \in DOMAIN Disk /\ Tables[dev][k] \in Nat /\ k \in 1 .. NR_SUB_PER_PART
      /\ Tables[dev][1] = Disk[0][dev].start_sect
  BY <1>3, <1>4, <1>5, TablesShort
<1>7. TableRead = Disk[Tables[dev][k]]
  BY <1>2, <1>5, <1>6 DEF TableRead
<1>8. PICK at \in 0 .. NR_SUB_PER_DRIVE - 1 :
         at = (dev - 1) * NR_SUB_PER_PART + k - 1 /\ at = (part.dev - 1) * NR_SUB_PER_PART + part.sub
  <2>1. (dev - 1) * NR_SUB_PER_PART + k - 1 \in 0 .. NR_SUB_PER_DRIVE - 1
    BY <1>3, <1>6, Below DEF NR_SUB_PER_DRIVE
  <2>2. PICK m \in Int : m = (dev - 1) * NR_SUB_PER_PART
    BY <1>3, SMT
  <2>3. part.sub \in Nat /\ m + k - 1 = m + part.sub
    BY <1>2, <1>4, <2>2 DEF Parts
  <2> QED BY <1>4, <2>1, <2>2, <2>3
<1>9. PICK here \in Where : here = Placed(Tables[dev][k], Disk[Tables[dev][k]][1])
  BY <1>3, <1>6, EntryShape
<1>10. PICK log \in Logicals : log = LogicalRead /\ log = [hd_info.logical EXCEPT ![at] = here]
  <2>1. LogicalRead = [hd_info.logical EXCEPT ![at] = here]
    BY <1>5, <1>7, <1>8, <1>9 DEF LogicalRead
  <2>2. [hd_info.logical EXCEPT ![at] = here] \in Logicals
    BY <1>2, <1>8, <1>9 DEF Infos, Logicals
  <2> QED BY <2>1, <2>2
<1>11. log[at] = here /\ \A o \in 0 .. NR_SUB_PER_DRIVE - 1 : o # at => log[o] = hd_info.logical[o]
  BY <1>2, <1>8, <1>10 DEF Infos, Logicals
<1> DEFINE In(d, j) == log[(d - 1) * NR_SUB_PER_PART + j - 1] = Placed(Tables[d][j], Disk[Tables[d][j]][1])
<1>12. In(dev, k)
  BY <1>8, <1>9, <1>11
<1>13. ASSUME NEW d \in 1 .. NR_PART_PER_DRIVE, NEW j \in 1 .. NR_SUB_PER_PART,
              d < dev \/ (d = dev /\ j < k), LogicalKnown(d, j)
       PROVE  In(d, j)
  <2>1. (d - 1) * NR_SUB_PER_PART + j - 1 \in 0 .. NR_SUB_PER_DRIVE - 1
    BY <1>3, Below DEF NR_SUB_PER_DRIVE
  <2>2. (d - 1) * NR_SUB_PER_PART + j - 1 # at
    <3>1. CASE d < dev
      <4>0. d \in Nat \ {0} /\ dev \in Nat \ {0}
        BY <1>3, <1>4
      <4>1. (d - 1) * NR_SUB_PER_PART + j - 1 < (dev - 1) * NR_SUB_PER_PART + k - 1
        BY <1>3, <1>6, <3>1, <4>0, Apart
      <4> QED BY <1>8, <2>1, <4>1
    <3>2. CASE d = dev /\ j < k
      <4>1. (dev - 1) * NR_SUB_PER_PART \in Int
        BY <1>3, SMT
      <4> QED BY <1>6, <1>8, <3>2, <4>1
    <3> QED BY <1>13, <3>1, <3>2
  <2> QED BY <1>11, <1>13, <2>1, <2>2 DEF LogicalKnown
<1> HIDE DEF In
<1>14. ASSUME NEW d \in 1 .. NR_PART_PER_DRIVE, d < dev, IsExtended(d)
       PROVE  \A j \in DOMAIN Tables[d] : In(d, j)
  <2>1. \A j \in DOMAIN Tables[d] : LogicalKnown(d, j) /\ j \in 1 .. NR_SUB_PER_PART
    BY <1>3, <1>5, <1>14, TablesShort DEF KnownTo
  <2> QED BY <1>13, <1>14, <2>1
<1>15. \A j \in 1 .. k : In(dev, j)
  <2>1. ASSUME NEW j \in 1 .. k - 1
        PROVE  In(dev, j)
    <3>1. j \in 1 .. NR_SUB_PER_PART /\ j < k /\ LogicalKnown(dev, j)
      BY <1>3, <1>5, <1>6
    <3> QED BY <1>4, <1>13, <3>1
  <2> QED BY <1>6, <1>12, <2>1
<1>16. \A d \in 1 .. dev : PrimaryKnown(d)
  BY <1>3, <1>5 DEF KnownTo
<1>17. CASE LastTable(TableRead, part.sub + 1)
  <2>1. k = Len(Tables[dev])
    BY <1>4, <1>5, <1>7, <1>17, DiskAssumption DEF IsExtended
  <2>2. PrimariesFrom(dev + 1, Disk[0], log)
    BY <1>4, <1>5, <1>10, <1>17 DEF HdExtended
  <2>3. dev + 1 \in 1 .. NR_PART_PER_DRIVE + 1 /\ (dev + 1) - 1 = dev
    BY <1>3
  <2>4. \A d \in 1 .. dev : IsExtended(d) => \A j \in DOMAIN Tables[d] : In(d, j)
    BY <1>3, <1>6, <1>14, <1>15, <2>1
  <2>5. /\ hd_info' \in Infos /\ hd_info'.open_cnt = hd_info.open_cnt
        /\ part' \in Parts
        /\ hd' \in Locals /\ hd'.req = hd.req /\ hd'.src = hd.src /\ hd'.moved = hd.moved
        /\ \/ /\ Goto(HD, "ask")
              /\ hd'.cmd.command = "READ" /\ hd'.cmd.count = 1 /\ hd'.issued = FALSE
              /\ AtTable'
           \/ Goto(HD, "reply") /\ hd' = hd /\ AllKnown'
    <3>1. PICK i \in 1 .. NR_PART_PER_DRIVE + 1 : i = dev + 1 /\ i - 1 = dev
      BY <2>3
    <3>2. PrimariesFrom(i, Disk[0], log)
      BY <2>2, <3>1
    <3>3. \A d \in 1 .. i - 1 : PrimaryKnown(d)
      BY <1>16, <3>1
    <3>4. \A d \in 1 .. i - 1 : IsExtended(d) => \A j \in DOMAIN Tables[d] :
             log[(d - 1) * NR_SUB_PER_PART + j - 1] = Placed(Tables[d][j], Disk[Tables[d][j]][1])
      BY <2>4, <3>1 DEF In
    <3> QED BY <1>2, <1>10, <3>2, <3>3, <3>4, PrimariesOn
  <2> QED BY <1>1, <2>5, TableDone
<1>18. CASE ~ LastTable(TableRead, part.sub + 1)
  <2>1. k # Len(Tables[dev])
    BY <1>4, <1>5, <1>7, <1>18, DiskAssumption DEF IsExtended
  <2>2. k + 1 \in DOMAIN Tables[dev] /\ Tables[dev][k + 1] = Tables[dev][1] + Disk[Tables[dev][k]][2].start_sect
    <3>1. k < Len(Tables[dev]) /\ k + 1 \in DOMAIN Tables[dev]
      BY <1>6, <2>1
    <3> QED BY <1>4, <1>5, <3>1, DiskAssumption DEF IsExtended
  <2>3. PICK n \in Int : n = Tables[dev][k + 1] /\ n = NextTable
    <3>1. Disk[0][dev].start_sect \in Nat /\ hd_info.primary[dev].base = Disk[0][dev].start_sect
      <4>1. Disk[0][dev].start_sect \in Nat
        BY <1>3, EntryShape
      <4>2. hd_info.primary[dev] = Placed(0, Disk[0][dev])
        BY <1>5, <1>16 DEF PrimaryKnown, IsExtended
      <4> QED BY <4>1, <4>2 DEF Placed
    <3>2. Tables[dev][k + 1] \in Nat
      BY <1>5, <2>2, TablesShort
    <3> QED BY <1>4, <1>6, <1>7, <2>2, <3>1, <3>2 DEF NextTable
  <2>4. /\ get_part_table(n)
        /\ part' = [part EXCEPT !.sub = part.sub + 1, !.s = n]
        /\ hd_info' = [hd_info EXCEPT !.logical = log]
    BY <1>2, <1>10, <1>18, <2>3 DEF HdExtended, Parts
  <2>5. /\ Goto(HD, "ask")
        /\ hd' \in Locals /\ hd'.cmd = Cmd("READ", n, 1) /\ hd'.issued = FALSE
        /\ hd'.req = hd.req /\ hd'.src = hd.src /\ hd'.moved = hd.moved
    BY <1>2, <2>4, GetTable
  <2>6. part' \in Parts /\ part'.tbl = Disk[0] /\ part'.dev = dev /\ part'.sub = k /\ part'.s = n
    <3>1. part.sub + 1 = k /\ k \in Nat
      BY <1>4, <1>6
    <3>2. part' = [part EXCEPT !.sub = k, !.s = n]
      BY <2>4, <3>1
    <3> QED BY <1>2, <1>4, <1>5, <3>1, <3>2 DEF Parts
  <2>7. /\ hd_info' \in Infos /\ hd_info'.open_cnt = hd_info.open_cnt
        /\ hd_info'.primary = hd_info.primary /\ hd_info'.logical = log
    BY <1>2, <2>4 DEF Infos
  <2>8. hd'.cmd.lba = n /\ hd'.cmd.command = "READ" /\ hd'.cmd.count = 1
    BY <2>5, CmdIs
  <2>9. KnownTo(dev)'
    <3>1. \A d \in 1 .. NR_PART_PER_DRIVE : d <= dev => PrimaryKnown(d)'
      BY <1>16, <2>7 DEF PrimaryKnown
    <3>2. \A d \in 1 .. NR_PART_PER_DRIVE : d < dev /\ IsExtended(d) =>
             \A j \in DOMAIN Tables[d] : LogicalKnown(d, j)'
      BY <1>14, <2>7 DEF LogicalKnown, In
    <3> QED BY <3>1, <3>2 DEF KnownTo
  <2>10. \A j \in 1 .. k : LogicalKnown(dev, j)'
    BY <1>15, <2>7 DEF LogicalKnown, In
  <2>11. AtTable'
    BY <1>5, <2>2, <2>3, <2>6, <2>8, <2>9, <2>10 DEF AtTable, KnownTo, PrimaryKnown, LogicalKnown
  <2> QED BY <1>1, <2>5, <2>6, <2>7, <2>8, <2>11, TableDone
<1> QED BY <1>17, <1>18

-----------------------------------------------------------------------------
(***************************************************************************)
(* The invariant.                                                          *)
(***************************************************************************)

\* The driver gives up only when its time is over.
LEMMA HdPanicEnds ==
    ASSUME Runs, HdPanic
    PROVE  IInv'
<1>1. /\ At(HD, "poll") /\ Late
      /\ halted' = "panic" /\ pc' = pc /\ elapsed' = elapsed
  BY DEF HdPanic, HdOnly, Kernel!Halt
<1>2. pc[HD] = "poll" /\ Told(buf[HD])
  BY <1>1, ServingAt
<1>3. elapsed \in 0 .. HD_TIMEOUT /\ HD_TIMEOUT \in Nat
  BY HdAssumption DEF Runs, Running, Shapes
<1>4. buf[HD].type.cnt \in 0 .. elapsed /\ buf[HD].type.cnt >= HD_TIMEOUT
  BY <1>1, <1>2 DEF Told, Late
<1>5. elapsed = HD_TIMEOUT
  BY <1>3, <1>4
<1> QED BY <1>1, <1>2, <1>5 DEF IInv

\* At the start all is at rest and nothing is known of the drive.
LEMMA InitInv == Init => IInv
<1> SUFFICES ASSUME Init PROVE IInv
  OBVIOUS
<1>1. /\ Kernel!Init
      /\ pc = [p \in Proc |-> IF p \in {HD, SYS} THEN "receive" ELSE "run"]
      /\ opened = 0 /\ asked = Plain("none") /\ elapsed = 0
      /\ ctl = Idle /\ irq = FALSE /\ hd = Local
      /\ part = [tbl |-> <<>>, dev |-> 0, sub |-> 0, s |-> 0]
      /\ hd_info = [open_cnt |-> 0,
                    primary |-> [d \in 0 .. NR_PART_PER_DRIVE |-> NoPart],
                    logical |-> [d \in 0 .. NR_SUB_PER_DRIVE - 1 |-> NoPart]]
  BY DEF Init
<1>2. K!IpcInv /\ halted = "no" /\ (\A p \in Proc : Free(p) /\ ~ has_int_msg[p])
  BY <1>1, KernelInit DEF Kernel!Init, Free, K!Free
<1>3. /\ pc[HD] = "receive" /\ pc[SYS] = "receive" /\ pc[FS] = "run"
      /\ \A p \in User : pc[p] = "run"
  BY <1>1, Processes
<1>4. Shapes
  <2>1. pc \in [Proc -> Label]
    BY <1>1 DEF Label
  <2>2. NoPart \in Where /\ HD_TIMEOUT \in Nat /\ NR_PART_PER_DRIVE \in Nat
    BY HdAssumption DEF NoPart, Where
  <2>3. part \in Parts
    BY <1>1, <2>2 DEF Parts, Entries
  <2>4. [d \in 0 .. NR_SUB_PER_DRIVE - 1 |-> NoPart] \in Logicals
    BY <2>2 DEF Logicals
  <2>5. hd_info \in Infos
    BY <1>1, <2>2, <2>4 DEF Infos
  <2>6. ctl \in Controls
    BY <1>1 DEF Controls, Idle
  <2>7. hd \in Locals
    BY <1>1, LocalShape
  <2>8. asked = Plain("none") /\ irq \in BOOLEAN
    BY <1>1
  <2>9. elapsed = 0 /\ opened = 0
    BY <1>1
  <2>10. opened \in Nat /\ elapsed \in 0 .. HD_TIMEOUT
    BY <2>2, <2>9
  <2> QED BY <2>1, <2>3, <2>5, <2>6, <2>7, <2>8, <2>10 DEF Shapes
<1>5. OnlyHdInformed
  BY <1>2 DEF OnlyHdInformed
<1>6. Conversation
  <2>1. \A p \in User : UserAt(p)
    BY <1>2, <1>3, Standing, Processes DEF OneReason, UserAt, ClientAt
  <2>2. FsAt
    BY <1>1, <1>2, <1>3, Standing, Processes DEF OneReason, FsAt, ClientAt
  <2>3. HdAt
    BY <1>2, <1>3, Processes DEF HdAt, HdIdle
  <2>4. SysAt
    BY <1>2, <1>3, Processes DEF SysAt
  <2> QED BY <2>1, <2>2, <2>3, <2>4 DEF Conversation
<1>7. ~ InWaitfor /\ ~ InIrq /\ pc[HD] # "reply"
  BY <1>3 DEF InWaitfor, InIrq
<1>8. DriveAt
  BY <1>1, <1>2, <1>3, Processes DEF DriveAt, Unissued, Quiet
<1>9. JobAt /\ PartAt
  BY <1>1, <1>7 DEF JobAt, PartAt, ReadsTables
<1>10. Balance
  <2>1. asked.type = "none" /\ opened = hd_info.open_cnt
    BY <1>1 DEF Plain, Msg
  <2> QED BY <2>1 DEF Balance, Opening, Closing
<1> QED BY <1>2, <1>4, <1>5, <1>6, <1>8, <1>9, <1>10 DEF IInv, Running

\* Every step keeps the invariant.
LEMMA NextInv == IInv /\ [Next]_vars => IInv'
<1>1. Runs' => IInv'
  BY DEF Runs, IInv
<1>2. ASSUME IInv, UNCHANGED vars
      PROVE  IInv'
  <2>1. UNCHANGED <<flags, p_msg, recv_from, send_to, has_int_msg, q_sending, buf, halted>>
    BY <1>2 DEF vars, ipcVars
  <2>2. UNCHANGED <<pc, opened, asked, elapsed, ctl, irq, hd, part, hd_info>>
    BY <1>2 DEF vars, client, device
  <2>3. CASE halted = "panic" /\ elapsed = HD_TIMEOUT /\ pc[HD] = "poll"
    BY <2>1, <2>2, <2>3 DEF IInv
  <2>4. CASE Runs
    <3>1. K!IpcInv' /\ halted' = "no"
      BY <2>1, <2>4, KernelStep DEF Runs, ipcVars
    <3>2. \A q : Still(q)
      BY <2>1, AllStill
    <3>3. Shapes' /\ OnlyHdInformed'
      BY <2>1, <2>2, <2>4 DEF Runs, Running, Shapes, OnlyHdInformed
    <3>4. \A q : /\ Free(q)' <=> Free(q)
                 /\ \A d : Sends(q, d)' <=> Sends(q, d)
                 /\ \A s : Waits(q, s)' <=> Waits(q, s)
      BY <3>2, StillSame
    <3>5. (Taken' <=> Taken) /\ SameStage /\ (Unserved' <=> Unserved)
      BY <2>2, <3>4 DEF Taken, SameStage, InWaitfor, InIrq, Unserved
    <3>6. Data'
      BY <2>1, <2>2, <2>4, <3>5, DataKept DEF Runs, Running, Data
    <3>7. Balance'
      BY <2>2, <2>4, <3>5, BalanceKept DEF Runs, Running, SameStage
    <3>8. Conversation'
      <4>1. StillBut({})
        BY <2>1, <3>2 DEF StillBut
      <4>2. FsAt' /\ (Open(FS)' <=> Open(FS))
        BY <2>1, <2>2, <2>4, <3>2, FsKept DEF Runs, Running, Conversation
      <4>3. elapsed \in Nat /\ elapsed' = elapsed
        BY <2>2, <2>4 DEF Runs, Running, Shapes
      <4>4. HdAt' /\ (HdAsks' <=> HdAsks)
        BY <2>1, <2>2, <2>4, <3>2, <4>2, <4>3, HdKept DEF Runs, Running, Conversation
      <4>5. \A q \in User : q \notin {} => UserAt(q)' /\ (Open(q)' <=> Open(q))
        BY <2>2, <2>4, <4>1, UsersKept DEF Runs, Running
      <4>6. \A q \in Proc : Asks(q) => Asks(q)'
        BY <4>4, <4>5 DEF Asks
      <4>7. SysAt'
        BY <2>1, <2>2, <2>4, <3>2, <4>3, <4>6, SysKept DEF Runs, Running, Conversation
      <4> QED BY <4>2, <4>4, <4>5, <4>7 DEF Conversation
    <3> QED BY <1>1, <3>1, <3>3, <3>6, <3>7, <3>8 DEF Runs, Running, Data
  <2> QED BY <1>2, <2>3, <2>4 DEF IInv, Runs
<1>3. ASSUME IInv, Next
      PROVE  IInv'
  <2>1. Runs
    BY <1>3 DEF IInv, Runs, Next
  <2>2. CASE HdStep
    <3>1. CASE HdPanic
      BY <2>1, <3>1, HdPanicEnds
    <3>2. HdReceive \/ HdReply \/ HdAsk \/ HdTime \/ interrupt_wait => Runs'
      BY <2>1, HdReceiveKeeps, HdReplyKeeps, HdAskKeeps, HdTimeKeeps, interrupt_waitKeeps
    <3>3. HdOpen \/ HdClose \/ HdIoctl \/ HdRdwt => Runs'
      BY <2>1, HdOpenKeeps, HdCloseKeeps, HdIoctlKeeps, HdRdwtKeeps
    <3>4. HdAgain \/ HdCmdOut \/ HdPortWrite \/ HdSectorRead \/ HdSectorWritten => Runs'
      BY <2>1, HdAgainKeeps, HdCmdOutKeeps, HdPortWriteKeeps, HdSectorReadKeeps, HdSectorWrittenKeeps
    <3>5. HdIdentified \/ HdPrimary \/ HdExtended => Runs'
      BY <2>1, HdIdentifiedKeeps, HdPrimaryKeeps, HdExtendedKeeps
    <3> QED BY <1>1, <2>2, <3>1, <3>2, <3>3, <3>4, <3>5 DEF HdStep
  <2>3. SysStep => Runs'
    BY <2>1, SysReceiveKeeps, SysAnswerKeeps DEF SysStep
  <2>4. ASSUME NEW p \in {FS} \cup User, ClientStep(p)
        PROVE  Runs'
    <3>1. CASE ClientReceive(p)
      <4>1. CASE p = FS
        BY <2>1, <3>1, <4>1, FsReceiveKeeps
      <4>2. CASE p \in User
        BY <2>1, <3>1, <4>2, UserReceiveKeeps
      <4> QED BY <4>1, <4>2
    <3>2. CASE ClientReturn(p)
      BY <2>1, <3>2, ClientReturnKeeps DEF Client
    <3> QED BY <2>4, <3>1, <3>2 DEF ClientStep
  <2>5. ASSUME NEW r \in Request, FsCall(r)
        PROVE  Runs'
    BY <2>1, <2>5, FsCallKeeps
  <2>6. ASSUME NEW p \in User, UserCall(p)
        PROVE  Runs'
    BY <2>1, <2>6, UserCallKeeps
  <2>7. ControllerReady \/ hd_handler \/ Tick => Runs'
    BY <2>1, ControllerReadyKeeps, hd_handlerKeeps, TickKeeps
  <2> QED BY <1>1, <1>3, <2>2, <2>3, <2>4, <2>5, <2>6, <2>7 DEF Next
<1> QED BY <1>2, <1>3

\* In every state the conversations, the driver and the controller, the work
\* on the request and what is known of the partitions fit together
\* (hd.c:53-97, 125-182, 208-313, 398-460).
THEOREM Invariance == Spec => []IInv
<1> QED BY InitInv, NextInv, PTL DEF Spec

-----------------------------------------------------------------------------
(***************************************************************************)
(* What the runs check, for every disk and every request.                  *)
(***************************************************************************)

\* The system stops for nothing but a controller that is too slow: no
\* assertion of the message passing fails (proc.c:377), FS, HD and SYS never
\* wait for each other, and no interrupt reaches the main loop (hd.c:67-71).
THEOREM HdStopsOnlyLate == Spec => []StopsOnlyLate
<1>1. IInv => StopsOnlyLate
  <2>1. CASE halted = "panic" /\ elapsed = HD_TIMEOUT /\ pc[HD] = "poll"
    BY <2>1 DEF StopsOnlyLate
  <2>2. CASE Runs
    <3>1. HdAt /\ halted = "no"
      BY <2>2 DEF Runs, Running, Conversation
    <3>2. ASSUME pc[HD] = "handle", Free(HD)
          PROVE  buf[HD].source # INTERRUPT
      <4>1. HdHas
        BY <3>1, <3>2, Standing DEF OneReason, HdAt, HdIdle, HdServes
      <4> QED BY <4>1, Processes DEF HdHas
    <3>3. flags[HD] = {} => Free(HD)
      BY DEF Free, K!Free
    <3> QED BY <3>1, <3>2, <3>3 DEF StopsOnlyLate
  <2> QED BY <2>1, <2>2 DEF IInv, Runs
<1> QED BY <1>1, Invariance, PTL

\* While the drive is open and the driver does not read the tables, hd_info
\* has every partition where the tables say it is, however many there are and
\* however long their chains (hd.c:241-291).
THEOREM HdPartitionsRead == Spec => []PartitionsRead
<1>1. IInv => PartitionsRead
  <2> SUFFICES ASSUME IInv, hd_info.open_cnt > 0, pc[HD] \in {"receive", "handle", "reply"},
                      NEW dev \in DOMAIN Partition
               PROVE  PartInfo(dev) = Partition[dev]
    BY DEF PartitionsRead
  <2>1. PartAt
    BY DEF IInv, Running
  <2>2. ~ ReadsTables
    BY DEF ReadsTables, InWaitfor, InIrq
  <2>3. AllKnown
    BY <2>1, <2>2 DEF PartAt
  <2> QED BY <2>3, InfoRight
<1> QED BY <1>1, Invariance, PTL

\* Before the driver answers, exactly the sectors asked for have been moved,
\* in their order, each when the controller had it, and DIOCTL_GET_GEO tells
\* where the device is (hd.c:125-182, 307-313).
THEOREM HdRepliesDone == Spec => []RepliesDone
<1>1. IInv => RepliesDone
  <2> SUFFICES ASSUME IInv, pc[HD] = "reply"
               PROVE  RepliesDone
    BY DEF RepliesDone
  <2>1. Shapes /\ JobAt
    BY DEF IInv, Running
  <2>2. CASE hd.req.type \in {"DEV_READ", "DEV_WRITE"}
    <3>1. Moving
      BY <2>1, <2>2 DEF JobAt
    <3>2. Len(hd.moved) = Sectors /\ \A i \in 1 .. Len(hd.moved) : hd.moved[i] = First + i - 1
      BY <3>1 DEF Moving, Moved
    <3>3. hd.moved \in Seq(Int)
      BY <2>1 DEF Shapes, Locals
    <3>4. PICK first, n : first = First /\ n = Sectors
      OBVIOUS
    <3>5. hd.moved = [i \in 1 .. n |-> first + i - 1]
      BY <3>2, <3>3, <3>4
    <3> QED BY <2>2, <3>4, <3>5 DEF RepliesDone, First, Sectors
  <2>3. CASE hd.req.type \notin {"DEV_READ", "DEV_WRITE"}
    <3>1. hd.req.type = "DEV_IOCTL" => hd.geo = Partition[hd.req.dev]
      BY <2>1 DEF JobAt
    <3> QED BY <2>3, <3>1 DEF RepliesDone
  <2> QED BY <2>2, <2>3
<1> QED BY <1>1, Invariance, PTL
=============================================================================
