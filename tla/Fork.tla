-------------------------------- MODULE Fork --------------------------------
(***************************************************************************)
(* fork: the stub of the user process (lib/fork.c), task MM (mm/main.c,    *)
(* mm/forkexit.c) and the part of FS (fs/main.c), over the message passing *)
(* of the kernel.                                                          *)
(*                                                                         *)
(* send_recv(BOTH) is two system calls, so the parent may not have reached *)
(* its RECEIVE when MM copies its entry of proc_table, and MM runs with    *)
(* interrupts enabled: the clock may let parent or child run between any   *)
(* two words of the copy.  The copy is three steps here, in the order of   *)
(* the fields: the registers with the LDT, flags, and the rest.            *)
(*                                                                         *)
(* Of a process' memory, stack[b] says which call of send_recv left its    *)
(* return address on the stack of memory b; it is where a system call made *)
(* there returns to.  Memory b is that of process b.  The source that a    *)
(* child in its parent's memory stamps on the parent's MESSAGE is left out.*)
(***************************************************************************)
EXTENDS Integers, FiniteSets

CONSTANTS
    MM, FS, InitProc,  \* the tasks, and the process all others descend from
    Slot,              \* the entries of proc_table that are free at the start
    Program,           \* Program[p]: the calls p makes, in any order
    ANY, INTERRUPT, NO_TASK, HARD_INT

VARIABLES flags, p_msg, recv_from, send_to, has_int_msg, q_sending, buf, halted

VARIABLES
    pc,            \* where each process is in its program
    op,            \* op[p]: the call user p is in: "FORK", "FILE" or "none"
    ret,           \* ret[p]: the PID the last fork returned to p
    base,          \* base[p]: the process whose memory p's LDT describes
    stack,         \* stack[b]: "send" or "receive"
    parent,        \* the field of the PCB
    filp,          \* filp[p]: does p have InitProc's file open
    fd_cnt,        \* of that file's descriptor, and i_cnt of its inode
    mm,            \* MM's src, child_pid and the result of do_fork
    memory_size    \* the last slot there is memory for

User == {InitProc} \cup Slot
Proc == {MM, FS} \cup User

Msg(type, pid, retval) == [type |-> type, pid |-> pid, retval |-> retval]
Type == [type : {"SYSCALL_RET", "FORK", "FILE"}, pid : Slot \cup {0}, retval : {0, -1}]

ASSUME ForkAssumption ==
    /\ Slot \subseteq Nat \ {0} /\ IsFiniteSet(Slot)
    /\ MM # FS /\ MM \notin User /\ FS \notin User /\ InitProc \notin Slot
    /\ Program \in [User -> SUBSET {"FORK", "FILE"}]

ASSUME NameAssumption ==
    /\ ANY \notin Proc /\ INTERRUPT \notin Proc /\ NO_TASK \notin Proc \cup {0}
    /\ ANY # INTERRUPT /\ ANY # NO_TASK /\ INTERRUPT # NO_TASK
    /\ HARD_INT \notin Type

Kernel == INSTANCE Ipc WITH IntTask <- {}

ipcVars == <<flags, p_msg, recv_from, send_to, has_int_msg, q_sending, buf, halted>>
image   == <<ret, base, stack, parent>>
files   == <<filp, fd_cnt>>
vars    == <<ipcVars, pc, op, image, files, mm, memory_size>>

FREE_SLOT == "FREE_SLOT"

Blank(p) == [source |-> p, type |-> Msg("SYSCALL_RET", 0, 0)]
Idle == [src |-> NO_TASK, child |-> 0, retval |-> 0]

\* kernel_main, and Init() has opened its terminal.
Init ==
    /\ flags = [p \in Proc |-> IF p \in Slot THEN {FREE_SLOT} ELSE {}]
    /\ p_msg = [p \in Proc |-> FALSE]
    /\ recv_from = [p \in Proc |-> NO_TASK]
    /\ send_to = [p \in Proc |-> NO_TASK]
    /\ has_int_msg = [p \in Proc |-> FALSE]
    /\ q_sending = [p \in Proc |-> <<>>]
    /\ buf = [p \in Proc |-> Blank(p)]
    /\ halted = "no"
    /\ pc = [p \in Proc |-> IF p \in {MM, FS} THEN "receive" ELSE "run"]
    /\ op = [p \in User |-> "none"]
    /\ ret = [p \in User |-> NO_TASK]
    /\ base = [p \in User |-> p]
    /\ stack = [p \in User |-> "receive"]
    /\ parent = [p \in User |-> NO_TASK]
    /\ filp = [p \in User |-> p = InitProc]
    /\ fd_cnt = 1
    /\ mm = Idle
    /\ memory_size \in Slot

Goto(p, label) == pc' = [pc EXCEPT ![p] = label]
At(p, label)   == pc[p] = label /\ Kernel!Runnable(p)

Least(S) == CHOOSE x \in S : \A y \in S : x <= y

-----------------------------------------------------------------------------
(***************************************************************************)
(* User processes: fork, and any other call of FS as FILE.                 *)
(***************************************************************************)

Server(p) == IF op[p] = "FORK" THEN MM ELSE FS

\* send_recv(BOTH): the SEND.
UserCall(p, call) ==
    /\ At(p, "run") /\ Goto(p, "receive")
    /\ op' = [op EXCEPT ![p] = call]
    /\ stack' = [stack EXCEPT ![base[p]] = "send"]
    /\ Kernel!Send(p, IF call = "FORK" THEN MM ELSE FS, Msg(call, 0, 0))
    /\ UNCHANGED <<ret, base, parent, files, mm, memory_size>>

\* The RECEIVE; msg_receive asserts that the caller has no message in hand
\* when it takes one from a sender that waits (proc.c:295).
UserReceive(p) ==
    /\ At(p, "receive") /\ Goto(p, "return")
    /\ stack' = [stack EXCEPT ![base[p]] = "receive"]
    /\ IF Kernel!SenderReady(p, Server(p)) /\ p_msg[p]
       THEN Kernel!Halt("assert") /\ UNCHANGED buf
       ELSE Kernel!Receive(p, Server(p))
    /\ UNCHANGED <<op, ret, base, parent, files, mm, memory_size>>

\* To where the stack says; after the SEND comes the RECEIVE, again.
ReturnToSend(p) ==
    /\ At(p, "return") /\ stack[base[p]] = "send"
    /\ Goto(p, "receive")
    /\ UNCHANGED <<ipcVars, op, image, files, mm, memory_size>>

\* fork asserts that RETVAL is 0: a user process that fails there spins.
UserReturn(p) ==
    /\ At(p, "return") /\ stack[base[p]] = "receive"
    /\ op' = [op EXCEPT ![p] = "none"]
    /\ LET m == buf[p].type IN
          IF op[p] = "FORK" /\ m.retval = 0
          THEN Goto(p, "run") /\ ret' = [ret EXCEPT ![p] = m.pid]
          ELSE Goto(p, IF m.retval = 0 THEN "run" ELSE "failed") /\ UNCHANGED ret
    /\ buf' = [buf EXCEPT ![p] = Blank(p)]
    /\ UNCHANGED <<flags, p_msg, recv_from, send_to, has_int_msg, q_sending, halted>>
    /\ UNCHANGED <<base, stack, parent, files, mm, memory_size>>

UserGoesOn(p) == UserReceive(p) \/ ReturnToSend(p) \/ UserReturn(p)

-----------------------------------------------------------------------------
(***************************************************************************)
(* FS: task_fs, with fs_fork.                                              *)
(***************************************************************************)

FsReceive ==
    /\ At(FS, "receive") /\ Goto(FS, "handle")
    /\ Kernel!Receive(FS, ANY)
    /\ UNCHANGED <<op, image, files, mm, memory_size>>

\* Mutant: the files of the caller are counted, and MM has none.
CountedNone(pid) == 0

\* fs_fork: how many more share the descriptor.
Counted(pid) == IF filp[pid] THEN 1 ELSE 0

FsAnswer ==
    /\ At(FS, "handle") /\ Goto(FS, "receive")
    /\ LET m == buf[FS].type IN
          fd_cnt' = IF m.type = "FORK" THEN fd_cnt + Counted(m.pid) ELSE fd_cnt
    /\ Kernel!Send(FS, buf[FS].source, Msg("SYSCALL_RET", 0, 0))
    /\ UNCHANGED <<op, image, filp, mm, memory_size>>

FsStep == FsReceive \/ FsAnswer

-----------------------------------------------------------------------------
(***************************************************************************)
(* MM: task_mm, and do_fork step by step.                                  *)
(***************************************************************************)

MmReceive ==
    /\ At(MM, "receive") /\ Goto(MM, "find")
    /\ Kernel!Receive(MM, ANY)
    /\ UNCHANGED <<op, image, files, mm, memory_size>>

FreeSlots == {c \in Slot : FREE_SLOT \in flags[c]}

\* Mutant: a fork that fails is not replied to.
MmFullSilent ==
    /\ At(MM, "find") /\ FreeSlots = {} /\ Goto(MM, "receive")
    /\ UNCHANGED <<ipcVars, op, image, files, mm, memory_size>>

MmFull ==
    /\ At(MM, "find") /\ FreeSlots = {} /\ Goto(MM, "reply")
    /\ mm' = [src |-> buf[MM].source, child |-> 0, retval |-> -1]
    /\ UNCHANGED <<ipcVars, op, image, files, memory_size>>

\* The copy: registers and LDT.
MmCopyRegs ==
    /\ At(MM, "find") /\ FreeSlots # {}
    /\ LET src == buf[MM].source
           c   == Least(FreeSlots) IN
          /\ pc' = [pc EXCEPT ![MM] = "flags", ![c] = pc[src]]
          /\ op' = [op EXCEPT ![c] = op[src]]
          /\ base' = [base EXCEPT ![c] = base[src]]
          /\ mm' = [src |-> src, child |-> c, retval |-> 0]
    /\ UNCHANGED <<ipcVars, ret, stack, parent, files, memory_size>>

\* The copy: from now on the child may run, in its parent's memory.
MmCopyFlags ==
    /\ At(MM, "flags") /\ Goto(MM, "pcb")
    /\ flags' = [flags EXCEPT ![mm.child] = flags[mm.src]]
    /\ UNCHANGED <<p_msg, recv_from, send_to, has_int_msg, q_sending, buf, halted>>
    /\ UNCHANGED <<op, image, files, mm, memory_size>>

\* The copy: the rest; then the field parent.
MmCopyPcb ==
    /\ At(MM, "pcb") /\ Goto(MM, "memory")
    /\ p_msg' = [p_msg EXCEPT ![mm.child] = p_msg[mm.src]]
    /\ recv_from' = [recv_from EXCEPT ![mm.child] = recv_from[mm.src]]
    /\ send_to' = [send_to EXCEPT ![mm.child] = send_to[mm.src]]
    /\ has_int_msg' = [has_int_msg EXCEPT ![mm.child] = has_int_msg[mm.src]]
    /\ q_sending' = [q_sending EXCEPT ![mm.child] = q_sending[mm.src]]
    /\ filp' = [filp EXCEPT ![mm.child] = filp[mm.src]]
    /\ parent' = [parent EXCEPT ![mm.child] = mm.src]
    /\ UNCHANGED <<flags, buf, halted, op, ret, base, stack, fd_cnt, mm, memory_size>>

\* alloc_mem, and the copy of the parent's memory.
MmCopyMemory ==
    /\ At(MM, "memory")
    /\ IF mm.child > memory_size
       THEN Kernel!Halt("panic") /\ UNCHANGED <<buf, pc, stack>>
       ELSE /\ Goto(MM, "ldt")
            /\ stack' = [stack EXCEPT ![mm.child] = stack[base[mm.src]]]
            /\ buf' = [buf EXCEPT ![mm.child] = buf[mm.src]]
            /\ UNCHANGED <<flags, p_msg, recv_from, send_to, has_int_msg, q_sending, halted>>
    /\ UNCHANGED <<op, ret, base, parent, files, mm, memory_size>>

\* The child's LDT, and the SEND to FS.
MmTellFs ==
    /\ At(MM, "ldt") /\ Goto(MM, "await")
    /\ base' = [base EXCEPT ![mm.child] = mm.child]
    /\ Kernel!Send(MM, FS, Msg("FORK", mm.child, 0))
    /\ UNCHANGED <<op, ret, stack, parent, files, mm, memory_size>>

MmAwaitFs ==
    /\ At(MM, "await") /\ Goto(MM, "child")
    /\ Kernel!Receive(MM, FS)
    /\ UNCHANGED <<op, image, files, mm, memory_size>>

\* Mutant: the child is taken to run by itself.
MmChildLeft ==
    /\ At(MM, "child") /\ Goto(MM, "reply")
    /\ UNCHANGED <<ipcVars, op, image, files, mm, memory_size>>

\* The message m: 0 as the PID, for the child to know that it is one.
MmChild ==
    /\ At(MM, "child") /\ Goto(MM, "reply")
    /\ Kernel!Send(MM, mm.child, Msg("SYSCALL_RET", 0, 0))
    /\ UNCHANGED <<op, image, files, mm, memory_size>>

MmReply ==
    /\ At(MM, "reply") /\ Goto(MM, "receive")
    /\ mm' = Idle
    /\ Kernel!Send(MM, mm.src, Msg("SYSCALL_RET", mm.child, mm.retval))
    /\ UNCHANGED <<op, image, files, memory_size>>

MmStep ==
    \/ MmReceive \/ MmFull \/ MmCopyRegs \/ MmCopyFlags \/ MmCopyPcb
    \/ MmCopyMemory \/ MmTellFs \/ MmAwaitFs \/ MmChild \/ MmReply

-----------------------------------------------------------------------------
Next ==
    /\ halted = "no"
    /\ \/ \E p \in User : UserGoesOn(p) \/ \E call \in Program[p] : UserCall(p, call)
       \/ FsStep
       \/ MmStep

\* Every runnable process runs again and again (Sched); nobody has to call.
Fairness ==
    /\ WF_vars(halted = "no" /\ FsStep)
    /\ WF_vars(halted = "no" /\ MmStep)
    /\ \A p \in User : WF_vars(halted = "no" /\ UserGoesOn(p))

Spec == Init /\ [][Next]_vars /\ Fairness

-----------------------------------------------------------------------------
(***************************************************************************)
(* Properties.                                                             *)
(***************************************************************************)

\* p runs its own program: InitProc, or a child to which fork has returned.
Grown(p) == p = InitProc \/ ret[p] # NO_TASK

\* Who has come back from a fork is complete, whatever order parent, child, MM
\* and FS ran in: the child has memory of its own, its file is counted, and
\* parent and child were told of each other (forkexit.c:96-126).
ForkComplete ==
    /\ \A p \in User : Grown(p) => base[p] = p /\ FREE_SLOT \notin flags[p]
    /\ \A p \in User : ret[p] \in Slot => parent[ret[p]] = p
    /\ ret[InitProc] # 0
    /\ fd_cnt >= Cardinality({p \in User : Grown(p) /\ filp[p]})
    /\ pc[MM] = "receive" => fd_cnt = Cardinality({p \in User : filp[p]})

\* What can go wrong with the copy of a PCB that is in use, four things.
\* The registers are older than flags: the child will RECEIVE a second time.
Doubled(c) == pc[c] = "receive" /\ flags[c] = {"RECEIVING"}

\* The memory is older than the registers: the call returns to the SEND.
Stale(c) == pc[c] = "return" /\ base[c] = c /\ stack[c] = "send"

\* The child blocked in the middle, and the rest was copied over its fields.
Overwritten(c) == flags[c] = {"RECEIVING"} /\ recv_from[c] = NO_TASK /\ pc[MM] # "pcb"

\* The child has no message in hand, and yet p_msg is set.
HalfCopied(c) == flags[c] = {} /\ p_msg[c] /\ pc[MM] # "pcb"

\* MM, or the whole system, stops: memory is short, MM waits for ever for an
\* overwritten child, or a half copied one fails the assertion in msg_receive.
Stuck ==
    \/ halted = "panic" /\ mm.child > memory_size
    \/ \E c \in Slot : Overwritten(c)
    \/ halted = "assert" /\ \E c \in Slot : HalfCopied(c)

\* A process that forks goes on, with its child's PID or with the failed
\* assertion, unless MM is stuck: the requests of several parents, the talk of
\* MM with FS and that with the child hinder nobody for ever.
ForkAnswered ==
    \A p \in User : Grown(p) /\ op[p] = "FORK" ~> op[p] = "none" \/ Stuck

\* And so does the child, even one that started to run in its parent's memory,
\* unless its copy went wrong (fork.c:24, "a 0 is returned in the child's
\* thread of execution").
ChildReturns ==
    \A c \in Slot :
        mm.child = c /\ pc[MM] = "ldt"
            ~> Grown(c) \/ Doubled(c) \/ Stale(c) \/ Stuck
=============================================================================
