------------------------------ MODULE Terminal ------------------------------
(***************************************************************************)
(* Processes that use the terminals: the TTY task (kernel/tty.c), FS       *)
(* (fs/main.c, fs/read_write.c, fs/open.c) and user processes, each a      *)
(* program whose system calls are those of Ipc, with the interrupts of the *)
(* keyboard and the clock.                                                 *)
(*                                                                         *)
(* A process step is what lies between two system calls, with the call     *)
(* that ends it; send_recv(BOTH) is two calls.  User p's file is the       *)
(* terminal Binding[p], or a file on disk: what FS does for those, waiting *)
(* for the disk included, is the time it takes in "handle".                *)
(***************************************************************************)
EXTENDS Tty

CONSTANTS
    User,          \* the user processes
    TTY, FS,       \* the tasks
    Binding,       \* Binding[p]: the terminal p has open
    MaxLen,        \* the longest read or write
    Program,       \* Program[p]: the calls p makes, in any order
    ANY, INTERRUPT, NO_TASK, HARD_INT

ASSUME TerminalAssumption ==
    /\ Key \subseteq Seq(Code) \ {<<>>}
    /\ Binding \in [User -> Console]
    /\ MaxLen \in Nat
    /\ Program \in [User -> SUBSET [type : {"OPEN", "READ", "WRITE", "FILE"}, cnt : 0 .. MaxLen]]
    /\ TTY # FS /\ TTY \notin User /\ FS \notin User
    /\ {ANY, INTERRUPT, NO_TASK} \cap ({TTY, FS} \cup User) = {}
    /\ ANY # INTERRUPT /\ ANY # NO_TASK /\ INTERRUPT # NO_TASK

VARIABLES flags, p_msg, recv_from, send_to, has_int_msg, q_sending, buf, halted

VARIABLES
    pc,            \* where each process is in its program
    op,            \* op[p]: the call user p is in
    at,            \* TTY's tty: the terminal its loop is at
    caller, len    \* FS: src of task_fs and len of do_rdwt

Proc == {TTY, FS} \cup User

Msg(type, proc, cnt) == [type |-> type, proc |-> proc, cnt |-> cnt]
Ret(cnt) == Msg("SYSCALL_RET", NO_TASK, cnt)
Type == [type : {"SYSCALL_RET", "OPEN", "READ", "WRITE", "FILE", "DEV_OPEN", "DEV_READ",
                 "DEV_WRITE", "SUSPEND_PROC", "RESUME_PROC"},
         proc : User \cup {NO_TASK}, cnt : 0 .. MaxLen]

ASSUME HardIntAssumption == HARD_INT \notin Type

\* What FS asks TTY for, to do what a process asks FS for.
DevCall == [OPEN |-> "DEV_OPEN", READ |-> "DEV_READ", WRITE |-> "DEV_WRITE"]

Kernel == INSTANCE Ipc WITH IntTask <- {TTY}

ipcVars == <<flags, p_msg, recv_from, send_to, has_int_msg, q_sending, buf, halted>>
local == <<pc, op, at, caller, len>>
vars == <<ipcVars, ttyVars, local>>

NO_LEN == -1      \* in do_open, which has no len

Blank(p) == [source |-> p, type |-> Ret(0)]
NoCall == [type |-> "none", cnt |-> 0]

TypeOK ==
    /\ wire \in Seq(Code) /\ keys \in 0 .. MaxKeys
    /\ kb_in \in Seq(Code) /\ Len(kb_in) <= KB_IN_BYTES
    /\ key_pressed \in BOOLEAN
    /\ nr_current_console \in Console /\ at \in Console
    /\ \A t \in Console : ibuf[t] \in Seq(Char) /\ Len(ibuf[t]) <= TTY_IN_BYTES
    /\ tty_procnr \in [Console -> User \cup {NO_TASK}]
    /\ pc[TTY] \in {"read", "more", "write", "receive", "handle"}
    /\ pc[FS] \in {"receive", "handle", "dev", "answer"}
    /\ \A p \in User : pc[p] \in {"run", "receive", "return"}
    /\ \A p \in User : op[p] \in Program[p] \cup {NoCall}
    /\ caller \in User \cup {NO_TASK} /\ len \in 0 .. MaxLen \cup {NO_LEN}

\* init_keyboard and init_tty have been done, the processes run.
Init ==
    /\ Kernel!Init
    /\ buf = [p \in Proc |-> Blank(p)]
    /\ TtyInit(NO_TASK)
    /\ pc = [p \in Proc |-> CASE p = TTY -> "read" [] p = FS -> "receive" [] OTHER -> "run"]
    /\ op = [p \in User |-> NoCall]
    /\ at = 1
    /\ caller = NO_TASK /\ len = 0

Goto(p, label) == pc' = [pc EXCEPT ![p] = label]

\* p is at label and has the CPU's attention: its last call has returned.
At(p, label) == pc[p] = label /\ Kernel!Runnable(p)

-----------------------------------------------------------------------------
(***************************************************************************)
(* User processes: the stubs open, read, write (lib), and any other call   *)
(* of FS as FILE.                                                          *)
(***************************************************************************)

UserCall(p, c) ==
    /\ At(p, "run") /\ Goto(p, "receive")
    /\ op' = [op EXCEPT ![p] = c]
    /\ Kernel!Send(p, FS, Msg(c.type, NO_TASK, c.cnt))
    /\ UNCHANGED <<ttyVars, at, caller, len>>

UserReceive(p) ==
    /\ At(p, "receive") /\ Goto(p, "return")
    /\ Kernel!Receive(p, FS)
    /\ UNCHANGED <<ttyVars, op, at, caller, len>>

\* The MESSAGE is a local variable of the stub: its contents are gone.
UserReturn(p) ==
    /\ At(p, "return") /\ Goto(p, "run")
    /\ op' = [op EXCEPT ![p] = NoCall]
    /\ buf' = [buf EXCEPT ![p] = Blank(p)]
    /\ UNCHANGED <<flags, p_msg, recv_from, send_to, has_int_msg, q_sending, halted>>
    /\ UNCHANGED <<ttyVars, at, caller, len>>

-----------------------------------------------------------------------------
(***************************************************************************)
(* FS: task_fs, with the parts of do_open and do_rdwt that concern TTY.    *)
(***************************************************************************)

FsReceive ==
    /\ At(FS, "receive") /\ Goto(FS, "handle")
    /\ Kernel!Receive(FS, ANY)
    /\ UNCHANGED <<ttyVars, op, at, caller, len>>

FsMsg == buf[FS].type

FsFile ==
    /\ At(FS, "handle") /\ FsMsg.type = "FILE"
    /\ Goto(FS, "receive")
    /\ Kernel!Send(FS, buf[FS].source, Ret(0))
    /\ UNCHANGED <<ttyVars, op, at, caller, len>>

\* Mutant: the SEND of a request to TTY is not followed by a RECEIVE.
FsDeviceSendOnly ==
    /\ At(FS, "handle") /\ FsMsg.type \in {"OPEN", "READ", "WRITE"}
    /\ Goto(FS, "receive")
    /\ caller' = buf[FS].source
    /\ len' = IF FsMsg.type = "OPEN" THEN NO_LEN ELSE FsMsg.cnt
    /\ Kernel!Send(FS, TTY, Msg(DevCall[FsMsg.type], buf[FS].source, FsMsg.cnt))
    /\ UNCHANGED <<ttyVars, op, at>>

FsDevice ==
    /\ At(FS, "handle") /\ FsMsg.type \in {"OPEN", "READ", "WRITE"}
    /\ Goto(FS, "dev")
    /\ caller' = buf[FS].source
    /\ len' = IF FsMsg.type = "OPEN" THEN NO_LEN ELSE FsMsg.cnt
    /\ Kernel!Send(FS, TTY, Msg(DevCall[FsMsg.type], buf[FS].source, FsMsg.cnt))
    /\ UNCHANGED <<ttyVars, op, at>>

\* Mutant: the answer goes to the process the message is from.
FsResumeSource ==
    /\ At(FS, "handle") /\ FsMsg.type = "RESUME_PROC"
    /\ Goto(FS, "receive")
    /\ Kernel!Send(FS, buf[FS].source, Ret(FsMsg.cnt))
    /\ UNCHANGED <<ttyVars, op, at, caller, len>>

FsResume ==
    /\ At(FS, "handle") /\ FsMsg.type = "RESUME_PROC"
    /\ Goto(FS, "receive")
    /\ Kernel!Send(FS, FsMsg.proc, Ret(FsMsg.cnt))
    /\ UNCHANGED <<ttyVars, op, at, caller, len>>

FsAwait ==
    /\ At(FS, "dev") /\ Goto(FS, "answer")
    /\ Kernel!Receive(FS, TTY)
    /\ UNCHANGED <<ttyVars, op, at, caller, len>>

\* do_rdwt's assert(fs_msg.CNT == len); the reply, unless the caller is
\* suspended.  do_open asserts nothing and looks at nothing of TTY's answer.
FsAnswer ==
    /\ At(FS, "answer") /\ Goto(FS, "receive")
    /\ caller' = NO_TASK /\ len' = 0
    /\ CASE len \notin {FsMsg.cnt, NO_LEN} -> Kernel!Halt("assert") /\ UNCHANGED buf
         [] len = FsMsg.cnt /\ FsMsg.type = "SUSPEND_PROC" -> UNCHANGED ipcVars
         [] OTHER -> Kernel!Send(FS, caller, Ret(FsMsg.cnt))
    /\ UNCHANGED <<ttyVars, op, at>>

FsStep == FsReceive \/ FsFile \/ FsDevice \/ FsResume \/ FsAwait \/ FsAnswer

-----------------------------------------------------------------------------
(***************************************************************************)
(* TTY: task_tty.  Its loop over the terminals, then a message.            *)
(***************************************************************************)

\* On to tty_dev_write while terminal at has characters, then to the next
\* terminal, and after the last one to the RECEIVE.
Onward ==
    IF ibuf'[at] # <<>> THEN Goto(TTY, "write") /\ UNCHANGED at
    ELSE IF at < NR_CONSOLES THEN Goto(TTY, "read") /\ at' = at + 1
    ELSE Goto(TTY, "receive") /\ at' = 1

\* tty_dev_read(at): at most one scan code, for the current console only.
TtyRead ==
    /\ At(TTY, "read")
    /\ IF at = nr_current_console /\ kb_in # <<>>
       THEN /\ get_byte_from_kbuf
            /\ IF Head(kb_in) = "E0"
               THEN Goto(TTY, "more") /\ UNCHANGED <<nr_current_console, ibuf, at>>
               ELSE in_process(at, Head(kb_in)) /\ Onward
       ELSE UNCHANGED ttyVars /\ Onward
    /\ UNCHANGED <<ipcVars, op, caller, len>>

\* keyboard_read waits for the second byte in get_byte_from_kbuf.
TtyMore ==
    /\ At(TTY, "more")
    /\ get_byte_from_kbuf
    /\ in_process(at, Head(kb_in))
    /\ Onward
    /\ UNCHANGED <<ipcVars, op, caller, len>>

\* tty_dev_write(at); who is resumed is FS's message when the read is over.
TtyWrite ==
    /\ At(TTY, "write")
    /\ tty_dev_write(at)
    /\ Onward
    /\ LET ch == Head(ibuf[at]) IN
          IF Completes(at, ch)
          THEN Kernel!Send(TTY, FS, Msg("RESUME_PROC", tty_procnr[at], TransAfter(at, ch)))
          ELSE UNCHANGED ipcVars
    /\ UNCHANGED <<op, caller, len>>

TtyReceive ==
    /\ At(TTY, "receive") /\ Goto(TTY, "handle")
    /\ Kernel!Receive(TTY, ANY)
    /\ UNCHANGED <<ttyVars, op, at, caller, len>>

TtyMsg == buf[TTY].type

Handling(type) ==
    At(TTY, "handle") /\ buf[TTY].source # INTERRUPT /\ TtyMsg.type = type

\* Mutant: key_pressed is not cleared.
TtyHardIntKept ==
    /\ At(TTY, "handle") /\ buf[TTY].source = INTERRUPT
    /\ Goto(TTY, "read")
    /\ UNCHANGED <<ipcVars, ttyVars, op, at, caller, len>>

TtyHardInt ==
    /\ At(TTY, "handle") /\ buf[TTY].source = INTERRUPT
    /\ Goto(TTY, "read")
    /\ key_pressed' = FALSE
    /\ UNCHANGED <<ipcVars, wire, keys, kb_in, nr_current_console, ibuf, reader, op, at, caller, len>>

\* Mutant: the reply tells how much has been read so far.
TtyDoReadNone ==
    /\ Handling("DEV_READ") /\ Goto(TTY, "read")
    /\ tty_do_read(Binding[TtyMsg.proc], TtyMsg.proc, TtyMsg.cnt)
    /\ Kernel!Send(TTY, buf[TTY].source, Msg("SUSPEND_PROC", TtyMsg.proc, 0))
    /\ UNCHANGED <<op, at, caller, len>>

TtyDoRead ==
    /\ Handling("DEV_READ") /\ Goto(TTY, "read")
    /\ tty_do_read(Binding[TtyMsg.proc], TtyMsg.proc, TtyMsg.cnt)
    /\ Kernel!Send(TTY, buf[TTY].source, Msg("SUSPEND_PROC", TtyMsg.proc, TtyMsg.cnt))
    /\ UNCHANGED <<op, at, caller, len>>

\* DEV_OPEN: the answer is a message that has been reset.
TtyDoOpen ==
    /\ Handling("DEV_OPEN") /\ Goto(TTY, "read")
    /\ Kernel!Send(TTY, buf[TTY].source, Ret(0))
    /\ UNCHANGED <<ttyVars, op, at, caller, len>>

TtyDoWrite ==
    /\ Handling("DEV_WRITE") /\ Goto(TTY, "read")
    /\ Kernel!Send(TTY, buf[TTY].source, Ret(TtyMsg.cnt))
    /\ UNCHANGED <<ttyVars, op, at, caller, len>>

TtyStep ==
    \/ TtyRead \/ TtyMore \/ TtyWrite
    \/ TtyReceive \/ TtyHardInt \/ TtyDoOpen \/ TtyDoRead \/ TtyDoWrite

-----------------------------------------------------------------------------
(***************************************************************************)
(* Interrupts, and the whole.                                              *)
(***************************************************************************)

KeyInterrupt == KeyGoesOn /\ UNCHANGED <<ipcVars, local>>

\* clock_handler, as far as TTY is concerned.
Tick ==
    /\ key_pressed
    /\ Kernel!InformInt(TTY)
    /\ UNCHANGED <<ttyVars, local>>

Typing == \E k \in Key : KeyTyped(k) /\ UNCHANGED <<ipcVars, local>>

Next ==
    /\ halted = "no"
    /\ \/ \E p \in User : UserReceive(p) \/ UserReturn(p) \/ \E c \in Program[p] : UserCall(p, c)
       \/ FsStep
       \/ TtyStep
       \/ KeyInterrupt \/ Tick \/ Typing

(***************************************************************************)
(* The scheduler runs every runnable process again and again (Sched), the  *)
(* clock ticks, a key's codes arrive.  Nobody has to call or to type.      *)
(***************************************************************************)
Fairness ==
    /\ WF_vars(halted = "no" /\ FsStep)
    /\ WF_vars(halted = "no" /\ TtyStep)
    /\ \A p \in User : WF_vars(halted = "no" /\ (UserReceive(p) \/ UserReturn(p)))
    /\ WF_vars(halted = "no" /\ Tick)
    /\ WF_vars(halted = "no" /\ KeyInterrupt)

Spec == Init /\ [][Next]_vars /\ Fairness

-----------------------------------------------------------------------------
(***************************************************************************)
(* Properties.                                                             *)
(***************************************************************************)

\* The tasks' assertions hold: read_write.c:66, and proc.c:377 for the pending
\* interrupt, whatever order requests and answers come in, and interrupts
\* between the calls.  One that strikes inside a call can make proc.c:377 fail:
\* AssertsHold of IpcSteps.
NoAssertFails == halted # "assert"

\* p's RESUME_PROC is on its way from TTY, or FS answers it.
Resuming(p) ==
    \/ Kernel!SendingTo(TTY, FS) /\ TtyMsg.type = "RESUME_PROC" /\ TtyMsg.proc = p
    \/ pc[FS] = "handle" /\ flags[FS] = {} /\ FsMsg.type = "RESUME_PROC" /\ FsMsg.proc = p
    \/ Kernel!SendingTo(FS, p)

\* p's request waits for FS, or FS and TTY talk about it.
Requesting(p) ==
    \/ Kernel!SendingTo(p, FS)
    \/ pc[FS] = "handle" /\ buf[FS].source = p
    \/ pc[FS] \in {"dev", "answer"} /\ caller = p

\* A process in a read that is not of 0 bytes is not forgotten: it is the
\* reader of its terminal, or about to become it, or its resumption is under
\* way, or it has its answer (tty.c:143-204, fs/main.c:55-70).
ReaderServed ==
    halted = "no" =>
        \A p \in User :
            (op[p].type = "READ" /\ op[p].cnt > 0) =>
                \/ tty_procnr[Binding[p]] = p /\ tty_left_cnt[Binding[p]] > 0
                \/ Requesting(p) \/ Resuming(p)
                \/ pc[p] = "return" /\ flags[p] = {}

\* The characters that have reached the reader and those still wanted add up
\* to what it asked for, however it edits: nothing is written outside its
\* buffer (tty.c:161-167).
BufferKept ==
    \A t \in Console :
        tty_left_cnt[t] > 0 =>
            /\ tty_trans_cnt[t] \in Nat
            /\ op[tty_procnr[t]] = [type |-> "READ", cnt |-> tty_left_cnt[t] + tty_trans_cnt[t]]

\* The only way the system stops is the one of deadlock(): TTY resumes a
\* reader while FS sends it a request of another process (tty.c:174,
\* read_write.c:64).
HaltsOnlyCrossing ==
    halted = "deadlock" =>
        /\ TtyMsg.type = "RESUME_PROC"
        /\ pc[FS] = "dev" /\ caller # TtyMsg.proc

\* The second byte of a prefixed code was lost in a full ring: keyboard_read
\* waits for it until the next key (keyboard.c:296).
LostByte == pc[TTY] = "more" /\ kb_in = <<>> /\ wire = <<>>

\* p's call is one FS and TTY answer at once, or a read whose line is complete
\* or whose buffer is full.
Due(p) ==
    \/ op[p].type \in {"OPEN", "WRITE", "FILE"}
    \/ LET t == Binding[p] IN
          pc[TTY] = "write" /\ at = t /\ tty_procnr[t] = p /\ Completes(t, Head(ibuf[t]))

\* A call that is due returns, unless the system stops or TTY waits for a lost
\* byte: neither keys nor other readers keep FS and TTY from answering.
CallsReturn == \A p \in User : Due(p) ~> op[p] = NoCall \/ halted # "no" \/ LostByte
=============================================================================
