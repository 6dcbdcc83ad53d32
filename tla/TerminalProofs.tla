--------------------------- MODULE TerminalProofs ---------------------------
(***************************************************************************)
(* Proofs about Terminal, for any number of users and terminals, any       *)
(* programs, any keys typed and rings of any size.                         *)
(*                                                                         *)
(* The kernel's part is what IpcProofs proves of every set of processes    *)
(* whose calls follow Ipc: K is that module, for the processes here.       *)
(***************************************************************************)
EXTENDS Terminal, TLAPS

K == INSTANCE IpcProofs WITH IntTask <- {TTY}

\* How a process stands to the message passing.
Free(p) == K!Free(p)
Sends(p, d) == K!Sends(p, d)
Waits(p, s) == K!Waits(p, s)
Still(q) == K!Still(q)

(***************************************************************************)
(* The conversation of FS, TTY and the users.                              *)
(***************************************************************************)

\* FS has p's request and p has no answer yet.
Open(p) == (pc[p] = "receive" /\ Free(p)) \/ (pc[p] = "return" /\ Waits(p, FS))

\* The message m is p's request.
Asks(p, m) == m.source = p /\ m.type.type = op[p].type /\ m.type.cnt = op[p].cnt

\* The message m tells FS that p's read is over.
Resumes(p, m) ==
    /\ m.source = TTY
    /\ m.type.type = "RESUME_PROC" /\ m.type.proc = p /\ m.type.cnt \in 0 .. MaxLen

UserAt(p) ==
    \/ pc[p] = "run" /\ Free(p) /\ op[p] = NoCall
    \/ pc[p] = "receive" /\ op[p] \in Program[p] /\ Free(p)
    \/ pc[p] = "receive" /\ op[p] \in Program[p] /\ Sends(p, FS) /\ Asks(p, buf[p])
    \/ pc[p] = "return" /\ op[p] \in Program[p] /\ Free(p)
    \/ pc[p] = "return" /\ op[p] \in Program[p] /\ Waits(p, FS)

Users == \A p \in User : UserAt(p)

\* What FS keeps of the length of a call, and what TTY's reply says of it.
LenOf(c) == IF c.type = "OPEN" THEN NO_LEN ELSE c.cnt
CntOf(c) == IF c.type = "OPEN" THEN 0 ELSE c.cnt

\* FS's request to TTY, and TTY's reply.
Request(m) ==
    /\ m.source = FS /\ m.type.type = DevCall[op[caller].type]
    /\ m.type.proc = caller /\ m.type.cnt = op[caller].cnt

Reply(m) ==
    /\ m.source = TTY /\ m.type.cnt = CntOf(op[caller])
    /\ m.type.type = IF op[caller].type = "READ" THEN "SUSPEND_PROC" ELSE "SYSCALL_RET"

\* TTY has FS's request, or waits for FS to take the reply.
TtyHas == pc[TTY] = "handle" /\ Free(TTY) /\ buf[TTY].source = FS
TtyReplies == pc[TTY] = "read" /\ Sends(TTY, FS) /\ pc[FS] = "dev"

\* FS rests, or sleeps until somebody takes its answer.
FsIdle ==
    /\ pc[FS] = "receive"
    /\ Free(FS) \/ \E p \in User : Sends(FS, p) /\ Open(p)

\* FS has p's request, or the news that p's read is over.
FsHas(p) ==
    /\ pc[FS] = "handle" /\ Free(FS) /\ Open(p)
    /\ Asks(p, buf[FS]) \/ (Resumes(p, buf[FS]) /\ op[p].type = "READ")

\* FS talks to TTY about caller's request.
FsTalks ==
    /\ pc[FS] \in {"dev", "answer"}
    /\ caller \in User /\ Open(caller)
    /\ len = LenOf(op[caller]) /\ op[caller].type \in {"OPEN", "READ", "WRITE"}
    /\ \/ pc[FS] = "dev" /\ Sends(FS, TTY) /\ Request(buf[FS])
       \/ pc[FS] = "dev" /\ Free(FS) /\ (TtyHas \/ TtyReplies)
       \/ pc[FS] = "answer" /\ Waits(FS, TTY) /\ TtyHas
       \/ pc[FS] = "answer" /\ Free(FS) /\ Reply(buf[FS])

FsAt ==
    \/ FsIdle
    \/ pc[FS] = "handle" /\ Waits(FS, ANY)
    \/ \E p \in User : FsHas(p)
    \/ FsTalks

\* TTY sends FS the news that p's read is over.
TtyWakes(p) ==
    /\ pc[TTY] \in {"read", "write", "receive"} /\ Sends(TTY, FS)
    /\ pc[FS] \in {"receive", "handle", "answer"}
    /\ Open(p) /\ op[p].type = "READ" /\ Resumes(p, buf[TTY])

TtyAt ==
    \/ pc[TTY] \in {"read", "more", "write", "receive"} /\ Free(TTY)
    \/ pc[TTY] = "handle" /\ Waits(TTY, ANY)
    \/ pc[TTY] = "handle" /\ Free(TTY) /\ buf[TTY].source = INTERRUPT
    \/ /\ TtyHas /\ Request(buf[TTY])
       /\ (pc[FS] = "dev" /\ Free(FS)) \/ (pc[FS] = "answer" /\ Waits(FS, TTY))
    \/ TtyReplies /\ Free(FS) /\ Reply(buf[TTY])
    \/ \E p \in User : TtyWakes(p)

(***************************************************************************)
(* Where an open request is: with FS, or on its way to TTY (Asked); the    *)
(* read it asked for is going on (Reading), over and FS is to be told      *)
(* (Woken) or has been told (Waking); the answer is under way (Answering). *)
(***************************************************************************)

Asked(p) ==
    \/ pc[FS] = "handle" /\ Free(FS) /\ buf[FS].source = p
    \/ pc[FS] \in {"dev", "answer"} /\ caller = p /\ (Sends(FS, TTY) \/ TtyHas)

Reading(p) == tty_procnr[Binding[p]] = p /\ tty_left_cnt[Binding[p]] > 0

Woken(p) == Sends(TTY, FS) /\ Resumes(p, buf[TTY])

Waking(p) == pc[FS] = "handle" /\ Free(FS) /\ Resumes(p, buf[FS])

Answering(p) == Sends(FS, p)

\* A request is in one place.
Once(p) ==
    /\ Reading(p) => ~ (Asked(p) \/ Woken(p) \/ Waking(p) \/ Answering(p))
    /\ Woken(p) => ~ (Asked(p) \/ Waking(p) \/ Answering(p))

\* And a read is nowhere else, when no two users share a terminal.
Somewhere(p) ==
    (Open(p) /\ op[p].type = "READ" /\ op[p].cnt > 0)
        => Asked(p) \/ Reading(p) \/ Woken(p) \/ Waking(p) \/ Answering(p)

OwnTerminals == \A p, q \in User : Binding[p] = Binding[q] => p = q

Places == \A p \in User : Once(p) /\ (OwnTerminals => Somewhere(p))

\* The reader of a terminal is a user whose read is open.
Readers ==
    \A t \in Console :
        tty_left_cnt[t] > 0 =>
            /\ tty_procnr[t] \in User /\ Binding[tty_procnr[t]] = t /\ Open(tty_procnr[t])
            /\ op[tty_procnr[t]].type = "READ"
            /\ op[tty_procnr[t]].cnt = tty_left_cnt[t] + tty_trans_cnt[t]

Conversation == Users /\ FsAt /\ TtyAt /\ Places

OnlyTtyInformed == \A p \in Proc : has_int_msg[p] => p = TTY

Label == {"run", "receive", "return", "read", "more", "write", "handle", "dev", "answer"}
CallType == {"OPEN", "READ", "WRITE", "FILE", "none"}

\* What TypeOK leaves out.
Shapes ==
    /\ pc \in [Proc -> Label]
    /\ op \in [User -> [type : CallType, cnt : 0 .. MaxLen]]
    /\ ibuf \in [Console -> Seq(Char)]
    /\ tty_left_cnt \in [Console -> 0 .. MaxLen]
    /\ tty_trans_cnt \in [Console -> 0 .. MaxLen]

(***************************************************************************)
(* The inductive invariant.  FS's assertion and HaltsOnlyCrossing hold     *)
(* only because request, reply and resumption cannot be taken for each     *)
(* other, which is what Conversation and Places say.                       *)
(***************************************************************************)
IInv ==
    /\ K!IpcInv /\ TypeOK /\ Shapes
    /\ OnlyTtyInformed /\ Readers
    /\ halted = "no" => Conversation
    /\ NoAssertFails /\ HaltsOnlyCrossing

-----------------------------------------------------------------------------
(***************************************************************************)
(* The kernel under Terminal is the one IpcProofs is about.                *)
(***************************************************************************)

\* The processes, and the marks that are no process, are what Ipc assumes.
LEMMA KernelAssumption == K!IpcAssumption
  BY TerminalAssumption, HardIntAssumption DEF K!IpcAssumption, Proc

\* The system calls of Terminal are those of K.
LEMMA SameCalls ==
    /\ \A p, d, t : Kernel!Send(p, d, t) <=> K!Send(p, d, t)
    /\ \A p, s : Kernel!Receive(p, s) <=> K!Receive(p, s)
    /\ \A p : Kernel!InformInt(p) <=> K!InformInt(p)
    /\ \A p, d : Kernel!SendingTo(p, d) <=> K!SendingTo(p, d)
<1>1. \A p, d, t : Kernel!Send(p, d, t) <=> K!Send(p, d, t)
  BY DEF Kernel!Send, K!Send, Kernel!Runnable, K!Runnable, Kernel!SendDeadlock, K!SendDeadlock,
         Kernel!SendDirect, K!SendDirect, Kernel!SendBlock, K!SendBlock, Kernel!Deadlock, K!Deadlock,
         Kernel!Awaits, K!Awaits, Kernel!Wake, K!Wake, Kernel!Sleep, K!Sleep, Kernel!Halt, K!Halt,
         Kernel!SENDING, K!SENDING, Kernel!RECEIVING, K!RECEIVING
<1>2. \A p, s : Kernel!Receive(p, s) <=> K!Receive(p, s)
  BY DEF Kernel!Receive, K!Receive, Kernel!Runnable, K!Runnable,
         Kernel!ReceiveInterrupt, K!ReceiveInterrupt, Kernel!ReceiveQueued, K!ReceiveQueued,
         Kernel!ReceiveBlock, K!ReceiveBlock, Kernel!IntReady, K!IntReady,
         Kernel!SenderReady, K!SenderReady, Kernel!SendingTo, K!SendingTo,
         Kernel!Chosen, K!Chosen, Kernel!Dequeue, K!Dequeue, Kernel!RemoveAt, K!RemoveAt, Kernel!Wake, K!Wake,
         Kernel!Sleep, K!Sleep, Kernel!SENDING, K!SENDING, Kernel!RECEIVING, K!RECEIVING
<1>3. \A p : Kernel!InformInt(p) <=> K!InformInt(p)
  BY DEF Kernel!InformInt, K!InformInt, Kernel!InformDirect, K!InformDirect,
         Kernel!InformLater, K!InformLater, Kernel!Awaits, K!Awaits, Kernel!Wake, K!Wake,
         Kernel!RECEIVING, K!RECEIVING
<1>4. \A p, d : Kernel!SendingTo(p, d) <=> K!SendingTo(p, d)
  BY DEF Kernel!SendingTo, K!SendingTo, Kernel!SENDING, K!SENDING
<1> QED BY <1>1, <1>2, <1>3, <1>4

\* The kernel's invariant holds when the system starts.
LEMMA KernelInit == Kernel!Init => K!IpcInv
<1>1. Kernel!Init => K!Init
  BY DEF Kernel!Init, K!Init
<1> QED BY <1>1, K!InitInv, KernelAssumption

\* Every system call and interrupt of Terminal keeps the kernel's invariant.
LEMMA KernelStep ==
    ASSUME K!IpcInv,
           \/ \E p \in Proc : \E d \in Proc \ {p}, t \in Type : Kernel!Send(p, d, t)
           \/ \E p \in Proc : \E s \in (Proc \ {p}) \cup {ANY} : Kernel!Receive(p, s)
           \/ Kernel!InformInt(TTY)
           \/ UNCHANGED ipcVars
    PROVE  K!IpcInv'
<1>1. K!IpcInv /\ K!Next => K!IpcInv'
  BY K!NextInv, KernelAssumption
<1>2. ASSUME NEW p \in Proc, NEW d \in Proc \ {p}, NEW t \in Type, Kernel!Send(p, d, t)
      PROVE  K!Next
  BY <1>2, SameCalls DEF K!Next
<1>3. ASSUME NEW p \in Proc, NEW s \in (Proc \ {p}) \cup {ANY}, Kernel!Receive(p, s)
      PROVE  K!Next
  <2>1. s \in K!Sources(p)
    BY DEF K!Sources
  <2> QED BY <1>3, <2>1, SameCalls DEF K!Next
<1>4. Kernel!InformInt(TTY) => K!Next
  BY SameCalls DEF K!Next
<1>5. UNCHANGED ipcVars => UNCHANGED K!vars
  BY DEF ipcVars, K!vars
<1>6. K!IpcInv /\ UNCHANGED K!vars => K!IpcInv'
  BY K!NextInv, KernelAssumption
<1> QED BY <1>1, <1>2, <1>3, <1>4, <1>5, <1>6

\* A process is free, or blocked for one reason, on one process.
OneReason ==
    \A p : /\ \A d : Free(p) => ~ Sends(p, d) /\ ~ Waits(p, d)
           /\ \A d, s : Sends(p, d) => ~ Waits(p, s)
           /\ \A d, e : Sends(p, d) /\ Sends(p, e) => d = e
           /\ \A s, r : Waits(p, s) /\ Waits(p, r) => s = r

\* IpcProofs says so of every process.
LEMMA Standing == OneReason
  BY K!Standing, KernelAssumption, Zenon DEF K!OneStanding, Free, Sends, Waits, OneReason

\* And so after a step.
LEMMA StandingAfter == OneReason'
  BY Standing, PTL

\* Every process but those of S stands as it stood, with the message it had.
StillBut(S) == \A q \in Proc \ S : Still(q) /\ buf'[q] = buf[q]

\* d was asleep until a message of p's could reach it.
Expects(d, p) == Waits(d, p) \/ Waits(d, ANY)

\* A SEND: the kernel stops, the message is delivered, or the caller sleeps.
LEMMA Sending ==
    ASSUME K!IpcInv, NEW p \in Proc, NEW d \in Proc \ {p}, NEW t \in Type, Kernel!Send(p, d, t)
    PROVE  /\ K!IpcInv' /\ UNCHANGED has_int_msg
           /\ buf'[p] = [source |-> p, type |-> t]
           /\ StillBut({p, d})
           /\ \/ /\ halted' = "deadlock" /\ Still(p) /\ Still(d) /\ buf'[d] = buf[d]
                 /\ \E e \in Proc : Sends(d, e) /\ (e # p => \E f \in Proc : Sends(e, f))
              \/ /\ halted' = halted /\ Expects(d, p)
                 /\ Free(p)' /\ Free(d)' /\ buf'[d] = [source |-> p, type |-> t]
              \/ /\ halted' = halted /\ ~ Expects(d, p)
                 /\ Sends(p, d)' /\ Still(d) /\ buf'[d] = buf[d]
<1>1. K!IpcInv'
  BY KernelStep
<1>2. K!Send(p, d, t)
  BY SameCalls
<1>3. K!Deadlock(p, d) => \E e \in Proc : Sends(d, e) /\ (e # p => \E f \in Proc : Sends(e, f))
  BY K!ChainEnds, KernelAssumption DEF Sends
<1>4. /\ UNCHANGED has_int_msg
      /\ buf'[p] = [source |-> p, type |-> t]
      /\ \A q \in Proc \ {p, d} : Still(q) /\ buf'[q] = buf[q]
      /\ \/ /\ K!Deadlock(p, d) /\ halted' = "deadlock"
            /\ Still(p) /\ Still(d) /\ buf'[d] = buf[d]
         \/ /\ halted' = halted /\ \E s \in {p, ANY} : Waits(d, s)
            /\ Free(p)' /\ Free(d)' /\ buf'[d] = [source |-> p, type |-> t]
         \/ /\ halted' = halted /\ ~ Waits(d, p) /\ ~ Waits(d, ANY)
            /\ Sends(p, d)' /\ Still(d) /\ buf'[d] = buf[d]
  BY <1>2, K!SendOutcome, KernelAssumption DEF Free, Sends, Waits, Still
<1>5. StillBut({p, d})
  BY <1>4 DEF StillBut
<1>6. (\E s \in {p, ANY} : Waits(d, s)) => Expects(d, p)
  BY DEF Expects
<1>7. ~ Waits(d, p) /\ ~ Waits(d, ANY) => ~ Expects(d, p)
  BY DEF Expects
<1> QED BY <1>1, <1>3, <1>4, <1>5, <1>6, <1>7

\* A RECEIVE of a process no interrupt is meant for.
LEMMA Receiving ==
    ASSUME K!IpcInv, OnlyTtyInformed, NEW p \in Proc \ {TTY},
           NEW s \in (Proc \ {p}) \cup {ANY}, Kernel!Receive(p, s)
    PROVE  /\ K!IpcInv' /\ OnlyTtyInformed' /\ halted' = halted
           /\ \/ \E e \in Proc \ {p} :
                    /\ Sends(e, p) /\ s \in {e, ANY}
                    /\ Free(e)' /\ Free(p)' /\ buf'[p] = buf[e] /\ buf'[e] = buf[e]
                    /\ StillBut({e, p})
              \/ /\ \A e \in Proc : Sends(e, p) => s \notin {e, ANY}
                 /\ Waits(p, s)' /\ StillBut({p})
<1>1. K!IpcInv'
  BY KernelStep
<1>2. K!Receive(p, s) /\ s \in K!Sources(p)
  BY SameCalls DEF K!Sources
<1>3. ~ has_int_msg[p]
  BY DEF OnlyTtyInformed
<1>4. /\ Free(p)
      /\ \A q \in Proc \ {p} : has_int_msg'[q] = has_int_msg[q] /\ buf'[q] = buf[q]
      /\ has_int_msg'[p] = has_int_msg[p] /\ halted' = halted
      /\ \/ \E e \in Proc \ {p} : /\ Sends(e, p) /\ s \in {e, ANY}
                                  /\ Free(e)' /\ buf'[p] = buf[e]
                                  /\ \A q \in Proc \ {e} : Still(q)
         \/ /\ \A e \in Proc : Sends(e, p) => s \notin {e, ANY}
            /\ Waits(p, s)'
            /\ \A q \in Proc \ {p} : Still(q)
  <2>1. /\ Free(p)
        /\ \A q \in Proc \ {p} : has_int_msg'[q] = has_int_msg[q] /\ buf'[q] = buf[q]
        /\ \/ has_int_msg[p]
           \/ /\ has_int_msg'[p] = has_int_msg[p] /\ halted' = halted
              /\ \E e \in Proc \ {p} : /\ Sends(e, p) /\ s \in {e, ANY}
                                       /\ Free(e)' /\ buf'[p] = buf[e]
                                       /\ \A q \in Proc \ {e} : Still(q)
           \/ /\ has_int_msg'[p] = has_int_msg[p]
              /\ has_int_msg[p] \/ halted' = halted
              /\ \A e \in Proc : Sends(e, p) => s \notin {e, ANY}
              /\ Waits(p, s)'
              /\ \A q \in Proc \ {p} : Still(q)
    BY <1>2, K!ReceiveOutcome, KernelAssumption DEF Free, Sends, Waits, Still
  <2> QED BY <1>3, <2>1
<1>5. OnlyTtyInformed'
  BY <1>3, <1>4 DEF OnlyTtyInformed
<1>6. Still(p) => Free(p)'
  BY <1>4 DEF Still, K!Still, Free
<1>7. ASSUME NEW e \in Proc \ {p}, \A q \in Proc \ {e} : Still(q)
      PROVE  Free(p)' /\ StillBut({e, p})
  BY <1>4, <1>6, <1>7 DEF StillBut
<1>8. (\A q \in Proc \ {p} : Still(q)) => StillBut({p})
  BY <1>4 DEF StillBut
<1> QED BY <1>1, <1>4, <1>5, <1>7, <1>8

\* TTY's RECEIVE from anybody.
LEMMA TtyReceiving ==
    ASSUME K!IpcInv, OnlyTtyInformed, Kernel!Receive(TTY, ANY)
    PROVE  /\ K!IpcInv' /\ OnlyTtyInformed' /\ halted' = halted
           /\ \/ Free(TTY)' /\ buf'[TTY].source = INTERRUPT /\ StillBut({TTY})
              \/ \E e \in Proc \ {TTY} :
                    /\ Sends(e, TTY)
                    /\ Free(e)' /\ Free(TTY)' /\ buf'[TTY] = buf[e] /\ buf'[e] = buf[e]
                    /\ StillBut({e, TTY})
              \/ Waits(TTY, ANY)' /\ StillBut({TTY})
<1>0. TTY \in Proc
  BY DEF Proc
<1>1. K!IpcInv'
  BY <1>0, KernelStep
<1>2. K!Receive(TTY, ANY) /\ ANY \in K!Sources(TTY)
  BY SameCalls DEF K!Sources
<1>3. /\ Free(TTY)
      /\ \A q \in Proc \ {TTY} : has_int_msg'[q] = has_int_msg[q] /\ buf'[q] = buf[q]
      /\ \/ /\ halted' = halted
            /\ buf'[TTY] = [source |-> INTERRUPT, type |-> HARD_INT]
            /\ \A q \in Proc : Still(q)
         \/ /\ halted' = halted
            /\ \E e \in Proc \ {TTY} : /\ Sends(e, TTY)
                                       /\ Free(e)' /\ buf'[TTY] = buf[e]
                                       /\ \A q \in Proc \ {e} : Still(q)
         \/ /\ halted' = halted
            /\ Waits(TTY, ANY)'
            /\ \A q \in Proc \ {TTY} : Still(q)
  BY <1>0, <1>2, K!ReceiveOutcome, KernelAssumption DEF Free, Sends, Waits, Still
<1>5. OnlyTtyInformed'
  BY <1>3 DEF OnlyTtyInformed
<1>6. Still(TTY) => Free(TTY)'
  BY <1>3 DEF Still, K!Still, Free
<1>7. ASSUME NEW e \in Proc \ {TTY}, \A q \in Proc \ {e} : Still(q)
      PROVE  Free(TTY)' /\ StillBut({e, TTY})
  BY <1>0, <1>3, <1>6, <1>7 DEF StillBut
<1>8. (\A q \in Proc \ {TTY} : Still(q)) => StillBut({TTY})
  BY <1>3 DEF StillBut
<1>9. (\A q \in Proc : Still(q)) => Free(TTY)' /\ StillBut({TTY})
  BY <1>0, <1>3, <1>6 DEF StillBut
<1> QED BY <1>1, <1>3, <1>5, <1>7, <1>8, <1>9

\* The clock interrupt.
LEMMA Informing ==
    ASSUME K!IpcInv, OnlyTtyInformed, Kernel!InformInt(TTY)
    PROVE  /\ K!IpcInv' /\ OnlyTtyInformed' /\ halted' = halted /\ StillBut({TTY})
           /\ \/ (\E s \in {INTERRUPT, ANY} : Waits(TTY, s)) /\ Free(TTY)' /\ buf'[TTY].source = INTERRUPT
              \/ Still(TTY) /\ buf'[TTY] = buf[TTY]
<1>1. K!IpcInv'
  BY KernelStep
<1>2. K!InformInt(TTY)
  BY SameCalls
<1>3. /\ halted' = halted
      /\ \A q \in Proc \ {TTY} : Still(q) /\ buf'[q] = buf[q] /\ has_int_msg'[q] = has_int_msg[q]
      /\ \/ /\ \E s \in {INTERRUPT, ANY} : Waits(TTY, s)
            /\ Free(TTY)' /\ buf'[TTY].source = INTERRUPT
         \/ Still(TTY) /\ buf'[TTY] = buf[TTY]
  BY <1>2, K!InformOutcome, KernelAssumption DEF Free, Waits, Still
<1>4. OnlyTtyInformed' /\ StillBut({TTY})
  BY <1>3 DEF OnlyTtyInformed, StillBut
<1> QED BY <1>1, <1>3, <1>4

\* FS and TTY are never asleep in SENDs to each other.
LEMMA NoCross == K!IpcInv => ~ (Sends(FS, TTY) /\ Sends(TTY, FS))
<1> SUFFICES ASSUME K!IpcInv, Sends(FS, TTY), Sends(TTY, FS) PROVE FALSE
  OBVIOUS
<1>1. {FS, TTY} \in SUBSET Proc /\ {FS, TTY} # {}
  BY DEF Proc
<1>2. \A p \in {FS, TTY} : K!SENDING \in flags[p] /\ send_to[p] \in {FS, TTY}
  BY DEF Sends, K!Sends
<1>3. K!NoSendCycle
  BY DEF K!IpcInv
<1> QED BY <1>1, <1>2, <1>3 DEF K!NoSendCycle

\* And so after a step.
LEMMA NoCrossAfter == K!IpcInv' => ~ (Sends(FS, TTY)' /\ Sends(TTY, FS)')
  BY NoCross, PTL

-----------------------------------------------------------------------------
(***************************************************************************)
(* What a step leaves alone.                                               *)
(***************************************************************************)

\* TypeOK in two parts: the terminals, and where the programs are.
TerminalsTyped ==
    /\ wire \in Seq(Code) /\ keys \in 0 .. MaxKeys
    /\ kb_in \in Seq(Code) /\ Len(kb_in) <= KB_IN_BYTES
    /\ key_pressed \in BOOLEAN
    /\ nr_current_console \in Console
    /\ \A t \in Console : ibuf[t] \in Seq(Char) /\ Len(ibuf[t]) <= TTY_IN_BYTES
    /\ tty_procnr \in [Console -> User \cup {NO_TASK}]
    /\ ibuf \in [Console -> Seq(Char)]
    /\ tty_left_cnt \in [Console -> 0 .. MaxLen]
    /\ tty_trans_cnt \in [Console -> 0 .. MaxLen]

ProgramsTyped ==
    /\ pc \in [Proc -> Label]
    /\ at \in Console
    /\ pc[TTY] \in {"read", "more", "write", "receive", "handle"}
    /\ pc[FS] \in {"receive", "handle", "dev", "answer"}
    /\ \A p \in User : pc[p] \in {"run", "receive", "return"}

CallsTyped ==
    /\ op \in [User -> [type : CallType, cnt : 0 .. MaxLen]]
    /\ \A p \in User : op[p] \in Program[p] \cup {NoCall}

Typed ==
    /\ TerminalsTyped /\ ProgramsTyped /\ CallsTyped
    /\ caller \in User \cup {NO_TASK} /\ len \in 0 .. MaxLen \cup {NO_LEN}

\* Typed is TypeOK, with what TypeOK leaves out.
LEMMA TypesTogether == Typed <=> TypeOK /\ Shapes
  BY DEF Typed, TerminalsTyped, ProgramsTyped, CallsTyped, TypeOK, Shapes

\* And so after a step.
LEMMA TypesAfter == Typed' <=> TypeOK' /\ Shapes'
  BY TypesTogether, PTL

\* The terminals, untouched, stay typed.
LEMMA TerminalsKept == TerminalsTyped /\ UNCHANGED ttyVars => TerminalsTyped'
  BY DEF TerminalsTyped, ttyVars, keyboard, reader

\* A process that has no part in a step.
Bystander(q) == Still(q) /\ buf'[q] = buf[q] /\ pc'[q] = pc[q]

\* Whoever stands still is as free, asleep or waiting as before.
LEMMA StillMeans ==
    ASSUME NEW q, Still(q)
    PROVE  /\ Free(q)' <=> Free(q)
           /\ \A d : Sends(q, d)' <=> Sends(q, d)
           /\ \A s : Waits(q, s)' <=> Waits(q, s)
  BY DEF Still, K!Still, Free, Sends, Waits

\* A user with no part in a step stays at its place, its request open or not.
LEMMA BystanderKept ==
    ASSUME NEW q \in User, Bystander(q), op'[q] = op[q]
    PROVE  (UserAt(q) => UserAt(q)') /\ (Open(q)' <=> Open(q))
<1>1. /\ Free(q)' <=> Free(q)
      /\ Sends(q, FS)' <=> Sends(q, FS)
      /\ Waits(q, FS)' <=> Waits(q, FS)
      /\ buf'[q] = buf[q] /\ pc'[q] = pc[q] /\ op'[q] = op[q]
  BY StillMeans DEF Bystander
<1> QED BY <1>1 DEF UserAt, Open, Asks

\* What FS holds does not depend on what others do meanwhile.
FsRests == Bystander(FS) /\ caller' = caller /\ len' = len

\* FS stays at its place when others step and the open requests stay open.
LEMMA FsAtKept ==
    ASSUME FsRests, FsAt, TtyHas => TtyHas', TtyReplies => TtyReplies',
           \A q \in User : Open(q) => Open(q)' /\ op'[q] = op[q]
    PROVE  FsAt'
<1>1. /\ pc'[FS] = pc[FS] /\ buf'[FS] = buf[FS] /\ caller' = caller /\ len' = len
      /\ Free(FS)' <=> Free(FS)
      /\ \A d : Sends(FS, d)' <=> Sends(FS, d)
      /\ \A s : Waits(FS, s)' <=> Waits(FS, s)
  BY StillMeans DEF FsRests, Bystander
<1>2. CASE FsIdle
  BY <1>1, <1>2 DEF FsIdle, FsAt
<1>3. CASE pc[FS] = "handle" /\ Waits(FS, ANY)
  BY <1>1, <1>3 DEF FsAt
<1>4. ASSUME NEW p \in User, FsHas(p) PROVE FsAt'
  <2>1. Open(p) /\ Open(p)' /\ op'[p] = op[p]
    BY <1>4 DEF FsHas
  <2>2. FsHas(p)'
    BY <1>1, <1>4, <2>1 DEF FsHas, Asks, Resumes
  <2> QED BY <2>2 DEF FsAt
<1>5. CASE FsTalks
  <2>1. caller \in User /\ Open(caller) /\ Open(caller)' /\ op'[caller'] = op[caller]
    BY <1>1, <1>5 DEF FsTalks
  <2>2. Open(caller)'
    BY <2>1
  <2>3. Request(buf[FS]) => Request(buf[FS])'
    BY <1>1, <2>1 DEF Request
  <2>4. Reply(buf[FS]) => Reply(buf[FS])'
    BY <1>1, <2>1 DEF Reply
  <2>5. FsTalks'
    BY <1>1, <1>5, <2>1, <2>2, <2>3, <2>4 DEF FsTalks
  <2> QED BY <2>5 DEF FsAt
<1> QED BY <1>2, <1>3, <1>4, <1>5 DEF FsAt

\* TTY stays at its place when a user steps and the open requests stay open.
LEMMA TtyAtKept ==
    ASSUME FsRests, Bystander(TTY), FsAt, TtyAt,
           \A q \in User : Open(q) => Open(q)' /\ op'[q] = op[q]
    PROVE  TtyAt'
<1>1. /\ pc'[FS] = pc[FS] /\ buf'[FS] = buf[FS] /\ caller' = caller /\ len' = len
      /\ Free(FS)' <=> Free(FS)
      /\ \A s : Waits(FS, s)' <=> Waits(FS, s)
  BY StillMeans DEF FsRests, Bystander
<1>2. /\ pc'[TTY] = pc[TTY] /\ buf'[TTY] = buf[TTY]
      /\ Free(TTY)' <=> Free(TTY)
      /\ Sends(TTY, FS)' <=> Sends(TTY, FS)
      /\ Waits(TTY, ANY)' <=> Waits(TTY, ANY)
  BY StillMeans DEF Bystander
<1>3. (TtyHas' <=> TtyHas) /\ (TtyReplies' <=> TtyReplies)
  BY <1>1, <1>2 DEF TtyHas, TtyReplies
<1>4. pc[FS] \in {"dev", "answer"} => op'[caller'] = op[caller]
  <2> SUFFICES ASSUME pc[FS] \in {"dev", "answer"} PROVE op'[caller'] = op[caller]
    OBVIOUS
  <2>1. FsTalks
    BY DEF FsAt, FsIdle, FsHas
  <2>2. PICK c \in User : c = caller
    BY <2>1 DEF FsTalks
  <2>3. Open(c)
    BY <2>1, <2>2 DEF FsTalks
  <2> QED BY <1>1, <2>2, <2>3
<1>5. pc[FS] \in {"dev", "answer"} => /\ Request(buf[TTY]) => Request(buf[TTY])'
                                      /\ Reply(buf[TTY]) => Reply(buf[TTY])'
  BY <1>1, <1>2, <1>4 DEF Request, Reply
<1>6. CASE TtyReplies /\ Free(FS) /\ Reply(buf[TTY])
  BY <1>1, <1>3, <1>5, <1>6 DEF TtyAt, TtyReplies
<1>7. ASSUME NEW p \in User, TtyWakes(p) PROVE TtyAt'
  <2>1. Open(p) /\ Open(p)' /\ op'[p] = op[p]
    BY <1>7 DEF TtyWakes
  <2>2. TtyWakes(p)'
    BY <1>1, <1>2, <1>7, <2>1 DEF TtyWakes, Resumes
  <2> QED BY <2>2 DEF TtyAt
<1>8. CASE /\ TtyHas /\ Request(buf[TTY])
           /\ (pc[FS] = "dev" /\ Free(FS)) \/ (pc[FS] = "answer" /\ Waits(FS, TTY))
  BY <1>1, <1>3, <1>5, <1>8 DEF TtyAt
<1> QED BY <1>1, <1>2, <1>6, <1>7, <1>8 DEF TtyAt

\* And every open request stays where it is.
LEMMA PlacesKept ==
    ASSUME FsRests, Bystander(TTY), UNCHANGED reader, Places,
           \A q \in User : Open(q)' => Open(q) /\ op'[q] = op[q]
    PROVE  Places'
<1> SUFFICES ASSUME NEW q \in User PROVE Once(q)' /\ (OwnTerminals => Somewhere(q)')
  BY DEF Places, OwnTerminals
<1>1. /\ pc'[FS] = pc[FS] /\ buf'[FS] = buf[FS] /\ caller' = caller
      /\ Free(FS)' <=> Free(FS)
      /\ \A d : Sends(FS, d)' <=> Sends(FS, d)
  BY StillMeans DEF FsRests, Bystander
<1>2. /\ pc'[TTY] = pc[TTY] /\ buf'[TTY] = buf[TTY]
      /\ Free(TTY)' <=> Free(TTY)
      /\ Sends(TTY, FS)' <=> Sends(TTY, FS)
  BY StillMeans DEF Bystander
<1>3. /\ Asked(q)' <=> Asked(q)
      /\ Reading(q)' <=> Reading(q)
      /\ Woken(q)' <=> Woken(q)
      /\ Waking(q)' <=> Waking(q)
      /\ Answering(q)' <=> Answering(q)
  BY <1>1, <1>2 DEF Asked, Reading, Woken, Waking, Answering, Resumes, TtyHas, reader
<1>4. Once(q) /\ (OwnTerminals => Somewhere(q))
  BY DEF Places
<1> QED BY <1>3, <1>4 DEF Once, Somewhere

\* The readers stay, when no read begins, goes on or ends.
LEMMA ReadersKept ==
    ASSUME UNCHANGED reader, Readers,
           \A q \in User : (Open(q) /\ Reading(q)) => Open(q)' /\ op'[q] = op[q]
    PROVE  Readers'
<1> SUFFICES ASSUME NEW t \in Console, tty_left_cnt[t] > 0
             PROVE  /\ tty_procnr[t] \in User /\ Binding[tty_procnr[t]] = t /\ Open(tty_procnr[t])'
                    /\ op'[tty_procnr[t]].type = "READ"
                    /\ op'[tty_procnr[t]].cnt = tty_left_cnt[t] + tty_trans_cnt[t]
  BY DEF Readers, reader
<1>1. PICK p : p = tty_procnr[t]
  OBVIOUS
<1>2. /\ p \in User /\ Binding[p] = t /\ Open(p)
      /\ op[p].type = "READ" /\ op[p].cnt = tty_left_cnt[t] + tty_trans_cnt[t]
  BY <1>1 DEF Readers
<1>3. Reading(p)
  BY <1>1, <1>2 DEF Reading
<1>4. Open(p)' /\ op'[p] = op[p]
  BY <1>2, <1>3
<1>5. tty_procnr'[t] = p
  BY <1>1 DEF reader
<1> QED BY <1>1, <1>2, <1>4, <1>5

-----------------------------------------------------------------------------
(***************************************************************************)
(* What the invariant says while the system runs.                          *)
(***************************************************************************)

Running ==
    /\ K!IpcInv /\ Typed /\ OnlyTtyInformed /\ Readers
    /\ Users /\ FsAt /\ TtyAt /\ Places

\* While the system runs, the invariant is the conversation, and more.
LEMMA Disassembled == IInv /\ halted = "no" => Running
  BY TypesTogether DEF IInv, Running, Conversation

\* What a step must show when it does not stop the system.
LEMMA Assembled == Running' /\ halted' = "no" => IInv'
  BY TypesAfter DEF IInv, Running, Conversation, NoAssertFails, HaltsOnlyCrossing

\* The tasks and the users are different processes.
LEMMA Different ==
    /\ TTY \in Proc /\ FS \in Proc /\ TTY # FS
    /\ \A p \in User : p \in Proc /\ p # TTY /\ p # FS /\ p # ANY /\ p # INTERRUPT /\ p # NO_TASK
    /\ ANY \notin {TTY, FS, INTERRUPT} /\ INTERRUPT \notin {TTY, FS}
    /\ \A q \in Proc : q \in User \/ q = TTY \/ q = FS
  BY TerminalAssumption DEF Proc

\* A process with the CPU.
LEMMA Awake ==
    ASSUME NEW p, NEW label, At(p, label)
    PROVE  pc[p] = label /\ Free(p) /\ halted = "no"
  BY DEF At, Kernel!Runnable, Free, K!Free

\* Going on to the next label.
LEMMA Going ==
    ASSUME ProgramsTyped, NEW p \in Proc, NEW label, Goto(p, label)
    PROVE  pc'[p] = label /\ \A q \in Proc \ {p} : pc'[q] = pc[q]
  BY DEF Goto, ProgramsTyped

\* Where a process may go.
LEMMA GoingTyped ==
    ASSUME ProgramsTyped, NEW p \in Proc, NEW label, Goto(p, label), label \in Label,
           at' \in Console,
           p = TTY => label \in {"read", "more", "write", "receive", "handle"},
           p = FS => label \in {"receive", "handle", "dev", "answer"},
           p \in User => label \in {"run", "receive", "return"}
    PROVE  ProgramsTyped'
<1>1. pc'[p] = label /\ \A q \in Proc \ {p} : pc'[q] = pc[q]
  BY Going
<1>2. pc' \in [Proc -> Label]
  BY DEF Goto, ProgramsTyped
<1> QED BY <1>1, <1>2, Different DEF ProgramsTyped

\* Whom FS sends to does not send.
LEMMA FsChainEnds ==
    ASSUME K!IpcInv, FsAt, TtyAt, NEW e, NEW f, Sends(FS, e)
    PROVE  ~ Sends(e, f) /\ (e = TTY \/ (e \in User /\ Open(e)))
<1> USE Standing DEF OneReason
<1>1. CASE FsIdle
  <2>1. PICK p \in User : Sends(FS, p) /\ Open(p)
    BY <1>1 DEF FsIdle
  <2>2. e = p
    BY <2>1
  <2>3. ~ Sends(p, f)
    BY <2>1 DEF Open
  <2> QED BY <2>1, <2>2, <2>3
<1>2. CASE FsTalks
  <2>1. Sends(FS, TTY)
    BY <1>2 DEF FsTalks
  <2>2. e = TTY
    BY <2>1
  <2>3. ~ Sends(TTY, FS)
    BY <2>1, NoCross
  <2>4. ~ Sends(TTY, f)
    <3>1. TtyAt => Free(TTY) \/ Waits(TTY, ANY) \/ Sends(TTY, FS)
      BY DEF TtyAt, TtyHas, TtyReplies, TtyWakes
    <3> QED BY <2>3, <3>1
  <2> QED BY <2>2, <2>4
<1>3. ~ (pc[FS] = "handle" /\ Waits(FS, ANY)) /\ ~ \E p \in User : FsHas(p)
  BY DEF FsHas
<1> QED BY <1>1, <1>2, <1>3 DEF FsAt

\* A user's calls.
LEMMA CallTyped ==
    ASSUME NEW p \in User, NEW c \in Program[p]
    PROVE  /\ c \in [type : CallType, cnt : 0 .. MaxLen]
           /\ c.type \in {"OPEN", "READ", "WRITE", "FILE"} /\ c.cnt \in 0 .. MaxLen
           /\ Msg(c.type, NO_TASK, c.cnt) \in Type
<1>1. c \in [type : {"OPEN", "READ", "WRITE", "FILE"}, cnt : 0 .. MaxLen]
  BY TerminalAssumption
<1>2. c.type \in {"OPEN", "READ", "WRITE", "FILE"} /\ c.cnt \in 0 .. MaxLen
  BY <1>1
<1>3. c \in [type : CallType, cnt : 0 .. MaxLen]
  BY <1>1 DEF CallType
<1> QED BY <1>2, <1>3 DEF Msg, Type

\* A reader's call is open.
LEMMA ReadingOpen ==
    ASSUME Readers, NEW p \in User, Reading(p)
    PROVE  Open(p) /\ op[p].type = "READ"
<1>1. PICK t \in Console : t = Binding[p]
  BY TerminalAssumption
<1>2. tty_procnr[t] = p /\ tty_left_cnt[t] > 0
  BY <1>1 DEF Reading
<1> QED BY <1>2 DEF Readers

\* So is the call of the process TTY has read for.
LEMMA WokenOpen ==
    ASSUME TtyAt, NEW p \in User, Woken(p)
    PROVE  TtyWakes(p)
<1>1. Sends(TTY, FS) /\ ~ Free(TTY) /\ ~ Waits(TTY, ANY)
  BY Standing DEF Woken, OneReason
<1>2. ~ Reply(buf[TTY])
  BY DEF Woken, Resumes, Reply
<1>3. PICK q \in User : TtyWakes(q)
  BY <1>1, <1>2 DEF TtyAt, TtyHas
<1>4. q = p
  BY <1>3 DEF TtyWakes, Woken, Resumes
<1> QED BY <1>3, <1>4

\* What FS may be asleep for.
LEMMA FsWaiting ==
    ASSUME FsAt, NEW s, Waits(FS, s)
    PROVE  (s = ANY /\ pc[FS] = "handle") \/ (s = TTY /\ pc[FS] = "answer" /\ TtyHas /\ FsTalks)
  BY Standing DEF OneReason, FsAt, FsIdle, FsHas, FsTalks

\* TTY and FS do not talk to each other.
Apart == pc[FS] \in {"receive", "handle"} \/ (pc[FS] = "answer" /\ Free(FS))

\* TTY goes on as it was.
LEMMA TtyAtApart ==
    ASSUME Bystander(TTY), TtyAt, Apart, pc'[FS] \in {"receive", "handle", "answer"},
           \A q \in User : (Open(q) /\ Woken(q)) => Open(q)' /\ op'[q] = op[q]
    PROVE  TtyAt'
<1>1. /\ pc'[TTY] = pc[TTY] /\ buf'[TTY] = buf[TTY]
      /\ Free(TTY)' <=> Free(TTY)
      /\ Sends(TTY, FS)' <=> Sends(TTY, FS)
      /\ Waits(TTY, ANY)' <=> Waits(TTY, ANY)
  BY StillMeans DEF Bystander
<1>2. ~ (/\ TtyHas /\ Request(buf[TTY])
         /\ (pc[FS] = "dev" /\ Free(FS)) \/ (pc[FS] = "answer" /\ Waits(FS, TTY)))
  BY Standing DEF OneReason, Apart
<1>3. ~ (TtyReplies /\ Free(FS) /\ Reply(buf[TTY]))
  BY DEF TtyReplies, Apart
<1>4. ASSUME NEW p \in User, TtyWakes(p) PROVE TtyAt'
  <2>1. Open(p)' /\ op'[p] = op[p]
    BY <1>4 DEF TtyWakes, Woken
  <2>2. TtyWakes(p)'
    BY <1>1, <1>4, <2>1 DEF TtyWakes, Resumes
  <2> QED BY <2>2 DEF TtyAt
<1> QED BY <1>1, <1>2, <1>3, <1>4 DEF TtyAt

\* A read that goes on, or is over, stays so.
LEMMA WokenKept ==
    ASSUME Bystander(TTY), NEW q
    PROVE  Woken(q)' <=> Woken(q)
<1>1. buf'[TTY] = buf[TTY] /\ (Sends(TTY, FS)' <=> Sends(TTY, FS))
  BY StillMeans DEF Bystander
<1> QED BY <1>1 DEF Woken, Resumes

-----------------------------------------------------------------------------
(***************************************************************************)
(* The users.                                                              *)
(***************************************************************************)

\* A user calls FS: its request waits, or FS has been waiting for it.
LEMMA UserCallInv ==
    ASSUME IInv, halted = "no", NEW p \in User, NEW c \in Program[p], UserCall(p, c)
    PROVE  IInv'
<1>1. /\ K!IpcInv /\ Typed /\ OnlyTtyInformed /\ Readers
      /\ Users /\ FsAt /\ TtyAt /\ Places
  BY Disassembled DEF Running
<1>2. TerminalsTyped /\ ProgramsTyped /\ CallsTyped /\ caller \in User \cup {NO_TASK} /\ len \in 0 .. MaxLen \cup {NO_LEN}
  BY <1>1 DEF Typed
<1>3. p \in Proc /\ FS \in Proc /\ TTY \in Proc /\ p # FS /\ p # TTY /\ FS # TTY
  BY Different
<1>4. /\ pc[p] = "run" /\ Free(p) /\ Goto(p, "receive")
      /\ op' = [op EXCEPT ![p] = c]
      /\ Kernel!Send(p, FS, Msg(c.type, NO_TASK, c.cnt))
      /\ UNCHANGED <<ttyVars, at, caller, len>>
  BY Awake DEF UserCall
<1>5. pc'[p] = "receive" /\ \A q \in Proc \ {p} : pc'[q] = pc[q]
  BY <1>2, <1>3, <1>4, Going
<1>6. op'[p] = c /\ \A q \in User \ {p} : op'[q] = op[q]
  BY <1>2, <1>4 DEF CallsTyped
<1>7. ~ Open(p)
  BY <1>4 DEF Open
<1>8. Typed'
  <2>1. ProgramsTyped'
    BY <1>2, <1>3, <1>4, GoingTyped DEF ProgramsTyped, Label
  <2>2. CallsTyped'
    BY <1>2, <1>4, <1>6, CallTyped DEF CallsTyped
  <2> QED BY <1>2, <1>4, <2>1, <2>2, TerminalsKept DEF Typed
<1>9. /\ K!IpcInv' /\ UNCHANGED has_int_msg
      /\ buf'[p] = [source |-> p, type |-> Msg(c.type, NO_TASK, c.cnt)]
      /\ StillBut({p, FS})
      /\ \/ /\ halted' = "deadlock" /\ Still(p) /\ Still(FS) /\ buf'[FS] = buf[FS]
            /\ \E e \in Proc : Sends(FS, e) /\ (e # p => \E f \in Proc : Sends(e, f))
         \/ /\ halted' = halted /\ Expects(FS, p)
            /\ Free(p)' /\ Free(FS)' /\ buf'[FS] = [source |-> p, type |-> Msg(c.type, NO_TASK, c.cnt)]
         \/ /\ halted' = halted /\ ~ Expects(FS, p)
            /\ Sends(p, FS)' /\ Still(FS) /\ buf'[FS] = buf[FS]
  BY <1>1, <1>3, <1>4, CallTyped, Sending
<1>10. ~ \E e \in Proc : Sends(FS, e) /\ (e # p => \E f \in Proc : Sends(e, f))
  BY <1>1, <1>3, <1>7, FsChainEnds
<1>11. OnlyTtyInformed'
  BY <1>1, <1>9 DEF OnlyTtyInformed
<1>12. \A q \in User \ {p} : Bystander(q) /\ UserAt(q)' /\ (Open(q)' <=> Open(q))
  <2> TAKE q \in User \ {p}
  <2>1. Bystander(q)
    BY <1>3, <1>5, <1>9, Different DEF StillBut, Bystander
  <2> QED BY <1>1, <1>6, <2>1, BystanderKept DEF Users
<1>13. Bystander(TTY)
  BY <1>3, <1>5, <1>9 DEF StillBut, Bystander
<1>14. \A q \in User : Open(q) => Open(q)' /\ op'[q] = op[q]
  BY <1>6, <1>7, <1>12
<1>15. Readers'
  BY <1>1, <1>4, <1>14, ReadersKept DEF ttyVars
<1>16. /\ Asks(p, [source |-> p, type |-> Msg(c.type, NO_TASK, c.cnt)])'
       /\ c \in Program[p]
  BY <1>6 DEF Asks, Msg
<1>17. CASE /\ halted' = halted /\ ~ Expects(FS, p)
            /\ Sends(p, FS)' /\ Still(FS) /\ buf'[FS] = buf[FS]
  <2>1. FsRests
    BY <1>3, <1>4, <1>5, <1>17 DEF FsRests, Bystander
  <2>2. ~ Open(p)'
    BY <1>5, <1>17, StandingAfter DEF OneReason, Open
  <2>3. UserAt(p)'
    BY <1>5, <1>6, <1>9, <1>17 DEF UserAt, Asks, Msg
  <2>4. Users'
    BY <1>12, <2>3 DEF Users
  <2>5. (TtyHas' <=> TtyHas) /\ (TtyReplies' <=> TtyReplies)
    BY <1>13, <2>1, StillMeans DEF Bystander, FsRests, TtyHas, TtyReplies
  <2>6. FsAt'
    BY <1>1, <1>14, <2>1, <2>5, FsAtKept
  <2>7. TtyAt'
    BY <1>1, <1>13, <1>14, <2>1, TtyAtKept
  <2>8. Places'
    BY <1>1, <1>4, <1>6, <1>12, <1>13, <2>1, <2>2, PlacesKept DEF ttyVars
  <2> QED BY <1>8, <1>9, <1>11, <1>15, <1>17, <2>4, <2>6, <2>7, <2>8, Assembled DEF Running
<1>18. CASE /\ halted' = halted /\ Expects(FS, p)
            /\ Free(p)' /\ Free(FS)' /\ buf'[FS] = [source |-> p, type |-> Msg(c.type, NO_TASK, c.cnt)]
  <2>1. pc[FS] = "handle" /\ Waits(FS, ANY) /\ pc'[FS] = "handle"
    BY <1>1, <1>3, <1>5, <1>18, FsWaiting, Different DEF Expects
  <2>2. Open(p)'
    BY <1>5, <1>18 DEF Open
  <2>3. UserAt(p)'
    BY <1>5, <1>6, <1>18 DEF UserAt
  <2>4. Users'
    BY <1>12, <2>3 DEF Users
  <2>5. FsAt'
    <3>1. Asks(p, buf[FS])'
      BY <1>6, <1>18 DEF Asks, Msg
    <3>2. FsHas(p)'
      BY <1>18, <2>1, <2>2, <3>1 DEF FsHas
    <3> QED BY <3>2 DEF FsAt
  <2>6. TtyAt'
    BY <1>1, <1>13, <1>14, <2>1, TtyAtApart DEF Apart
  <2>7. ASSUME NEW q \in User PROVE Once(q)' /\ (OwnTerminals => Somewhere(q)')
    <3>1. (Reading(q)' <=> Reading(q)) /\ (Woken(q)' <=> Woken(q))
      BY <1>4, <1>13, WokenKept DEF Reading, ttyVars, reader
    <3>2. ~ Waking(q)' /\ ~ Answering(q)' /\ (Asked(q)' <=> q = p)
      BY <1>3, <1>18, <2>1, StandingAfter DEF OneReason, Waking, Answering, Asked, Resumes
    <3>3. ~ Waking(q) /\ ~ Answering(q) /\ ~ Asked(q)
      BY <2>1, Standing DEF OneReason, Waking, Answering, Asked
    <3>4. q = p => ~ Reading(q) /\ ~ Woken(q)
      BY <1>1, <1>7, ReadingOpen, WokenOpen DEF TtyWakes
    <3>5. q # p => (Open(q)' <=> Open(q)) /\ op'[q] = op[q]
      BY <1>6, <1>12
    <3>6. Once(q) /\ (OwnTerminals => Somewhere(q))
      BY <1>1 DEF Places
    <3>7. Once(q)'
      BY <3>1, <3>2, <3>3, <3>4, <3>6 DEF Once
    <3>8. OwnTerminals => Somewhere(q)'
      BY <3>1, <3>2, <3>3, <3>5, <3>6 DEF Somewhere
    <3> QED BY <3>7, <3>8
  <2>8. Places'
    BY <2>7 DEF Places, OwnTerminals
  <2> QED BY <1>8, <1>9, <1>11, <1>15, <1>18, <2>4, <2>5, <2>6, <2>8, Assembled DEF Running
<1> QED BY <1>9, <1>10, <1>17, <1>18

\* A user waits for its answer, or takes the one FS wants to give.
LEMMA UserReceiveInv ==
    ASSUME IInv, halted = "no", NEW p \in User, UserReceive(p)
    PROVE  IInv'
<1>1. /\ K!IpcInv /\ Typed /\ OnlyTtyInformed /\ Readers
      /\ Users /\ FsAt /\ TtyAt /\ Places
  BY Disassembled DEF Running
<1>2. TerminalsTyped /\ ProgramsTyped /\ CallsTyped /\ caller \in User \cup {NO_TASK} /\ len \in 0 .. MaxLen \cup {NO_LEN}
  BY <1>1 DEF Typed
<1>3. p \in Proc \ {TTY} /\ FS \in Proc /\ TTY \in Proc /\ p # FS /\ p # TTY /\ FS # TTY /\ FS # ANY /\ p # ANY
  BY Different
<1>4. /\ pc[p] = "receive" /\ Free(p) /\ Goto(p, "return")
      /\ Kernel!Receive(p, FS)
      /\ UNCHANGED <<ttyVars, op, at, caller, len>>
  BY Awake DEF UserReceive
<1>5. pc'[p] = "return" /\ \A q \in Proc \ {p} : pc'[q] = pc[q]
  BY <1>2, <1>3, <1>4, Going
<1>6. Typed'
  <2>1. ProgramsTyped'
    BY <1>2, <1>3, <1>4, GoingTyped DEF ProgramsTyped, Label
  <2>2. CallsTyped'
    BY <1>2, <1>4 DEF CallsTyped
  <2> QED BY <1>2, <1>4, <2>1, <2>2, TerminalsKept DEF Typed
<1>7. /\ K!IpcInv' /\ OnlyTtyInformed' /\ halted' = halted
      /\ \/ \E e \in Proc \ {p} :
               /\ Sends(e, p) /\ FS \in {e, ANY}
               /\ Free(e)' /\ Free(p)' /\ buf'[p] = buf[e] /\ buf'[e] = buf[e]
               /\ StillBut({e, p})
         \/ Waits(p, FS)' /\ StillBut({p})
  BY <1>1, <1>3, <1>4, Receiving
<1>8. \A q \in User \ {p} : Bystander(q) /\ UserAt(q)' /\ (Open(q)' <=> Open(q))
  <2> TAKE q \in User \ {p}
  <2>1. Bystander(q)
    BY <1>3, <1>5, <1>7, Different DEF StillBut, Bystander
  <2> QED BY <1>1, <1>4, <2>1, BystanderKept DEF Users
<1>9. Bystander(TTY)
  BY <1>3, <1>5, <1>7 DEF StillBut, Bystander
<1>10. Open(p) /\ op[p] \in Program[p]
  <2>1. UserAt(p)
    BY <1>1 DEF Users
  <2> QED BY <1>4, <2>1 DEF Open, UserAt
<1>11. CASE Waits(p, FS)' /\ StillBut({p})
  <2>1. FsRests
    BY <1>3, <1>4, <1>5, <1>11 DEF FsRests, Bystander, StillBut
  <2>2. Open(p)' /\ UserAt(p)'
    BY <1>4, <1>5, <1>10, <1>11 DEF Open, UserAt
  <2>3. Users'
    BY <1>8, <2>2 DEF Users
  <2>4. \A q \in User : (Open(q)' <=> Open(q)) /\ op'[q] = op[q]
    BY <1>4, <1>8, <1>10, <2>2
  <2>5. (TtyHas' <=> TtyHas) /\ (TtyReplies' <=> TtyReplies)
    BY <1>9, <2>1, StillMeans DEF Bystander, FsRests, TtyHas, TtyReplies
  <2>6. FsAt'
    BY <1>1, <2>1, <2>4, <2>5, FsAtKept
  <2>7. TtyAt'
    BY <1>1, <1>9, <2>1, <2>4, TtyAtKept
  <2>8. Places'
    BY <1>1, <1>4, <1>9, <2>1, <2>4, PlacesKept DEF ttyVars
  <2>9. Readers'
    BY <1>1, <1>4, <2>4, ReadersKept DEF ttyVars
  <2> QED BY <1>6, <1>7, <2>3, <2>6, <2>7, <2>8, <2>9, Assembled DEF Running
<1>12. CASE \E e \in Proc \ {p} :
               /\ Sends(e, p) /\ FS \in {e, ANY}
               /\ Free(e)' /\ Free(p)' /\ buf'[p] = buf[e] /\ buf'[e] = buf[e]
               /\ StillBut({e, p})
  <2>1. Sends(FS, p) /\ Free(FS)' /\ Free(p)'
    BY <1>3, <1>12
  <2>2. pc[FS] = "receive" /\ pc'[FS] = "receive"
    BY <1>1, <1>3, <1>5, <2>1, Standing DEF OneReason, FsAt, FsIdle, FsHas, FsTalks
  <2>3. UserAt(p)' /\ ~ Open(p)'
    BY <1>4, <1>5, <1>10, <2>1, StandingAfter DEF OneReason, UserAt, Open
  <2>4. Users'
    BY <1>8, <2>3 DEF Users
  <2>5. FsAt'
    BY <2>1, <2>2 DEF FsAt, FsIdle
  <2>6. ~ Reading(p) /\ ~ Woken(p)
    BY <1>1, <2>1 DEF Places, Once, Answering
  <2>7. TtyAt'
    BY <1>1, <1>4, <1>8, <1>9, <2>2, <2>6, TtyAtApart DEF Apart
  <2>8. Readers'
    BY <1>1, <1>4, <1>8, <2>6, ReadersKept DEF ttyVars
  <2>9. ASSUME NEW q \in User PROVE Once(q)' /\ (OwnTerminals => Somewhere(q)')
    <3>1. (Reading(q)' <=> Reading(q)) /\ (Woken(q)' <=> Woken(q))
      BY <1>4, <1>9, WokenKept DEF Reading, ttyVars, reader
    <3>2. ~ Waking(q)' /\ ~ Answering(q)' /\ ~ Asked(q)'
      BY <2>1, <2>2, StandingAfter DEF OneReason, Waking, Answering, Asked
    <3>3. ~ Waking(q) /\ ~ Asked(q) /\ (Answering(q) => q = p)
      BY <2>1, <2>2, Standing DEF OneReason, Waking, Answering, Asked
    <3>4. q # p => (Open(q)' <=> Open(q)) /\ op'[q] = op[q]
      BY <1>4, <1>8
    <3>5. Once(q) /\ (OwnTerminals => Somewhere(q))
      BY <1>1 DEF Places
    <3>6. Once(q)'
      BY <3>1, <3>2, <3>5 DEF Once
    <3>7. OwnTerminals => Somewhere(q)'
      BY <2>3, <3>1, <3>2, <3>3, <3>4, <3>5 DEF Somewhere
    <3> QED BY <3>6, <3>7
  <2>10. Places'
    BY <2>9 DEF Places, OwnTerminals
  <2> QED BY <1>6, <1>7, <2>4, <2>5, <2>7, <2>8, <2>10, Assembled DEF Running
<1> QED BY <1>7, <1>11, <1>12

\* The call of a user returns.
LEMMA UserReturnInv ==
    ASSUME IInv, halted = "no", NEW p \in User, UserReturn(p)
    PROVE  IInv'
<1>1. /\ K!IpcInv /\ Typed /\ OnlyTtyInformed /\ Readers
      /\ Users /\ FsAt /\ TtyAt /\ Places
  BY Disassembled DEF Running
<1>2. TerminalsTyped /\ ProgramsTyped /\ CallsTyped /\ caller \in User \cup {NO_TASK} /\ len \in 0 .. MaxLen \cup {NO_LEN}
  BY <1>1 DEF Typed
<1>3. p \in Proc /\ FS \in Proc /\ TTY \in Proc /\ p # FS /\ p # TTY /\ FS # TTY
  BY Different
<1>4. /\ pc[p] = "return" /\ Free(p) /\ Goto(p, "run")
      /\ op' = [op EXCEPT ![p] = NoCall]
      /\ buf' = [buf EXCEPT ![p] = Blank(p)]
      /\ UNCHANGED <<flags, p_msg, recv_from, send_to, has_int_msg, q_sending, halted>>
      /\ UNCHANGED <<ttyVars, at, caller, len>>
  BY Awake DEF UserReturn
<1>5. pc'[p] = "run" /\ \A q \in Proc \ {p} : pc'[q] = pc[q]
  BY <1>2, <1>3, <1>4, Going
<1>6. op'[p] = NoCall /\ \A q \in User \ {p} : op'[q] = op[q]
  BY <1>2, <1>4 DEF CallsTyped
<1>7. Typed'
  <2>1. ProgramsTyped'
    BY <1>2, <1>3, <1>4, GoingTyped DEF ProgramsTyped, Label
  <2>2. NoCall \in [type : CallType, cnt : 0 .. MaxLen]
    BY TerminalAssumption DEF NoCall, CallType
  <2>3. CallsTyped'
    BY <1>2, <1>4, <1>6, <2>2 DEF CallsTyped
  <2> QED BY <1>2, <1>4, <2>1, <2>3, TerminalsKept DEF Typed
<1>8. K!IpcInv' /\ OnlyTtyInformed'
  <2>1. K!TypeOK /\ buf \in [Proc -> K!Message]
    BY <1>1 DEF K!IpcInv, K!TypeOK
  <2>2. Blank(p) \in K!Message
    BY <1>3, TerminalAssumption DEF Blank, Ret, Msg, Type, K!Message
  <2>3. buf' \in [Proc -> K!Message]
    BY <1>4, <2>1, <2>2
  <2>4. has_int_msg' \in [Proc -> BOOLEAN] /\ halted' \in {"no", "deadlock", "assert"}
    BY <1>4, <2>1 DEF K!TypeOK
  <2>5. UNCHANGED <<flags, p_msg, recv_from, send_to, q_sending>>
        /\ \A q \in Proc : has_int_msg'[q] => has_int_msg[q]
    BY <1>4
  <2>6. K!IpcInv'
    BY <1>1, <2>3, <2>4, <2>5, K!OtherInv, KernelAssumption
  <2>7. OnlyTtyInformed'
    BY <1>1, <2>5 DEF OnlyTtyInformed
  <2> QED BY <2>6, <2>7
<1>9. StillBut({p}) /\ Still(p)
  <2>1. \A q : Still(q)
    BY <1>4, K!StillKept, KernelAssumption DEF Still
  <2>2. \A q \in Proc \ {p} : buf'[q] = buf[q]
    BY <1>1, <1>4 DEF K!IpcInv, K!TypeOK
  <2> QED BY <2>1, <2>2 DEF StillBut
<1>10. \A q \in User \ {p} : Bystander(q) /\ UserAt(q)' /\ (Open(q)' <=> Open(q))
  <2> TAKE q \in User \ {p}
  <2>1. Bystander(q)
    BY <1>3, <1>5, <1>9, Different DEF StillBut, Bystander
  <2> QED BY <1>1, <1>6, <2>1, BystanderKept DEF Users
<1>11. Bystander(TTY) /\ FsRests
  BY <1>3, <1>4, <1>5, <1>9 DEF StillBut, Bystander, FsRests
<1>12. ~ Open(p) /\ ~ Open(p)' /\ UserAt(p)'
  <2>1. Free(p)'
    BY <1>4, <1>9, StillMeans
  <2> QED BY <1>4, <1>5, <1>6, <2>1, Standing DEF OneReason, UserAt, Open
<1>13. Users'
  BY <1>10, <1>12 DEF Users
<1>14. \A q \in User : (Open(q)' <=> Open(q)) /\ (Open(q) => op'[q] = op[q])
  BY <1>6, <1>10, <1>12
<1>15. (TtyHas' <=> TtyHas) /\ (TtyReplies' <=> TtyReplies)
  BY <1>11, StillMeans DEF Bystander, FsRests, TtyHas, TtyReplies
<1>16. FsAt'
  BY <1>1, <1>11, <1>14, <1>15, FsAtKept
<1>17. TtyAt'
  BY <1>1, <1>11, <1>14, TtyAtKept
<1>18. Places'
  BY <1>1, <1>4, <1>11, <1>14, PlacesKept DEF ttyVars
<1>19. Readers'
  BY <1>1, <1>4, <1>14, ReadersKept DEF ttyVars
<1> QED BY <1>4, <1>7, <1>8, <1>13, <1>16, <1>17, <1>18, <1>19, Assembled DEF Running

-----------------------------------------------------------------------------
(***************************************************************************)
(* FS.                                                                     *)
(***************************************************************************)

\* A step of FS is seen by nobody but the process of S it talks to.
LEMMA FsStepKeeps ==
    ASSUME ProgramsTyped, Users, NEW S, StillBut(S \cup {FS}), NEW label, Goto(FS, label), UNCHANGED op
    PROVE  \A q \in User \ S : Bystander(q) /\ UserAt(q)' /\ (Open(q)' <=> Open(q)) /\ op'[q] = op[q]
<1> TAKE q \in User \ S
<1>1. q \in Proc \ (S \cup {FS}) /\ q \in Proc \ {FS} /\ FS \in Proc
  BY Different
<1>2. Bystander(q)
  BY <1>1, Going DEF StillBut, Bystander
<1> QED BY <1>2, BystanderKept DEF Users

\* What a step of FS leaves typed.
LEMMA FsStepTyped ==
    ASSUME Typed, NEW label \in {"receive", "handle", "dev", "answer"}, Goto(FS, label),
           UNCHANGED <<ttyVars, op, at>>, caller' \in User \cup {NO_TASK}, len' \in 0 .. MaxLen \cup {NO_LEN}
    PROVE  Typed'
<1>1. TerminalsTyped /\ ProgramsTyped /\ CallsTyped
  BY DEF Typed
<1>2. ProgramsTyped'
  BY <1>1, GoingTyped, Different DEF ProgramsTyped, Label
<1>3. CallsTyped'
  BY <1>1 DEF CallsTyped
<1> QED BY <1>1, <1>2, <1>3, TerminalsKept DEF Typed

\* FS waits for a request, or takes one: a user's, or the news of a read.
LEMMA FsReceiveInv ==
    ASSUME IInv, halted = "no", FsReceive
    PROVE  IInv'
<1>1. /\ K!IpcInv /\ Typed /\ OnlyTtyInformed /\ Readers
      /\ Users /\ FsAt /\ TtyAt /\ Places
  BY Disassembled DEF Running
<1>2. ProgramsTyped /\ caller \in User \cup {NO_TASK} /\ len \in 0 .. MaxLen \cup {NO_LEN}
  BY <1>1 DEF Typed
<1>3. FS \in Proc \ {TTY} /\ TTY \in Proc /\ FS # TTY /\ FS # ANY
  BY Different
<1>4. /\ pc[FS] = "receive" /\ Free(FS) /\ Goto(FS, "handle")
      /\ Kernel!Receive(FS, ANY)
      /\ UNCHANGED <<ttyVars, op, at, caller, len>>
  BY Awake DEF FsReceive
<1>5. pc'[FS] = "handle" /\ \A q \in Proc \ {FS} : pc'[q] = pc[q]
  BY <1>2, <1>3, <1>4, Going
<1>6. Typed'
  BY <1>1, <1>2, <1>4, FsStepTyped
<1>7. /\ K!IpcInv' /\ OnlyTtyInformed' /\ halted' = halted
      /\ \/ \E e \in Proc \ {FS} :
               /\ Sends(e, FS)
               /\ Free(e)' /\ Free(FS)' /\ buf'[FS] = buf[e] /\ buf'[e] = buf[e]
               /\ StillBut({e, FS})
         \/ Waits(FS, ANY)' /\ StillBut({FS})
  BY <1>1, <1>3, <1>4, Receiving
<1>8. \A q \in User : ~ Waking(q) /\ ~ Answering(q) /\ ~ Asked(q)
  BY <1>4, Standing DEF OneReason, Waking, Answering, Asked
<1>9. Apart /\ pc'[FS] \in {"receive", "handle", "answer"}
  BY <1>4, <1>5 DEF Apart
<1>10. \A q \in User : Reading(q)' <=> Reading(q)
  BY <1>4 DEF Reading, ttyVars, reader
<1>11. CASE Waits(FS, ANY)' /\ StillBut({FS})
  <2>1. StillBut({} \cup {FS})
    BY <1>11
  <2>2. \A q \in User : UserAt(q)' /\ (Open(q)' <=> Open(q)) /\ op'[q] = op[q]
    <3>1. \A q \in User \ {} : UserAt(q)' /\ (Open(q)' <=> Open(q)) /\ op'[q] = op[q]
      BY <1>1, <1>2, <1>4, <2>1, FsStepKeeps
    <3> QED BY <3>1
  <2>3. Bystander(TTY)
    BY <1>3, <1>5, <1>11 DEF StillBut, Bystander
  <2>4. FsAt'
    BY <1>5, <1>11 DEF FsAt
  <2>5. TtyAt'
    BY <1>1, <1>9, <2>2, <2>3, TtyAtApart
  <2>6. Readers'
    BY <1>1, <1>4, <2>2, ReadersKept DEF ttyVars
  <2>7. \A q \in User : ~ Waking(q)' /\ ~ Answering(q)' /\ ~ Asked(q)'
    BY <1>5, <1>11, StandingAfter DEF OneReason, Waking, Answering, Asked
  <2>8. \A q \in User : Woken(q)' <=> Woken(q)
    BY <2>3, WokenKept
  <2>9. Places'
    BY <1>1, <1>8, <1>10, <2>2, <2>7, <2>8 DEF Places, OwnTerminals, Once, Somewhere
  <2> QED BY <1>6, <1>7, <2>2, <2>4, <2>5, <2>6, <2>9, Assembled DEF Running, Users
<1>12. ASSUME NEW e \in User, Sends(e, FS),
              Free(e)', Free(FS)', buf'[FS] = buf[e], buf'[e] = buf[e], StillBut({e} \cup {FS})
       PROVE  IInv'
  <2>1. \A q \in User \ {e} : UserAt(q)' /\ (Open(q)' <=> Open(q)) /\ op'[q] = op[q]
    BY <1>1, <1>2, <1>4, <1>12, FsStepKeeps
  <2>2. e \in Proc /\ e # FS /\ e # TTY
    BY Different
  <2>3. Bystander(TTY)
    BY <1>3, <1>5, <1>12, <2>2 DEF StillBut, Bystander
  <2>4. /\ pc[e] = "receive" /\ pc'[e] = "receive" /\ op[e] \in Program[e]
        /\ Asks(e, buf[e]) /\ op'[e] = op[e]
    BY <1>1, <1>4, <1>5, <1>12, <2>2, Standing DEF OneReason, Users, UserAt
  <2>5. ~ Open(e)
    BY <1>12, <2>4, Standing DEF OneReason, Open
  <2>6. Open(e)' /\ UserAt(e)'
    BY <1>12, <2>4 DEF Open, UserAt
  <2>7. FsAt'
    <3>1. FsHas(e)'
      BY <1>5, <1>12, <2>4, <2>6 DEF FsHas, Asks
    <3> QED BY <3>1 DEF FsAt
  <2>8. \A q \in User : Open(q) => Open(q)' /\ op'[q] = op[q]
    BY <2>1, <2>5
  <2>9. TtyAt'
    BY <1>1, <1>9, <2>3, <2>8, TtyAtApart
  <2>10. Readers'
    BY <1>1, <1>4, <2>8, ReadersKept DEF ttyVars
  <2>11. buf'[FS].source = e
    BY <1>12, <2>4 DEF Asks
  <2>12. \A q \in User : ~ Waking(q)' /\ ~ Answering(q)' /\ (Asked(q)' <=> q = e)
    BY <1>3, <1>5, <1>12, <2>2, <2>11, StandingAfter DEF OneReason, Waking, Answering, Asked, Resumes
  <2>13. \A q \in User : Woken(q)' <=> Woken(q)
    BY <2>3, WokenKept
  <2>14. ~ Reading(e) /\ ~ Woken(e)
    BY <1>1, <2>5, ReadingOpen, WokenOpen DEF TtyWakes
  <2>15. \A q \in User : Once(q)'
    BY <1>1, <1>10, <2>12, <2>13, <2>14 DEF Places, Once
  <2>16. OwnTerminals => \A q \in User : Somewhere(q)'
    BY <1>1, <1>8, <1>10, <2>1, <2>12, <2>13 DEF Places, Somewhere
  <2>17. Places'
    BY <2>15, <2>16 DEF Places, OwnTerminals
  <2> QED BY <1>6, <1>7, <2>1, <2>6, <2>7, <2>9, <2>10, <2>17, Assembled DEF Running, Users
<1>13. ASSUME Sends(TTY, FS),
              Free(TTY)', Free(FS)', buf'[FS] = buf[TTY], buf'[TTY] = buf[TTY], StillBut({TTY} \cup {FS})
       PROVE  IInv'
  <2>1. \A q \in User : UserAt(q)' /\ (Open(q)' <=> Open(q)) /\ op'[q] = op[q]
    BY <1>1, <1>2, <1>4, <1>13, FsStepKeeps, Different
  <2>2. PICK r \in User : TtyWakes(r)
    BY <1>1, <1>4, <1>13, Standing DEF OneReason, TtyAt, TtyHas, TtyReplies
  <2>3. pc'[TTY] = pc[TTY]
    BY <1>3, <1>5
  <2>4. FsAt'
    <3>1. FsHas(r)'
      BY <1>5, <1>13, <2>1, <2>2 DEF FsHas, TtyWakes, Resumes
    <3> QED BY <3>1 DEF FsAt
  <2>5. TtyAt'
    BY <1>13, <2>2, <2>3 DEF TtyAt, TtyWakes
  <2>6. Readers'
    BY <1>1, <1>4, <2>1, ReadersKept DEF ttyVars
  <2>7. buf'[FS].source = TTY
    BY <1>13, <2>2 DEF TtyWakes, Resumes
  <2>8. \A q \in User : ~ Woken(q)' /\ ~ Answering(q)' /\ ~ Asked(q)'
    BY <1>5, <1>13, <2>7, StandingAfter, Different DEF OneReason, Woken, Answering, Asked
  <2>9. \A q \in User : Waking(q)' <=> Woken(q)
    BY <1>5, <1>13 DEF Waking, Woken, Resumes
  <2>10. Places'
    BY <1>1, <1>8, <1>10, <2>1, <2>8, <2>9 DEF Places, OwnTerminals, Once, Somewhere
  <2> QED BY <1>6, <1>7, <2>1, <2>4, <2>5, <2>6, <2>10, Assembled DEF Running, Users
<1>14. ASSUME NEW e \in Proc \ {FS}, Sends(e, FS),
              Free(e)', Free(FS)', buf'[FS] = buf[e], buf'[e] = buf[e], StillBut({e, FS})
       PROVE  IInv'
  <2>1. StillBut({e} \cup {FS})
    BY <1>14
  <2>2. e \in User \/ e = TTY
    BY Different
  <2> QED BY <1>12, <1>13, <1>14, <2>1, <2>2
<1> QED BY <1>7, <1>11, <1>14

\* FS gives p the answer to its call.
LEMMA FsToUser ==
    ASSUME Running, halted = "no", Apart, Free(FS), NEW p \in User, Open(p), ~ Reading(p), ~ Woken(p),
           \A q \in User \ {p} : ~ Asked(q) /\ ~ Waking(q),
           Goto(FS, "receive"), NEW t \in Type, Kernel!Send(FS, p, t),
           UNCHANGED <<ttyVars, op, at>>, Typed'
    PROVE  IInv'
<1>1. /\ K!IpcInv /\ Typed /\ OnlyTtyInformed /\ Readers
      /\ Users /\ FsAt /\ TtyAt /\ Places
  BY DEF Running
<1>2. ProgramsTyped
  BY <1>1 DEF Typed
<1>3. FS \in Proc /\ TTY \in Proc /\ FS # TTY /\ p \in Proc \ {FS} /\ p # TTY
  BY Different
<1>4. pc'[FS] = "receive" /\ \A q \in Proc \ {FS} : pc'[q] = pc[q]
  BY <1>2, <1>3, Going
<1>5. /\ K!IpcInv' /\ UNCHANGED has_int_msg
      /\ StillBut({FS, p})
      /\ \/ /\ halted' = "deadlock"
            /\ \E e \in Proc : Sends(p, e)
         \/ /\ halted' = halted /\ Expects(p, FS) /\ Free(FS)' /\ Free(p)'
         \/ /\ halted' = halted /\ Sends(FS, p)' /\ Still(p) /\ buf'[p] = buf[p]
  BY <1>1, <1>3, Sending
<1>6. \A e : ~ Sends(p, e)
  BY Standing DEF OneReason, Open
<1>7. halted' = halted
  BY <1>5, <1>6
<1>8. \A q \in User \ {p} : UserAt(q)' /\ (Open(q)' <=> Open(q)) /\ op'[q] = op[q]
  <2>1. StillBut({p} \cup {FS})
    <3>1. {p} \cup {FS} = {FS, p}
      OBVIOUS
    <3> QED BY <1>5, <3>1
  <2> QED BY <1>1, <1>2, <2>1, FsStepKeeps
<1>9. Bystander(TTY)
  BY <1>3, <1>4, <1>5 DEF StillBut, Bystander
<1>10. OnlyTtyInformed'
  BY <1>1, <1>5 DEF OnlyTtyInformed
<1>11. TtyAt'
  BY <1>1, <1>4, <1>8, <1>9, TtyAtApart
<1>12. Readers'
  BY <1>1, <1>8, ReadersKept DEF ttyVars
<1>13. \A q \in User : (Reading(q)' <=> Reading(q)) /\ (Woken(q)' <=> Woken(q))
  BY <1>9, WokenKept DEF Reading, ttyVars, reader
<1>14. \A q \in User : ~ Asked(q)' /\ ~ Waking(q)'
  BY <1>4 DEF Asked, Waking
<1>15. \A q \in User : ~ Answering(q)
  BY Standing DEF OneReason, Answering
<1>16. UserAt(p)
  BY <1>1 DEF Users
<1>17. CASE Expects(p, FS) /\ Free(FS)' /\ Free(p)'
  <2>1. pc[p] = "return" /\ pc'[p] = "return" /\ op[p] \in Program[p] /\ op'[p] = op[p]
    BY <1>3, <1>4, <1>16, <1>17, Standing DEF OneReason, Expects, Open, UserAt
  <2>2. UserAt(p)' /\ ~ Open(p)'
    BY <1>17, <2>1, StandingAfter DEF OneReason, UserAt, Open
  <2>3. FsAt'
    BY <1>4, <1>17 DEF FsAt, FsIdle
  <2>4. \A q \in User : ~ Answering(q)'
    BY <1>17, StandingAfter DEF OneReason, Answering
  <2>5. \A q \in User : Once(q)'
    BY <1>1, <1>13, <1>14, <2>4 DEF Places, Once
  <2>6. OwnTerminals => \A q \in User : Somewhere(q)'
    BY <1>1, <1>8, <1>13, <1>15, <2>2 DEF Places, Somewhere
  <2>7. Places'
    BY <2>5, <2>6 DEF Places, OwnTerminals
  <2> QED BY <1>5, <1>7, <1>8, <1>10, <1>11, <1>12, <2>2, <2>3, <2>7, Assembled DEF Running, Users
<1>18. CASE Sends(FS, p)' /\ Still(p) /\ buf'[p] = buf[p]
  <2>1. Bystander(p) /\ op'[p] = op[p]
    BY <1>3, <1>4, <1>18 DEF Bystander
  <2>2. UserAt(p)' /\ Open(p)'
    BY <1>16, <2>1, BystanderKept
  <2>3. FsAt'
    BY <1>4, <1>18, <2>2 DEF FsAt, FsIdle
  <2>4. \A q \in User : Answering(q)' <=> q = p
    BY <1>18, StandingAfter DEF OneReason, Answering
  <2>5. \A q \in User : Once(q)'
    BY <1>1, <1>13, <1>14, <2>4 DEF Places, Once
  <2>6. OwnTerminals => \A q \in User : Somewhere(q)'
    BY <1>1, <1>8, <1>13, <1>15, <2>4 DEF Places, Somewhere
  <2>7. Places'
    BY <2>5, <2>6 DEF Places, OwnTerminals
  <2> QED BY <1>5, <1>7, <1>8, <1>10, <1>11, <1>12, <2>2, <2>3, <2>7, Assembled DEF Running, Users
<1> QED BY <1>5, <1>6, <1>17, <1>18

\* What FS handles is one user's.
LEMMA FsHandles ==
    ASSUME FsAt, pc[FS] = "handle", Free(FS)
    PROVE  \E p \in User : FsHas(p)
  BY Standing DEF OneReason, FsAt, FsIdle, FsTalks

\* The calls of the users that are open.
LEMMA OpenCall ==
    ASSUME Users, NEW p \in User, Open(p)
    PROVE  /\ op[p].type \in {"OPEN", "READ", "WRITE", "FILE"}
           /\ op[p].cnt \in 0 .. MaxLen
<1>1. op[p] \in Program[p]
  BY DEF Users, UserAt, Open
<1> QED BY <1>1, CallTyped

\* A call that does not concern a terminal is answered.
LEMMA FsFileInv ==
    ASSUME IInv, halted = "no", FsFile
    PROVE  IInv'
<1>1. Running
  BY Disassembled
<1>2. /\ Typed /\ FsAt /\ Places /\ caller \in User \cup {NO_TASK} /\ len \in 0 .. MaxLen \cup {NO_LEN}
  BY <1>1 DEF Running, Typed
<1>3. /\ pc[FS] = "handle" /\ Free(FS) /\ buf[FS].type.type = "FILE" /\ Goto(FS, "receive")
      /\ Kernel!Send(FS, buf[FS].source, Ret(0))
      /\ UNCHANGED <<ttyVars, op, at, caller, len>>
  BY Awake DEF FsFile, FsMsg
<1>4. PICK p \in User : FsHas(p)
  BY <1>2, <1>3, FsHandles
<1>5. Open(p) /\ buf[FS].source = p
  BY <1>3, <1>4 DEF FsHas, Asks, Resumes
<1>6. Asked(p)
  BY <1>3, <1>5 DEF Asked
<1>7. ~ Reading(p) /\ ~ Woken(p)
  BY <1>2, <1>6 DEF Places, Once
<1>8. \A q \in User \ {p} : ~ Asked(q) /\ ~ Waking(q)
  BY <1>3, <1>5 DEF Asked, Waking, Resumes
<1>9. Ret(0) \in Type
  BY TerminalAssumption DEF Ret, Msg, Type
<1>10. Typed'
  BY <1>2, <1>3, FsStepTyped
<1>11. Apart
  BY <1>3 DEF Apart
<1> QED BY <1>1, <1>3, <1>5, <1>7, <1>8, <1>9, <1>10, <1>11, FsToUser

\* The reader is told that its read is over.
LEMMA FsResumeInv ==
    ASSUME IInv, halted = "no", FsResume
    PROVE  IInv'
<1>1. Running
  BY Disassembled
<1>2. /\ Typed /\ Users /\ FsAt /\ Places /\ caller \in User \cup {NO_TASK} /\ len \in 0 .. MaxLen \cup {NO_LEN}
  BY <1>1 DEF Running, Typed
<1>3. /\ pc[FS] = "handle" /\ Free(FS) /\ buf[FS].type.type = "RESUME_PROC" /\ Goto(FS, "receive")
      /\ Kernel!Send(FS, buf[FS].type.proc, Ret(buf[FS].type.cnt))
      /\ UNCHANGED <<ttyVars, op, at, caller, len>>
  BY Awake DEF FsResume, FsMsg
<1>4. PICK p \in User : FsHas(p)
  BY <1>2, <1>3, FsHandles
<1>5. Open(p)
  BY <1>4 DEF FsHas
<1>6. Resumes(p, buf[FS])
  BY <1>2, <1>3, <1>4, <1>5, OpenCall DEF FsHas, Asks
<1>7. Waking(p) /\ buf[FS].type.proc = p /\ buf[FS].source = TTY
  BY <1>3, <1>6 DEF Waking, Resumes
<1>8. ~ Reading(p) /\ ~ Woken(p)
  BY <1>2, <1>7 DEF Places, Once
<1>9. \A q \in User \ {p} : ~ Asked(q) /\ ~ Waking(q)
  BY <1>3, <1>7, Different DEF Asked, Waking, Resumes
<1>10. Ret(buf[FS].type.cnt) \in Type
  BY <1>6 DEF Resumes, Ret, Msg, Type
<1>11. Typed'
  BY <1>2, <1>3, FsStepTyped
<1>12. Apart
  BY <1>3 DEF Apart
<1> QED BY <1>1, <1>3, <1>5, <1>7, <1>8, <1>9, <1>10, <1>11, <1>12, FsToUser

\* The request is passed on to TTY, which takes it, or is busy; if TTY is
\* asleep in a SEND to FS, the kernel stops.
LEMMA FsDeviceInv ==
    ASSUME IInv, halted = "no", FsDevice
    PROVE  IInv'
<1>1. /\ K!IpcInv /\ Typed /\ OnlyTtyInformed /\ Readers
      /\ Users /\ FsAt /\ TtyAt /\ Places
  BY Disassembled DEF Running
<1>2. ProgramsTyped
  BY <1>1 DEF Typed
<1>3. FS \in Proc /\ TTY \in Proc \ {FS} /\ FS # TTY
  BY Different
<1>4. /\ pc[FS] = "handle" /\ Free(FS) /\ buf[FS].type.type \in {"OPEN", "READ", "WRITE"}
      /\ Goto(FS, "dev")
      /\ caller' = buf[FS].source
      /\ len' = IF buf[FS].type.type = "OPEN" THEN NO_LEN ELSE buf[FS].type.cnt
      /\ Kernel!Send(FS, TTY, Msg(DevCall[buf[FS].type.type], buf[FS].source, buf[FS].type.cnt))
      /\ UNCHANGED <<ttyVars, op, at>>
  BY Awake DEF FsDevice, FsMsg
<1>5. pc'[FS] = "dev" /\ \A q \in Proc \ {FS} : pc'[q] = pc[q]
  BY <1>2, <1>3, <1>4, Going
<1>6. PICK p \in User : FsHas(p)
  BY <1>1, <1>4, FsHandles
<1>7. Open(p) /\ Asks(p, buf[FS])
  BY <1>4, <1>6 DEF FsHas, Resumes
<1>8. /\ caller' = p /\ len' = LenOf(op[p]) /\ op[p].type \in {"OPEN", "READ", "WRITE"}
      /\ op[p].cnt \in 0 .. MaxLen /\ len' \in 0 .. MaxLen \cup {NO_LEN}
  BY <1>1, <1>4, <1>7, OpenCall DEF Asks, LenOf
<1>9. PICK t : t = Msg(DevCall[op[p].type], p, op[p].cnt)
  OBVIOUS
<1>10. t \in Type
  BY <1>8, <1>9 DEF Msg, Type, DevCall
<1>11. Typed'
  BY <1>1, <1>4, <1>8, FsStepTyped
<1>12. Kernel!Send(FS, TTY, t)
  BY <1>4, <1>7, <1>9 DEF Asks
<1>13. /\ K!IpcInv' /\ UNCHANGED has_int_msg
       /\ buf'[FS] = [source |-> FS, type |-> t]
       /\ StillBut({FS, TTY})
       /\ \/ /\ halted' = "deadlock" /\ Still(FS) /\ Still(TTY) /\ buf'[TTY] = buf[TTY]
             /\ \E e \in Proc : Sends(TTY, e) /\ (e # FS => \E f \in Proc : Sends(e, f))
          \/ /\ halted' = halted /\ Expects(TTY, FS)
             /\ Free(FS)' /\ Free(TTY)' /\ buf'[TTY] = [source |-> FS, type |-> t]
          \/ /\ halted' = halted /\ ~ Expects(TTY, FS)
             /\ Sends(FS, TTY)' /\ Still(TTY) /\ buf'[TTY] = buf[TTY]
  BY <1>1, <1>3, <1>10, <1>12, Sending
<1>14. \A q \in User : UserAt(q)' /\ (Open(q)' <=> Open(q)) /\ op'[q] = op[q]
  <2> TAKE q \in User
  <2>1. Bystander(q)
    BY <1>5, <1>13, Different DEF StillBut, Bystander
  <2> QED BY <1>1, <1>4, <2>1, BystanderKept DEF Users
<1>15. OnlyTtyInformed' /\ Readers'
  BY <1>1, <1>4, <1>13, <1>14, ReadersKept DEF OnlyTtyInformed, ttyVars
<1>16. /\ \A q \in User : Asked(q) <=> q = p
       /\ \A q \in User : ~ Waking(q) /\ ~ Answering(q)
  BY <1>4, <1>7, Different, Standing DEF OneReason, Asked, Waking, Answering, Resumes, Asks
<1>17. \A q \in User : ~ Waking(q)'
  BY <1>5 DEF Waking
<1>18. \A q \in User : Reading(q)' <=> Reading(q)
  BY <1>4 DEF Reading, ttyVars, reader
<1>19. /\ Request([source |-> FS, type |-> t])'
       /\ Open(caller)' /\ caller' \in User
       /\ len' = LenOf(op'[caller']) /\ op'[caller'].type \in {"OPEN", "READ", "WRITE"}
  BY <1>4, <1>8, <1>9, <1>14, <1>7 DEF Request, Msg
<1>20. CASE /\ halted' = "deadlock" /\ Still(FS) /\ Still(TTY) /\ buf'[TTY] = buf[TTY]
            /\ \E e \in Proc : Sends(TTY, e) /\ (e # FS => \E f \in Proc : Sends(e, f))
  <2>1. PICK r \in User : TtyWakes(r)
    BY <1>4, <1>1, <1>20, Standing DEF OneReason, TtyAt, TtyHas, TtyReplies
  <2>2. Woken(r)
    BY <2>1 DEF TtyWakes, Woken
  <2>3. r # p
    BY <1>1, <1>16, <2>2 DEF Places, Once
  <2>4. HaltsOnlyCrossing'
    BY <1>5, <1>8, <1>20, <2>1, <2>3 DEF HaltsOnlyCrossing, TtyMsg, TtyWakes, Resumes
  <2>5. NoAssertFails' /\ halted' # "no"
    BY <1>20 DEF NoAssertFails
  <2> QED BY <1>11, <1>13, <1>15, <2>4, <2>5, TypesAfter DEF IInv
<1>21. CASE /\ halted' = halted /\ Expects(TTY, FS)
            /\ Free(FS)' /\ Free(TTY)' /\ buf'[TTY] = [source |-> FS, type |-> t]
  <2>1. pc[TTY] = "handle" /\ pc'[TTY] = "handle" /\ ~ Sends(TTY, FS)
    BY <1>1, <1>3, <1>4, <1>5, <1>21, Standing DEF OneReason, Expects, TtyAt, TtyReplies, TtyWakes, TtyHas
  <2>2. TtyHas' /\ Request(buf[TTY])'
    BY <1>19, <1>21, <2>1 DEF TtyHas, Request
  <2>3. FsAt' /\ TtyAt'
    BY <1>5, <1>19, <1>21, <2>2 DEF FsAt, FsTalks, TtyAt
  <2>4. \A q \in User : ~ Woken(q)' /\ ~ Answering(q)' /\ (Asked(q)' <=> q = p)
    BY <1>5, <1>8, <1>21, <2>2, StandingAfter DEF OneReason, Woken, Answering, Asked
  <2>5. \A q \in User : ~ Woken(q)
    BY <2>1 DEF Woken
  <2>6. Places'
    BY <1>1, <1>14, <1>16, <1>17, <1>18, <2>4, <2>5 DEF Places, OwnTerminals, Once, Somewhere
  <2> QED BY <1>11, <1>13, <1>14, <1>15, <1>21, <2>3, <2>6, Assembled DEF Running, Users
<1>22. CASE /\ halted' = halted /\ ~ Expects(TTY, FS)
            /\ Sends(FS, TTY)' /\ Still(TTY) /\ buf'[TTY] = buf[TTY]
  <2>1. Bystander(TTY)
    BY <1>3, <1>5, <1>22 DEF Bystander
  <2>2. /\ pc'[TTY] = pc[TTY] /\ (Free(TTY)' <=> Free(TTY)) /\ (Sends(TTY, FS)' <=> Sends(TTY, FS))
    BY <2>1, StillMeans DEF Bystander
  <2>3. ~ Sends(TTY, FS)' /\ ~ Sends(TTY, FS)
    BY <1>13, <1>22, <2>2, NoCrossAfter
  <2>4. \/ pc[TTY] \in {"read", "more", "write", "receive"} /\ Free(TTY)
        \/ pc[TTY] = "handle" /\ Free(TTY) /\ buf[TTY].source = INTERRUPT
    BY <1>1, <1>4, <1>22, <2>3 DEF Expects, TtyAt, TtyReplies, TtyWakes
  <2>5. TtyAt'
    BY <1>22, <2>2, <2>4 DEF TtyAt
  <2>6. Request(buf[FS])'
    BY <1>13, <1>19 DEF Request
  <2>7. FsAt'
    BY <1>5, <1>19, <1>22, <2>6 DEF FsAt, FsTalks
  <2>8. \A q \in User : ~ Answering(q)' /\ (Asked(q)' <=> q = p) /\ ~ Woken(q)' /\ ~ Woken(q)
    BY <1>5, <1>8, <1>22, <2>3, Different, StandingAfter DEF OneReason, Woken, Answering, Asked
  <2>9. Places'
    BY <1>1, <1>14, <1>16, <1>17, <1>18, <2>8 DEF Places, OwnTerminals, Once, Somewhere
  <2> QED BY <1>11, <1>13, <1>14, <1>15, <1>22, <2>5, <2>7, <2>9, Assembled DEF Running, Users
<1> QED BY <1>13, <1>20, <1>21, <1>22

\* FS waits for TTY's reply, or takes it.
LEMMA FsAwaitInv ==
    ASSUME IInv, halted = "no", FsAwait
    PROVE  IInv'
<1>1. /\ K!IpcInv /\ Typed /\ OnlyTtyInformed /\ Readers
      /\ Users /\ FsAt /\ TtyAt /\ Places
  BY Disassembled DEF Running
<1>2. ProgramsTyped /\ caller \in User \cup {NO_TASK} /\ len \in 0 .. MaxLen \cup {NO_LEN}
  BY <1>1 DEF Typed
<1>3. FS \in Proc \ {TTY} /\ TTY \in Proc \ {FS} /\ FS # TTY /\ TTY # ANY
  BY Different
<1>4. /\ pc[FS] = "dev" /\ Free(FS) /\ Goto(FS, "answer")
      /\ Kernel!Receive(FS, TTY)
      /\ UNCHANGED <<ttyVars, op, at, caller, len>>
  BY Awake DEF FsAwait
<1>5. pc'[FS] = "answer" /\ \A q \in Proc \ {FS} : pc'[q] = pc[q]
  BY <1>2, <1>3, <1>4, Going
<1>6. Typed'
  BY <1>1, <1>2, <1>4, FsStepTyped
<1>7. /\ K!IpcInv' /\ OnlyTtyInformed' /\ halted' = halted
      /\ \/ \E e \in Proc \ {FS} :
               /\ Sends(e, FS) /\ TTY \in {e, ANY}
               /\ Free(e)' /\ Free(FS)' /\ buf'[FS] = buf[e] /\ buf'[e] = buf[e]
               /\ StillBut({e, FS})
         \/ /\ \A e \in Proc : Sends(e, FS) => TTY \notin {e, ANY}
            /\ Waits(FS, TTY)' /\ StillBut({FS})
  BY <1>1, <1>3, <1>4, Receiving
<1>8. FsTalks /\ (TtyHas \/ TtyReplies)
  BY <1>1, <1>4, Standing DEF OneReason, FsAt, FsIdle, FsHas, FsTalks
<1>9. PICK c \in User : c = caller /\ c = caller'
  BY <1>4, <1>8 DEF FsTalks
<1>10. /\ Open(c) /\ len = LenOf(op[c]) /\ len' = len /\ op'[c] = op[c]
       /\ op[c].type \in {"OPEN", "READ", "WRITE"}
  BY <1>4, <1>8, <1>9 DEF FsTalks
<1>11. StillBut({FS, TTY})
  BY <1>3, <1>7 DEF StillBut
<1>12. \A q \in User : UserAt(q)' /\ (Open(q)' <=> Open(q)) /\ op'[q] = op[q]
  <2> TAKE q \in User
  <2>1. Bystander(q)
    BY <1>5, <1>11, Different DEF StillBut, Bystander
  <2> QED BY <1>1, <1>4, <2>1, BystanderKept DEF Users
<1>13. Readers'
  BY <1>1, <1>4, <1>12, ReadersKept DEF ttyVars
<1>14. \A q \in User : Reading(q)' <=> Reading(q)
  BY <1>4 DEF Reading, ttyVars, reader
<1>15. \A q \in User : ~ Waking(q) /\ ~ Answering(q) /\ ~ Waking(q)'
  BY <1>4, <1>5, Standing DEF OneReason, Waking, Answering
<1>16. \A q \in User : Asked(q) <=> (q = c /\ TtyHas)
  BY <1>4, <1>9, Standing DEF OneReason, Asked
<1>17. Open(caller)' /\ caller' \in User /\ len' = LenOf(op'[caller']) /\ op'[caller'].type \in {"OPEN", "READ", "WRITE"}
  BY <1>9, <1>10, <1>12
<1>18. CASE Sends(TTY, FS) /\ Free(TTY)' /\ Free(FS)' /\ buf'[FS] = buf[TTY] /\ buf'[TTY] = buf[TTY]
  <2>1. TtyReplies /\ Reply(buf[TTY]) /\ ~ TtyHas
    BY <1>1, <1>4, <1>18, Standing DEF OneReason, TtyAt, TtyHas, TtyWakes
  <2>2. pc'[TTY] = "read"
    BY <1>3, <1>5, <2>1 DEF TtyReplies
  <2>3. TtyAt'
    BY <1>18, <2>2 DEF TtyAt
  <2>4. Reply(buf[FS])'
    BY <1>9, <1>10, <1>18, <2>1 DEF Reply
  <2>5. FsAt'
    BY <1>5, <1>17, <1>18, <2>4 DEF FsAt, FsTalks
  <2>6. \A q \in User : ~ Woken(q)
    BY <2>1 DEF Woken, Resumes, Reply
  <2>7. \A q \in User : ~ Woken(q)' /\ ~ Answering(q)' /\ ~ Asked(q)'
    BY <1>5, <1>18, <2>2, StandingAfter DEF OneReason, Woken, Answering, Asked, TtyHas
  <2>8. Places'
    BY <1>1, <1>12, <1>14, <1>15, <1>16, <2>1, <2>6, <2>7 DEF Places, OwnTerminals, Once, Somewhere
  <2> QED BY <1>6, <1>7, <1>12, <1>13, <1>18, <2>3, <2>5, <2>8, Assembled DEF Running, Users
<1>19. CASE ~ Sends(TTY, FS) /\ Waits(FS, TTY)' /\ StillBut({FS})
  <2>1. Bystander(TTY)
    BY <1>3, <1>5, <1>19 DEF StillBut, Bystander
  <2>2. TtyHas /\ TtyHas' /\ buf'[TTY] = buf[TTY] /\ (Sends(TTY, FS)' <=> Sends(TTY, FS))
    BY <1>8, <1>19, <2>1, StillMeans DEF Bystander, TtyHas, TtyReplies
  <2>3. Request(buf[TTY])
    BY <1>1, <1>3, <1>19, <2>2, Standing, Different DEF OneReason, TtyAt, TtyHas, TtyReplies, TtyWakes
  <2>4. Request(buf[TTY])'
    BY <1>9, <1>10, <2>2, <2>3 DEF Request
  <2>5. FsAt' /\ TtyAt'
    BY <1>5, <1>17, <1>19, <2>2, <2>4 DEF FsAt, FsTalks, TtyAt
  <2>6. \A q \in User : ~ Woken(q)' /\ ~ Woken(q) /\ ~ Answering(q)' /\ (Asked(q)' <=> q = c)
    BY <1>5, <1>9, <1>19, <2>2, StandingAfter DEF OneReason, Woken, Answering, Asked
  <2>7. Places'
    BY <1>1, <1>12, <1>14, <1>15, <1>16, <2>2, <2>6 DEF Places, OwnTerminals, Once, Somewhere
  <2> QED BY <1>6, <1>7, <1>12, <1>13, <1>19, <2>5, <2>7, Assembled DEF Running, Users
<1> QED BY <1>3, <1>7, <1>18, <1>19

\* The user is answered, unless its read goes on; the assertion holds.
LEMMA FsAnswerInv ==
    ASSUME IInv, halted = "no", FsAnswer
    PROVE  IInv'
<1>1. /\ K!IpcInv /\ Typed /\ OnlyTtyInformed /\ Readers
      /\ Users /\ FsAt /\ TtyAt /\ Places
  BY Disassembled DEF Running
<1>2. ProgramsTyped /\ caller \in User \cup {NO_TASK} /\ len \in 0 .. MaxLen \cup {NO_LEN}
  BY <1>1 DEF Typed
<1>3. FS \in Proc \ {TTY} /\ TTY \in Proc \ {FS} /\ FS # TTY
  BY Different
<1>4. /\ pc[FS] = "answer" /\ Free(FS) /\ Goto(FS, "receive")
      /\ caller' = NO_TASK /\ len' = 0
      /\ UNCHANGED <<ttyVars, op, at>>
  BY Awake DEF FsAnswer
<1>5. FsTalks /\ Reply(buf[FS])
  BY <1>1, <1>4, Standing DEF OneReason, FsAt, FsIdle, FsHas, FsTalks
<1>6. PICK c \in User : c = caller
  BY <1>5 DEF FsTalks
<1>7. /\ Open(c) /\ len = LenOf(op[c]) /\ op[c].type \in {"OPEN", "READ", "WRITE"}
      /\ buf[FS].type.cnt = CntOf(op[c]) /\ CntOf(op[c]) \in 0 .. MaxLen
      /\ len \in {buf[FS].type.cnt, NO_LEN} /\ (op[c].type = "READ" => len = buf[FS].type.cnt)
      /\ buf[FS].type.type = IF op[c].type = "READ" THEN "SUSPEND_PROC" ELSE "SYSCALL_RET"
  <2>1. op[c].cnt \in 0 .. MaxLen /\ 0 \in 0 .. MaxLen
    BY <1>1, TerminalAssumption DEF Typed, CallsTyped
  <2> QED BY <1>5, <1>6, <2>1 DEF FsTalks, Reply, LenOf, CntOf
<1>8. /\ op[c].type = "READ" => UNCHANGED ipcVars
      /\ op[c].type # "READ" => Kernel!Send(FS, c, Ret(CntOf(op[c])))
  BY <1>6, <1>7 DEF FsAnswer, FsMsg
<1>9. ~ TtyHas /\ ~ TtyReplies
  BY <1>1, <1>4, Standing, Different DEF OneReason, TtyAt, TtyHas, TtyReplies, TtyWakes
<1>10. \A q \in User : ~ Asked(q) /\ ~ Waking(q)
  BY <1>4, <1>9, Standing DEF OneReason, Asked, Waking
<1>11. Typed'
  <2>1. 0 \in 0 .. MaxLen
    BY TerminalAssumption
  <2> QED BY <1>1, <1>4, <2>1, FsStepTyped
<1>12. Apart
  BY <1>4 DEF Apart
<1>13. CASE op[c].type # "READ"
  <2>1. ~ Reading(c) /\ ~ Woken(c)
    BY <1>1, <1>13, ReadingOpen, WokenOpen DEF TtyWakes
  <2>2. Ret(CntOf(op[c])) \in Type
    BY <1>7 DEF Ret, Msg, Type
  <2>3. Running
    BY Disassembled
  <2> QED BY <1>4, <1>7, <1>8, <1>10, <1>11, <1>12, <1>13, <2>1, <2>2, <2>3, FsToUser
<1>14. CASE op[c].type = "READ"
  <2>1. UNCHANGED ipcVars
    BY <1>8, <1>14
  <2>2. K!IpcInv'
    BY <1>1, <2>1, KernelStep
  <2>3. /\ UNCHANGED <<flags, send_to, recv_from, has_int_msg, buf, halted>>
    BY <2>1 DEF ipcVars
  <2>4. \A q : Still(q)
    BY <2>3, K!StillKept, KernelAssumption DEF Still
  <2>5. StillBut({} \cup {FS})
    BY <2>3, <2>4 DEF StillBut
  <2>6. \A q \in User \ {} : UserAt(q)' /\ (Open(q)' <=> Open(q)) /\ op'[q] = op[q]
    BY <1>1, <1>2, <1>4, <2>5, FsStepKeeps
  <2>7. \A q \in User : UserAt(q)' /\ (Open(q)' <=> Open(q)) /\ op'[q] = op[q]
    BY <2>6
  <2>8. pc'[FS] = "receive" /\ pc'[TTY] = pc[TTY]
    BY <1>2, <1>3, <1>4, Going
  <2>9. Bystander(TTY)
    BY <2>3, <2>4, <2>8 DEF Bystander
  <2>10. OnlyTtyInformed' /\ Readers'
    BY <1>1, <1>4, <2>3, <2>7, ReadersKept DEF OnlyTtyInformed, ttyVars
  <2>11. Free(FS)'
    BY <1>4, <2>4, StillMeans
  <2>12. FsAt'
    BY <2>8, <2>11 DEF FsAt, FsIdle
  <2>13. TtyAt'
    BY <1>1, <1>12, <2>7, <2>8, <2>9, TtyAtApart
  <2>14. \A q \in User : /\ ~ Asked(q)' /\ ~ Waking(q)' /\ ~ Answering(q)' /\ ~ Answering(q)
                         /\ Reading(q)' <=> Reading(q)
                         /\ Woken(q)' <=> Woken(q)
    <3> TAKE q \in User
    <3>1. ~ Asked(q)' /\ ~ Waking(q)'
      BY <2>8 DEF Asked, Waking
    <3>2. ~ Answering(q)' /\ ~ Answering(q)
      BY <1>4, <2>11, Standing, StandingAfter DEF OneReason, Answering
    <3>3. Reading(q)' <=> Reading(q)
      BY <1>4 DEF Reading, ttyVars, reader
    <3> QED BY <2>9, <3>1, <3>2, <3>3, WokenKept
  <2>15. Places'
    BY <1>1, <1>10, <2>7, <2>14 DEF Places, OwnTerminals, Once, Somewhere
  <2> QED BY <1>11, <2>2, <2>3, <2>7, <2>10, <2>12, <2>13, <2>15, Assembled DEF Running, Users
<1> QED BY <1>13, <1>14

-----------------------------------------------------------------------------
(***************************************************************************)
(* TTY.                                                                    *)
(***************************************************************************)

\* What is taken from, or put into, a ring.
LEMMA TailTyped ==
    ASSUME NEW S, NEW s \in Seq(S), s # <<>>
    PROVE  Tail(s) \in Seq(S) /\ Len(Tail(s)) <= Len(s) /\ Head(s) \in S
  OBVIOUS

\* And what a ring is after one more.
LEMMA AppendTyped ==
    ASSUME NEW S, NEW s \in Seq(S), NEW x \in S, NEW n \in Nat, Len(s) < n
    PROVE  Append(s, x) \in Seq(S) /\ Len(Append(s, x)) <= n
  OBVIOUS

\* The system calls of others leave a step of TTY's own nothing to say.
LEMMA NoCallMade ==
    ASSUME K!IpcInv, OnlyTtyInformed, UNCHANGED ipcVars
    PROVE  K!IpcInv' /\ OnlyTtyInformed' /\ halted' = halted /\ \A q : Still(q) /\ buf'[q] = buf[q]
<1>1. UNCHANGED <<flags, send_to, recv_from, has_int_msg, buf, halted>>
  BY DEF ipcVars
<1>2. \A q : Still(q)
  BY <1>1, K!StillKept, KernelAssumption DEF Still
<1>3. K!IpcInv'
  BY KernelStep
<1> QED BY <1>1, <1>2, <1>3 DEF OnlyTtyInformed

\* Where TTY's loop goes on.
LEMMA GoesOnward ==
    ASSUME at \in Console, Onward
    PROVE  /\ at' \in Console
           /\ \E label \in {"read", "write", "receive"} : Goto(TTY, label)
<1>1. at' \in Console
  BY TtyAssumption DEF Onward, Console
<1> QED BY <1>1 DEF Onward

\* What a step of TTY leaves to the users.
LEMMA TtyStepKeeps ==
    ASSUME ProgramsTyped, Users, StillBut({TTY, FS}), NEW label, Goto(TTY, label), UNCHANGED op
    PROVE  \A q \in User : UserAt(q)' /\ (Open(q)' <=> Open(q)) /\ op'[q] = op[q]
<1> TAKE q \in User
<1>1. Bystander(q)
  BY Going, Different DEF StillBut, Bystander
<1> QED BY <1>1, BystanderKept DEF Users

\* What a step of TTY leaves typed.
LEMMA TtyStepTyped ==
    ASSUME Typed, NEW label \in {"read", "more", "write", "receive", "handle"}, Goto(TTY, label),
           at' \in Console, TerminalsTyped', UNCHANGED <<op, caller, len>>
    PROVE  Typed'
<1>1. ProgramsTyped /\ CallsTyped /\ caller \in User \cup {NO_TASK} /\ len \in 0 .. MaxLen \cup {NO_LEN}
  BY DEF Typed
<1>2. ProgramsTyped'
  BY <1>1, GoingTyped, Different DEF Label
<1>3. CallsTyped'
  BY <1>1 DEF CallsTyped
<1> QED BY <1>1, <1>2, <1>3 DEF Typed

\* TTY works at its terminals, without a system call.
LEMMA TtyInternal ==
    ASSUME IInv, halted = "no", Free(TTY), ~ TtyHas,
           NEW label \in {"read", "more", "write", "receive"}, Goto(TTY, label),
           UNCHANGED ipcVars, UNCHANGED <<op, caller, len>>,
           at' \in Console, TerminalsTyped',
           \A q \in User : Reading(q)' <=> Reading(q),
           (\A q \in User : (Open(q)' <=> Open(q)) /\ op'[q] = op[q]) => Readers'
    PROVE  IInv'
<1>1. /\ K!IpcInv /\ Typed /\ OnlyTtyInformed /\ Readers
      /\ Users /\ FsAt /\ TtyAt /\ Places
  BY Disassembled DEF Running
<1>2. ProgramsTyped
  BY <1>1 DEF Typed
<1>3. FS \in Proc /\ TTY \in Proc /\ FS # TTY
  BY Different
<1>4. pc'[TTY] = label /\ \A q \in Proc \ {TTY} : pc'[q] = pc[q]
  BY <1>2, <1>3, Going
<1>5. K!IpcInv' /\ OnlyTtyInformed' /\ halted' = halted /\ \A q : Still(q) /\ buf'[q] = buf[q]
  BY <1>1, NoCallMade
<1>6. Typed'
  BY <1>1, TtyStepTyped
<1>7. \A q \in User : UserAt(q)' /\ (Open(q)' <=> Open(q)) /\ op'[q] = op[q]
  BY <1>1, <1>2, <1>5, TtyStepKeeps DEF StillBut
<1>8. FsRests
  BY <1>3, <1>4, <1>5 DEF FsRests, Bystander
<1>9. Free(TTY)'
  BY <1>5, StillMeans
<1>10. ~ TtyReplies /\ ~ TtyHas' /\ ~ TtyReplies'
  BY <1>4, <1>9, Standing, StandingAfter DEF OneReason, TtyReplies, TtyHas
<1>11. FsAt'
  BY <1>1, <1>7, <1>8, <1>10, FsAtKept
<1>12. TtyAt'
  BY <1>4, <1>9 DEF TtyAt
<1>13. ASSUME NEW q \in User
       PROVE  /\ Asked(q)' <=> Asked(q)
              /\ ~ Woken(q)' /\ ~ Woken(q)
              /\ Waking(q)' <=> Waking(q)
              /\ Answering(q)' <=> Answering(q)
  <2>1. /\ pc'[FS] = pc[FS] /\ buf'[FS] = buf[FS] /\ caller' = caller
        /\ Free(FS)' <=> Free(FS)
        /\ \A d : Sends(FS, d)' <=> Sends(FS, d)
    BY <1>8, StillMeans DEF FsRests, Bystander
  <2>2. ~ Woken(q)' /\ ~ Woken(q)
    BY <1>9, Standing, StandingAfter DEF OneReason, Woken
  <2> QED BY <1>10, <2>1, <2>2 DEF Asked, Waking, Answering, Resumes
<1>14. Places'
  BY <1>1, <1>7, <1>13 DEF Places, OwnTerminals, Once, Somewhere
<1>15. Readers'
  BY <1>7
<1> QED BY <1>5, <1>6, <1>7, <1>11, <1>12, <1>14, <1>15, Assembled DEF Running, Users

\* A scan code is taken from the ring.
LEMMA ByteTaken ==
    ASSUME TerminalsTyped, NEW t \in Console, get_byte_from_kbuf,
           in_process(t, Head(kb_in)) \/ UNCHANGED <<nr_current_console, ibuf>>
    PROVE  TerminalsTyped'
<1>1. /\ kb_in \in Seq(Code) /\ Len(kb_in) <= KB_IN_BYTES /\ kb_in # <<>> /\ kb_in' = Tail(kb_in)
      /\ UNCHANGED <<wire, keys, key_pressed, tty_procnr, tty_left_cnt, tty_trans_cnt>>
  BY DEF get_byte_from_kbuf, TerminalsTyped, reader
<1>2. kb_in' \in Seq(Code) /\ Len(kb_in') <= KB_IN_BYTES
  <2>1. kb_in' \in Seq(Code) /\ Len(kb_in') <= Len(kb_in)
    BY <1>1, TailTyped
  <2>2. Len(kb_in') \in Nat /\ Len(kb_in) \in Nat
    BY <1>1, <2>1
  <2> QED BY <1>1, <2>1, <2>2, TtyAssumption
<1>3. nr_current_console' \in Console
  BY DEF in_process, TerminalsTyped
<1>4. /\ ibuf' \in [Console -> Seq(Char)]
      /\ \A s \in Console : ibuf'[s] \in Seq(Char) /\ Len(ibuf'[s]) <= TTY_IN_BYTES
  <2>1. CASE UNCHANGED ibuf
    BY <2>1 DEF TerminalsTyped
  <2>2. ASSUME NEW ch \in Char, put_key(t, ch)
        PROVE  /\ ibuf' \in [Console -> Seq(Char)]
               /\ \A s \in Console : ibuf'[s] \in Seq(Char) /\ Len(ibuf'[s]) <= TTY_IN_BYTES
    <3> DEFINE new == IF Len(ibuf[t]) < TTY_IN_BYTES THEN Append(ibuf[t], ch) ELSE ibuf[t]
    <3>1. new \in Seq(Char) /\ Len(new) <= TTY_IN_BYTES
      <4>1. ibuf[t] \in Seq(Char) /\ Len(ibuf[t]) <= TTY_IN_BYTES
        BY DEF TerminalsTyped
      <4> QED BY <4>1, AppendTyped, TtyAssumption
    <3>2. ibuf' = [ibuf EXCEPT ![t] = new]
      BY <2>2 DEF put_key
    <3> HIDE DEF new
    <3> QED BY <3>1, <3>2 DEF TerminalsTyped
  <2> QED BY <2>1, <2>2 DEF in_process
<1> QED BY <1>1, <1>2, <1>3, <1>4 DEF TerminalsTyped

\* TTY looks at a terminal.
LEMMA TtyReadInv ==
    ASSUME IInv, halted = "no", TtyRead
    PROVE  IInv'
<1>1. Typed /\ Readers /\ TerminalsTyped /\ at \in Console
  BY Disassembled DEF Running, Typed, ProgramsTyped
<1>2. pc[TTY] = "read" /\ Free(TTY) /\ ~ TtyHas /\ UNCHANGED ipcVars /\ UNCHANGED <<op, caller, len>>
  BY Awake DEF TtyRead, TtyHas
<1>3. UNCHANGED reader /\ at' \in Console /\ TerminalsTyped'
      /\ \E label \in {"read", "more", "write", "receive"} : Goto(TTY, label)
  <2>1. CASE UNCHANGED ttyVars /\ Onward
    BY <1>1, <2>1, GoesOnward, TerminalsKept DEF ttyVars
  <2>2. CASE /\ get_byte_from_kbuf
             /\ Goto(TTY, "more") /\ UNCHANGED <<nr_current_console, ibuf, at>>
    BY <1>1, <2>2, ByteTaken DEF get_byte_from_kbuf
  <2>3. CASE /\ get_byte_from_kbuf
             /\ in_process(at, Head(kb_in)) /\ Onward
    BY <1>1, <2>3, ByteTaken, GoesOnward DEF get_byte_from_kbuf
  <2> QED BY <2>1, <2>2, <2>3 DEF TtyRead
<1>4. PICK label \in {"read", "more", "write", "receive"} : Goto(TTY, label)
  BY <1>3
<1>5. \A q \in User : Reading(q)' <=> Reading(q)
  BY <1>3 DEF Reading, reader
<1>6. (\A q \in User : (Open(q)' <=> Open(q)) /\ op'[q] = op[q]) => Readers'
  BY <1>1, <1>3, ReadersKept
<1> QED BY <1>2, <1>3, <1>4, <1>5, <1>6, TtyInternal

\* TTY gets the byte it waits for.
LEMMA TtyMoreInv ==
    ASSUME IInv, halted = "no", TtyMore
    PROVE  IInv'
<1>1. Typed /\ Readers /\ TerminalsTyped /\ at \in Console
  BY Disassembled DEF Running, Typed, ProgramsTyped
<1>2. pc[TTY] = "more" /\ Free(TTY) /\ ~ TtyHas /\ UNCHANGED ipcVars /\ UNCHANGED <<op, caller, len>>
  BY Awake DEF TtyMore, TtyHas
<1>3. get_byte_from_kbuf /\ in_process(at, Head(kb_in)) /\ Onward
  BY DEF TtyMore
<1>4. UNCHANGED reader /\ at' \in Console /\ TerminalsTyped'
  BY <1>1, <1>3, ByteTaken, GoesOnward DEF get_byte_from_kbuf
<1>5. PICK label \in {"read", "write", "receive"} : Goto(TTY, label)
  BY <1>1, <1>3, GoesOnward
<1>6. \A q \in User : Reading(q)' <=> Reading(q)
  BY <1>4 DEF Reading, reader
<1>7. (\A q \in User : (Open(q)' <=> Open(q)) /\ op'[q] = op[q]) => Readers'
  BY <1>1, <1>4, ReadersKept
<1> QED BY <1>2, <1>4, <1>5, <1>6, <1>7, TtyInternal

\* TTY has taken the interrupt's message.
LEMMA TtyHardIntInv ==
    ASSUME IInv, halted = "no", TtyHardInt
    PROVE  IInv'
<1>1. Typed /\ Readers /\ TerminalsTyped /\ at \in Console
  BY Disassembled DEF Running, Typed, ProgramsTyped
<1>2. /\ Free(TTY) /\ buf[TTY].source = INTERRUPT /\ Goto(TTY, "read")
      /\ key_pressed' = FALSE
      /\ UNCHANGED ipcVars /\ UNCHANGED <<op, caller, len>> /\ UNCHANGED reader
      /\ UNCHANGED <<wire, keys, kb_in, nr_current_console, ibuf, at>>
  BY Awake DEF TtyHardInt
<1>3. ~ TtyHas
  BY <1>2, Different DEF TtyHas
<1>4. at' \in Console /\ TerminalsTyped'
  BY <1>1, <1>2 DEF TerminalsTyped, reader
<1>5. \A q \in User : Reading(q)' <=> Reading(q)
  BY <1>2 DEF Reading, reader
<1>6. (\A q \in User : (Open(q)' <=> Open(q)) /\ op'[q] = op[q]) => Readers'
  BY <1>1, <1>2, ReadersKept
<1> QED BY <1>2, <1>3, <1>4, <1>5, <1>6, TtyInternal

\* What a character does to a read: the characters read and those still
\* wanted add up to what was asked for.
LEMMA WriteCounts ==
    ASSUME Typed, Readers, NEW t \in Console, NEW ch
    PROVE  /\ TransAfter(t, ch) \in 0 .. MaxLen /\ LeftAfter(t, ch) \in 0 .. MaxLen
           /\ LeftAfter(t, ch) + TransAfter(t, ch) = tty_left_cnt[t] + tty_trans_cnt[t]
           /\ Completes(t, ch) => tty_left_cnt[t] > 0
           /\ (tty_left_cnt[t] > 0 /\ ~ Completes(t, ch)) => LeftAfter(t, ch) > 0
           /\ ~ (tty_left_cnt[t] > 0) => LeftAfter(t, ch) = 0
<1>1. tty_left_cnt[t] \in 0 .. MaxLen /\ tty_trans_cnt[t] \in 0 .. MaxLen
  BY DEF Typed, TerminalsTyped
<1>2. tty_left_cnt[t] > 0 => tty_left_cnt[t] + tty_trans_cnt[t] \in 0 .. MaxLen
  <2> SUFFICES ASSUME tty_left_cnt[t] > 0 PROVE tty_left_cnt[t] + tty_trans_cnt[t] \in 0 .. MaxLen
    OBVIOUS
  <2>1. PICK r : r = tty_procnr[t]
    OBVIOUS
  <2>2. r \in User /\ op[r].cnt = tty_left_cnt[t] + tty_trans_cnt[t]
    BY <2>1 DEF Readers
  <2>3. op[r].cnt \in 0 .. MaxLen
    BY <2>2 DEF Typed, CallsTyped
  <2> QED BY <2>2, <2>3
<1>3. /\ TransAfter(t, ch) \in 0 .. MaxLen
      /\ tty_left_cnt[t] > 0 => /\ TransAfter(t, ch) <= tty_trans_cnt[t] + 1
                                /\ TransAfter(t, ch) <= tty_left_cnt[t] + tty_trans_cnt[t]
      /\ ~ (tty_left_cnt[t] > 0) => TransAfter(t, ch) = tty_trans_cnt[t]
  BY <1>1, <1>2, TerminalAssumption DEF TransAfter
<1>4. LeftAfter(t, ch) = tty_left_cnt[t] + tty_trans_cnt[t] - TransAfter(t, ch)
  BY DEF LeftAfter
<1>5. /\ LeftAfter(t, ch) \in 0 .. MaxLen
      /\ LeftAfter(t, ch) + TransAfter(t, ch) = tty_left_cnt[t] + tty_trans_cnt[t]
      /\ ~ (tty_left_cnt[t] > 0) => LeftAfter(t, ch) = 0
  BY <1>1, <1>2, <1>3, <1>4, TerminalAssumption
<1>6. /\ Completes(t, ch) => tty_left_cnt[t] > 0
      /\ (tty_left_cnt[t] > 0 /\ ~ Completes(t, ch)) => LeftAfter(t, ch) # 0
  BY DEF Completes
<1> QED BY <1>3, <1>5, <1>6

\* A character of a terminal is dealt with; if it ends a read, FS is told,
\* and if FS is asleep in a SEND to TTY, the kernel stops.
LEMMA TtyWriteInv ==
    ASSUME IInv, halted = "no", TtyWrite
    PROVE  IInv'
<1>1. /\ K!IpcInv /\ Typed /\ OnlyTtyInformed /\ Readers
      /\ Users /\ FsAt /\ TtyAt /\ Places
  BY Disassembled DEF Running
<1>2. ProgramsTyped /\ CallsTyped /\ TerminalsTyped /\ at \in Console
  BY <1>1 DEF Typed, ProgramsTyped
<1>3. FS \in Proc \ {TTY} /\ TTY \in Proc \ {FS} /\ FS # TTY
  BY Different
<1>4. pc[TTY] = "write" /\ Free(TTY) /\ ~ TtyHas /\ UNCHANGED <<op, caller, len>>
  BY Awake DEF TtyWrite, TtyHas
<1>5. PICK t \in Console : t = at
  BY <1>2
<1>6. PICK ch : ch = Head(ibuf[t])
  OBVIOUS
<1>7. PICK trans, left : trans = TransAfter(t, ch) /\ left = LeftAfter(t, ch)
  OBVIOUS
<1>8. /\ trans \in 0 .. MaxLen /\ left \in 0 .. MaxLen
      /\ left + trans = tty_left_cnt[t] + tty_trans_cnt[t]
      /\ Completes(t, ch) => tty_left_cnt[t] > 0
      /\ (tty_left_cnt[t] > 0 /\ ~ Completes(t, ch)) => left > 0
      /\ ~ (tty_left_cnt[t] > 0) => left = 0
  BY <1>1, <1>7, WriteCounts
<1>9. /\ ibuf[t] # <<>> /\ ibuf' = [ibuf EXCEPT ![t] = Tail(@)]
      /\ tty_trans_cnt' = [tty_trans_cnt EXCEPT ![t] = trans]
      /\ tty_left_cnt' = [tty_left_cnt EXCEPT ![t] = IF Completes(t, ch) THEN 0 ELSE left]
      /\ UNCHANGED <<keyboard, nr_current_console, tty_procnr>>
  BY <1>5, <1>6, <1>7 DEF TtyWrite, tty_dev_write
<1>10. at' \in Console /\ \E label \in {"read", "write", "receive"} : Goto(TTY, label)
  BY <1>2, GoesOnward DEF TtyWrite
<1>11. PICK label \in {"read", "write", "receive"} : Goto(TTY, label)
  BY <1>10
<1>12. pc'[TTY] = label /\ \A q \in Proc \ {TTY} : pc'[q] = pc[q]
  BY <1>2, <1>3, <1>11, Going
<1>13. IF Completes(t, ch) THEN Kernel!Send(TTY, FS, Msg("RESUME_PROC", tty_procnr[t], trans))
                           ELSE UNCHANGED ipcVars
  BY <1>5, <1>6, <1>7 DEF TtyWrite
<1>14. TerminalsTyped'
  <2>1. /\ Tail(ibuf[t]) \in Seq(Char) /\ Len(Tail(ibuf[t])) <= TTY_IN_BYTES
    <3>1. ibuf[t] \in Seq(Char) /\ Len(ibuf[t]) <= TTY_IN_BYTES
      BY <1>2 DEF TerminalsTyped
    <3>2. Tail(ibuf[t]) \in Seq(Char) /\ Len(Tail(ibuf[t])) <= Len(ibuf[t])
      BY <1>9, <3>1, TailTyped
    <3>3. Len(Tail(ibuf[t])) \in Nat /\ Len(ibuf[t]) \in Nat
      BY <3>1, <3>2
    <3> QED BY <3>1, <3>2, <3>3, TtyAssumption
  <2>2. /\ ibuf' \in [Console -> Seq(Char)]
        /\ \A s \in Console : ibuf'[s] \in Seq(Char) /\ Len(ibuf'[s]) <= TTY_IN_BYTES
    BY <1>2, <1>9, <2>1 DEF TerminalsTyped
  <2>3. tty_left_cnt' \in [Console -> 0 .. MaxLen] /\ tty_trans_cnt' \in [Console -> 0 .. MaxLen]
    <3>1. 0 \in 0 .. MaxLen
      BY TerminalAssumption
    <3> QED BY <1>2, <1>8, <1>9, <3>1 DEF TerminalsTyped
  <2> QED BY <1>2, <1>9, <2>2, <2>3 DEF TerminalsTyped, keyboard
<1>15. /\ \A s \in Console \ {t} : tty_left_cnt'[s] = tty_left_cnt[s] /\ tty_trans_cnt'[s] = tty_trans_cnt[s]
       /\ tty_trans_cnt'[t] = trans /\ tty_left_cnt'[t] = IF Completes(t, ch) THEN 0 ELSE left
       /\ tty_procnr' = tty_procnr
  BY <1>2, <1>9 DEF TerminalsTyped
<1>16. \A s \in Console : tty_left_cnt'[s] > 0 =>
           /\ tty_left_cnt[s] > 0
           /\ tty_left_cnt'[s] + tty_trans_cnt'[s] = tty_left_cnt[s] + tty_trans_cnt[s]
  <2> TAKE s \in Console
  <2>1. CASE s = t
    <3>1. tty_left_cnt[t] \in 0 .. MaxLen
      BY <1>2 DEF TerminalsTyped
    <3> QED BY <1>8, <1>15, <2>1, <3>1
  <2>2. CASE s # t
    BY <1>15, <2>2
  <2> QED BY <2>1, <2>2
<1>17. ASSUME \A q \in User : (Open(q)' <=> Open(q)) /\ op'[q] = op[q] PROVE Readers'
  <2> SUFFICES ASSUME NEW s \in Console, tty_left_cnt'[s] > 0
               PROVE  /\ tty_procnr'[s] \in User /\ Binding[tty_procnr'[s]] = s /\ Open(tty_procnr[s])'
                      /\ op'[tty_procnr'[s]].type = "READ"
                      /\ op'[tty_procnr'[s]].cnt = tty_left_cnt'[s] + tty_trans_cnt'[s]
    BY DEF Readers
  <2>1. PICK r : r = tty_procnr[s] /\ r = tty_procnr'[s]
    BY <1>15
  <2>2. tty_left_cnt[s] > 0 /\ tty_left_cnt'[s] + tty_trans_cnt'[s] = tty_left_cnt[s] + tty_trans_cnt[s]
    BY <1>16
  <2>3. /\ r \in User /\ Binding[r] = s /\ Open(r)
        /\ op[r].type = "READ" /\ op[r].cnt = tty_left_cnt[s] + tty_trans_cnt[s]
    BY <1>1, <2>1, <2>2 DEF Readers
  <2>4. Open(r)' /\ op'[r] = op[r]
    BY <1>17, <2>3
  <2> QED BY <2>1, <2>2, <2>3, <2>4
<1>18. Typed'
  BY <1>1, <1>4, <1>10, <1>11, <1>14, TtyStepTyped
<1>19. CASE ~ Completes(t, ch)
  <2>1. \A q \in User : Reading(q)' <=> Reading(q)
    <3> TAKE q \in User
    <3>1. PICK s \in Console : s = Binding[q]
      BY TerminalAssumption
    <3>2. tty_left_cnt'[s] > 0 <=> tty_left_cnt[s] > 0
      <4>1. CASE s = t
        <5>1. tty_left_cnt[t] \in 0 .. MaxLen
          BY <1>2 DEF TerminalsTyped
        <5> QED BY <1>8, <1>15, <1>19, <4>1, <5>1
      <4>2. CASE s # t
        BY <1>15, <4>2
      <4> QED BY <4>1, <4>2
    <3> QED BY <1>15, <3>1, <3>2 DEF Reading
  <2>2. UNCHANGED ipcVars
    BY <1>13, <1>19
  <2> QED BY <1>4, <1>10, <1>11, <1>14, <1>17, <2>1, <2>2, TtyInternal
<1>20. CASE Completes(t, ch)
  <2>1. PICK r : r = tty_procnr[t]
    OBVIOUS
  <2>2. /\ r \in User /\ Binding[r] = t /\ Open(r)
        /\ op[r].type = "READ" /\ op[r].cnt = tty_left_cnt[t] + tty_trans_cnt[t]
    BY <1>1, <1>8, <1>20, <2>1 DEF Readers
  <2>3. Reading(r) /\ ~ Reading(r)'
    BY <1>8, <1>15, <1>20, <2>1, <2>2 DEF Reading
  <2>4. \A q \in User : Reading(q)' <=> Reading(q) /\ q # r
    <3> TAKE q \in User
    <3>1. PICK s \in Console : s = Binding[q]
      BY TerminalAssumption
    <3>2. s # t => (Reading(q)' <=> Reading(q)) /\ q # r
      BY <1>15, <2>2, <3>1 DEF Reading
    <3>3. s = t => ~ Reading(q)' /\ (Reading(q) => q = r)
      BY <1>15, <1>20, <2>1, <3>1 DEF Reading
    <3> QED BY <2>3, <3>2, <3>3
  <2>5. ~ Asked(r) /\ ~ Woken(r) /\ ~ Waking(r) /\ ~ Answering(r)
    BY <1>1, <2>2, <2>3 DEF Places, Once
  <2>6. PICK m : m = Msg("RESUME_PROC", r, trans)
    OBVIOUS
  <2>7. m \in Type /\ Kernel!Send(TTY, FS, m)
    <3>1. m \in Type
      BY <1>8, <2>2, <2>6 DEF Msg, Type
    <3> QED BY <1>13, <1>20, <2>1, <2>6, <3>1
  <2>8. Resumes(r, [source |-> TTY, type |-> m])
    BY <1>8, <2>6 DEF Resumes, Msg
  <2>9. /\ K!IpcInv' /\ UNCHANGED has_int_msg
        /\ buf'[TTY] = [source |-> TTY, type |-> m]
        /\ StillBut({TTY, FS})
        /\ \/ /\ halted' = "deadlock" /\ Still(TTY) /\ Still(FS) /\ buf'[FS] = buf[FS]
              /\ \E e \in Proc : Sends(FS, e) /\ (e # TTY => \E f \in Proc : Sends(e, f))
           \/ /\ halted' = halted /\ Expects(FS, TTY)
              /\ Free(TTY)' /\ Free(FS)' /\ buf'[FS] = [source |-> TTY, type |-> m]
           \/ /\ halted' = halted /\ ~ Expects(FS, TTY)
              /\ Sends(TTY, FS)' /\ Still(FS) /\ buf'[FS] = buf[FS]
    BY <1>1, <1>3, <2>7, Sending
  <2>10. \A q \in User : UserAt(q)' /\ (Open(q)' <=> Open(q)) /\ op'[q] = op[q]
    BY <1>1, <1>2, <1>4, <1>11, <2>9, TtyStepKeeps
  <2>11. OnlyTtyInformed' /\ Readers'
    BY <1>1, <1>17, <2>9, <2>10 DEF OnlyTtyInformed
  <2>12. caller' = caller /\ len' = len /\ pc'[FS] = pc[FS] /\ op' = op
    BY <1>3, <1>4, <1>12
  <2>13. ~ TtyHas' /\ ~ TtyReplies
    BY <1>4, <1>12, Standing DEF OneReason, TtyHas, TtyReplies
  <2>14. CASE /\ halted' = "deadlock" /\ Still(TTY) /\ Still(FS) /\ buf'[FS] = buf[FS]
              /\ \E e \in Proc : Sends(FS, e) /\ (e # TTY => \E f \in Proc : Sends(e, f))
    <3>1. Sends(FS, TTY)
      BY <1>1, <2>14, FsChainEnds
    <3>2. pc[FS] = "dev" /\ caller \in User
      BY <1>1, <2>14, <3>1, Standing, Different DEF OneReason, FsAt, FsIdle, FsHas, FsTalks
    <3>3. caller # r
      BY <2>5, <3>1, <3>2 DEF Asked
    <3>4. buf'[TTY].type.type = "RESUME_PROC" /\ buf'[TTY].type.proc = r
      BY <2>8, <2>9 DEF Resumes
    <3>5. HaltsOnlyCrossing'
      BY <2>12, <3>2, <3>3, <3>4 DEF HaltsOnlyCrossing, TtyMsg
    <3>6. NoAssertFails' /\ halted' # "no"
      BY <2>14 DEF NoAssertFails
    <3> QED BY <1>18, <2>9, <2>11, <3>5, <3>6, TypesAfter DEF IInv
  <2>15. CASE /\ halted' = halted /\ Expects(FS, TTY)
              /\ Free(TTY)' /\ Free(FS)' /\ buf'[FS] = [source |-> TTY, type |-> m]
    <3>1. pc[FS] = "handle" /\ Waits(FS, ANY) /\ pc'[FS] = "handle"
      BY <1>1, <1>4, <2>12, <2>15, FsWaiting DEF Expects
    <3>2. Resumes(r, buf[FS])'
      BY <2>8, <2>15 DEF Resumes
    <3>3. FsAt'
      <4>1. FsHas(r)'
        BY <2>2, <2>10, <2>15, <3>1, <3>2 DEF FsHas
      <4> QED BY <2>2, <4>1 DEF FsAt
    <3>4. TtyAt'
      BY <1>12, <2>15 DEF TtyAt
    <3>5. \A q \in User : ~ Asked(q) /\ ~ Waking(q) /\ ~ Answering(q) /\ ~ Woken(q)
      BY <1>4, <3>1, Standing DEF OneReason, Asked, Waking, Answering, Woken
    <3>6. buf'[FS].source = TTY
      BY <2>15
    <3>7. \A q \in User : ~ Asked(q)' /\ ~ Answering(q)' /\ ~ Woken(q)'
      BY <2>15, <3>1, <3>6, Different, StandingAfter DEF OneReason, Asked, Answering, Woken
    <3>8. \A q \in User : Waking(q)' <=> q = r
      BY <2>15, <3>1, <3>2 DEF Waking, Resumes
    <3>9. Places'
      BY <1>1, <2>4, <2>10, <3>5, <3>7, <3>8 DEF Places, OwnTerminals, Once, Somewhere
    <3> QED BY <1>18, <2>9, <2>10, <2>11, <2>15, <3>3, <3>4, <3>9, Assembled DEF Running, Users
  <2>16. CASE /\ halted' = halted /\ ~ Expects(FS, TTY)
              /\ Sends(TTY, FS)' /\ Still(FS) /\ buf'[FS] = buf[FS]
    <3>1. FsRests
      BY <2>12, <2>16 DEF FsRests, Bystander
    <3>2. /\ Free(FS)' <=> Free(FS)
          /\ \A d : Sends(FS, d)' <=> Sends(FS, d)
      BY <2>16, StillMeans
    <3>3. ~ Sends(FS, TTY)
      BY <2>9, <2>16, <3>2, NoCrossAfter
    <3>4. pc[FS] # "dev"
      BY <1>1, <1>4, <2>13, <3>3 DEF FsAt, FsIdle, FsHas, FsTalks
    <3>5. pc'[FS] \in {"receive", "handle", "answer"}
      BY <1>2, <2>12, <3>4 DEF ProgramsTyped
    <3>6. Resumes(r, buf[TTY])'
      BY <2>8, <2>9 DEF Resumes
    <3>7. TtyAt'
      <4>1. TtyWakes(r)'
        BY <1>12, <2>2, <2>10, <2>16, <3>5, <3>6 DEF TtyWakes
      <4> QED BY <2>2, <4>1 DEF TtyAt
    <3>8. FsAt'
      BY <1>1, <1>4, <2>10, <2>13, <3>1, FsAtKept
    <3>9. \A q \in User : ~ Woken(q) /\ (Woken(q)' <=> q = r)
      BY <1>4, <2>16, <3>6, Standing DEF OneReason, Woken, Resumes
    <3>10. \A q \in User : /\ Asked(q)' <=> Asked(q)
                           /\ Waking(q)' <=> Waking(q)
                           /\ Answering(q)' <=> Answering(q)
      BY <1>4, <2>12, <2>13, <2>16, <3>2, <3>3 DEF Asked, Waking, Answering, Resumes
    <3>11. \A q \in User : Once(q)'
      BY <1>1, <2>4, <2>5, <3>9, <3>10 DEF Places, Once
    <3>12. OwnTerminals => \A q \in User : Somewhere(q)'
      BY <1>1, <2>4, <2>10, <3>9, <3>10 DEF Places, Somewhere
    <3>13. Places'
      BY <3>11, <3>12 DEF Places, OwnTerminals
    <3> QED BY <1>18, <2>9, <2>10, <2>11, <2>16, <3>7, <3>8, <3>13, Assembled DEF Running, Users
  <2> QED BY <2>9, <2>14, <2>15, <2>16
<1> QED BY <1>19, <1>20


\* TTY waits for a message, or takes one: the interrupt's, or FS's request.
LEMMA TtyReceiveInv ==
    ASSUME IInv, halted = "no", TtyReceive
    PROVE  IInv'
<1>1. /\ K!IpcInv /\ Typed /\ OnlyTtyInformed /\ Readers
      /\ Users /\ FsAt /\ TtyAt /\ Places
  BY Disassembled DEF Running
<1>2. ProgramsTyped /\ TerminalsTyped /\ at \in Console
  BY <1>1 DEF Typed, ProgramsTyped
<1>3. FS \in Proc \ {TTY} /\ TTY \in Proc \ {FS} /\ FS # TTY
  BY Different
<1>4. /\ pc[TTY] = "receive" /\ Free(TTY) /\ Goto(TTY, "handle")
      /\ Kernel!Receive(TTY, ANY)
      /\ UNCHANGED <<ttyVars, op, at, caller, len>>
  BY Awake DEF TtyReceive
<1>5. pc'[TTY] = "handle" /\ \A q \in Proc \ {TTY} : pc'[q] = pc[q]
  BY <1>2, <1>3, <1>4, Going
<1>6. Typed'
  <2>1. at' \in Console /\ TerminalsTyped'
    BY <1>2, <1>4, TerminalsKept
  <2> QED BY <1>1, <1>4, <2>1, TtyStepTyped
<1>7. /\ K!IpcInv' /\ OnlyTtyInformed' /\ halted' = halted
      /\ \/ Free(TTY)' /\ buf'[TTY].source = INTERRUPT /\ StillBut({TTY})
         \/ \E e \in Proc \ {TTY} :
               /\ Sends(e, TTY)
               /\ Free(e)' /\ Free(TTY)' /\ buf'[TTY] = buf[e] /\ buf'[e] = buf[e]
               /\ StillBut({e, TTY})
         \/ Waits(TTY, ANY)' /\ StillBut({TTY})
  BY <1>1, <1>4, TtyReceiving
<1>8. ~ TtyHas /\ ~ TtyReplies /\ \A q \in User : ~ Woken(q)
  BY <1>4, Standing DEF OneReason, TtyHas, TtyReplies, Woken
<1>9. \A q \in User : Reading(q)' <=> Reading(q)
  BY <1>4 DEF Reading, ttyVars, reader
<1>10. ASSUME StillBut({TTY, FS})
       PROVE  /\ \A q \in User : UserAt(q)' /\ (Open(q)' <=> Open(q)) /\ op'[q] = op[q]
              /\ Readers'
  <2>1. \A q \in User : UserAt(q)' /\ (Open(q)' <=> Open(q)) /\ op'[q] = op[q]
    BY <1>1, <1>2, <1>4, <1>10, TtyStepKeeps
  <2>2. Readers'
    BY <1>1, <1>4, <2>1, ReadersKept DEF ttyVars
  <2> QED BY <2>1, <2>2
<1>11. CASE /\ StillBut({TTY})
            /\ (Free(TTY)' /\ buf'[TTY].source = INTERRUPT) \/ Waits(TTY, ANY)'
  <2>1. StillBut({TTY, FS})
    BY <1>11 DEF StillBut
  <2>2. /\ \A q \in User : UserAt(q)' /\ (Open(q)' <=> Open(q)) /\ op'[q] = op[q]
        /\ Readers'
    BY <1>10, <2>1
  <2>3. FsRests
    BY <1>3, <1>4, <1>5, <1>11 DEF FsRests, Bystander, StillBut
  <2>4. ~ TtyHas' /\ ~ Sends(TTY, FS)'
    BY <1>11, Different, StandingAfter DEF OneReason, TtyHas
  <2>5. FsAt'
    BY <1>1, <1>8, <2>2, <2>3, FsAtKept
  <2>6. TtyAt'
    BY <1>5, <1>11 DEF TtyAt
  <2>7. /\ pc'[FS] = pc[FS] /\ buf'[FS] = buf[FS] /\ caller' = caller
        /\ Free(FS)' <=> Free(FS)
        /\ \A d : Sends(FS, d)' <=> Sends(FS, d)
    BY <2>3, StillMeans DEF FsRests, Bystander
  <2>8. \A q \in User : /\ Asked(q)' <=> Asked(q)
                        /\ Waking(q)' <=> Waking(q)
                        /\ Answering(q)' <=> Answering(q)
                        /\ ~ Woken(q)'
    BY <1>8, <2>4, <2>7 DEF Asked, Waking, Answering, Woken, Resumes
  <2>9. Places'
    BY <1>1, <1>8, <1>9, <2>2, <2>8 DEF Places, OwnTerminals, Once, Somewhere
  <2> QED BY <1>6, <1>7, <2>2, <2>5, <2>6, <2>9, Assembled DEF Running, Users
<1>12. ASSUME NEW e \in Proc \ {TTY}, Sends(e, TTY),
              Free(e)', Free(TTY)', buf'[TTY] = buf[e], buf'[e] = buf[e], StillBut({e, TTY})
       PROVE  IInv'
  <2>1. e = FS
    BY <1>1, <1>3, <1>12, Standing, Different DEF OneReason, Users, UserAt
  <2>2. StillBut({TTY, FS})
    <3>1. {e, TTY} = {TTY, FS}
      BY <2>1
    <3> QED BY <1>12, <3>1
  <2>3. /\ \A q \in User : UserAt(q)' /\ (Open(q)' <=> Open(q)) /\ op'[q] = op[q]
        /\ Readers'
    BY <1>10, <2>2
  <2>4. pc[FS] = "dev" /\ FsTalks /\ Request(buf[FS])
    BY <1>1, <1>12, <2>1, Standing, Different DEF OneReason, FsAt, FsIdle, FsHas, FsTalks
  <2>5. PICK c \in User : c = caller /\ c = caller'
    BY <1>4, <2>4 DEF FsTalks
  <2>6. /\ Open(c) /\ Open(c)' /\ op'[c] = op[c]
        /\ len = LenOf(op[c]) /\ len' = len /\ op[c].type \in {"OPEN", "READ", "WRITE"}
    BY <1>4, <2>3, <2>4, <2>5 DEF FsTalks
  <2>7. /\ Open(caller)' /\ caller' \in User /\ len' = LenOf(op'[caller'])
        /\ op'[caller'].type \in {"OPEN", "READ", "WRITE"}
    BY <2>5, <2>6
  <2>8. pc'[FS] = "dev" /\ Free(FS)'
    BY <1>3, <1>5, <1>12, <2>1, <2>4
  <2>9. TtyHas' /\ Request(buf[TTY])'
    BY <1>5, <1>12, <2>1, <2>4, <2>5, <2>6 DEF TtyHas, Request
  <2>10. FsAt' /\ TtyAt'
    BY <2>7, <2>8, <2>9 DEF FsAt, FsTalks, TtyAt
  <2>11. \A q \in User : Asked(q) <=> q = c
    BY <1>12, <2>1, <2>4, <2>5 DEF Asked
  <2>12. \A q \in User : Asked(q)' <=> q = c
    BY <2>5, <2>8, <2>9 DEF Asked
  <2>13. \A q \in User : ~ Waking(q) /\ ~ Answering(q)
    BY <1>12, <2>1, <2>4, Standing, Different DEF OneReason, Waking, Answering
  <2>14. \A q \in User : ~ Waking(q)' /\ ~ Answering(q)' /\ ~ Woken(q)'
    BY <1>12, <2>8, StandingAfter DEF OneReason, Waking, Answering, Woken
  <2>15. Places'
    BY <1>1, <1>8, <1>9, <2>3, <2>11, <2>12, <2>13, <2>14 DEF Places, OwnTerminals, Once, Somewhere
  <2> QED BY <1>6, <1>7, <2>3, <2>10, <2>15, Assembled DEF Running, Users
<1> QED BY <1>7, <1>11, <1>12

-----------------------------------------------------------------------------
(***************************************************************************)
(* Interrupts.                                                             *)
(***************************************************************************)

\* Nobody's program goes on: the keyboard, or the clock's interrupt.
LEMMA InterruptInv ==
    ASSUME Running, halted = "no", K!IpcInv', OnlyTtyInformed', halted' = halted,
           UNCHANGED local, UNCHANGED reader, TerminalsTyped', StillBut({TTY}),
           \/ Still(TTY) /\ buf'[TTY] = buf[TTY]
           \/ pc[TTY] = "handle" /\ Waits(TTY, ANY) /\ Free(TTY)' /\ buf'[TTY].source = INTERRUPT
    PROVE  IInv'
<1>1. /\ K!IpcInv /\ Typed /\ OnlyTtyInformed /\ Readers
      /\ Users /\ FsAt /\ TtyAt /\ Places
  BY DEF Running
<1>2. UNCHANGED <<pc, op, at, caller, len>>
  BY DEF local
<1>3. Typed'
  BY <1>1, <1>2 DEF Typed, ProgramsTyped, CallsTyped
<1>4. \A q \in User : Bystander(q) /\ op'[q] = op[q]
  BY <1>2, Different DEF Bystander, StillBut
<1>5. \A q \in User : UserAt(q)' /\ (Open(q)' <=> Open(q)) /\ op'[q] = op[q]
  BY <1>1, <1>4, BystanderKept DEF Users
<1>6. FsRests
  BY <1>2, Different DEF FsRests, Bystander, StillBut
<1>7. Readers'
  BY <1>1, <1>5, ReadersKept
<1>8. CASE Still(TTY) /\ buf'[TTY] = buf[TTY]
  <2>1. Bystander(TTY)
    BY <1>2, <1>8 DEF Bystander
  <2>2. (TtyHas' <=> TtyHas) /\ (TtyReplies' <=> TtyReplies)
    BY <1>6, <2>1, StillMeans DEF Bystander, FsRests, TtyHas, TtyReplies
  <2>3. FsAt'
    BY <1>1, <1>5, <1>6, <2>2, FsAtKept
  <2>4. TtyAt'
    BY <1>1, <1>5, <1>6, <2>1, TtyAtKept
  <2>5. Places'
    BY <1>1, <1>5, <1>6, <2>1, PlacesKept
  <2> QED BY <1>3, <1>5, <1>7, <2>3, <2>4, <2>5, Assembled DEF Running, Users
<1>9. CASE pc[TTY] = "handle" /\ Waits(TTY, ANY) /\ Free(TTY)' /\ buf'[TTY].source = INTERRUPT
  <2>1. ~ TtyHas /\ ~ TtyReplies /\ ~ TtyHas' /\ \A q \in User : ~ Woken(q) /\ ~ Woken(q)'
    BY <1>9, Different, Standing, StandingAfter DEF OneReason, TtyHas, TtyReplies, Woken
  <2>2. FsAt'
    BY <1>1, <1>5, <1>6, <2>1, FsAtKept
  <2>3. TtyAt'
    BY <1>2, <1>9 DEF TtyAt
  <2>4. /\ pc'[FS] = pc[FS] /\ buf'[FS] = buf[FS] /\ caller' = caller
        /\ Free(FS)' <=> Free(FS)
        /\ \A d : Sends(FS, d)' <=> Sends(FS, d)
    BY <1>6, StillMeans DEF FsRests, Bystander
  <2>5. \A q \in User : /\ Asked(q)' <=> Asked(q)
                        /\ Waking(q)' <=> Waking(q)
                        /\ Answering(q)' <=> Answering(q)
                        /\ Reading(q)' <=> Reading(q)
    BY <2>1, <2>4 DEF Asked, Waking, Answering, Resumes, Reading, reader
  <2>6. Places'
    BY <1>1, <1>5, <2>1, <2>5 DEF Places, OwnTerminals, Once, Somewhere
  <2> QED BY <1>3, <1>5, <1>7, <2>2, <2>3, <2>6, Assembled DEF Running, Users
<1> QED BY <1>8, <1>9

\* The clock wakes TTY, or leaves it a message for later.
LEMMA TickInv ==
    ASSUME IInv, halted = "no", Tick
    PROVE  IInv'
<1>1. Running /\ K!IpcInv /\ Typed /\ OnlyTtyInformed /\ TtyAt
  BY Disassembled DEF Running
<1>2. Kernel!InformInt(TTY) /\ UNCHANGED ttyVars /\ UNCHANGED local /\ UNCHANGED reader
  BY DEF Tick, ttyVars
<1>3. TerminalsTyped'
  BY <1>1, <1>2, TerminalsKept DEF Typed
<1>4. /\ K!IpcInv' /\ OnlyTtyInformed' /\ halted' = halted /\ StillBut({TTY})
      /\ \/ (\E s \in {INTERRUPT, ANY} : Waits(TTY, s)) /\ Free(TTY)' /\ buf'[TTY].source = INTERRUPT
         \/ Still(TTY) /\ buf'[TTY] = buf[TTY]
  BY <1>1, <1>2, Informing
<1>5. ASSUME NEW s, Waits(TTY, s) PROVE pc[TTY] = "handle" /\ Waits(TTY, ANY)
  BY <1>1, <1>5, Standing DEF OneReason, TtyAt, TtyHas, TtyReplies, TtyWakes
<1> QED BY <1>1, <1>2, <1>3, <1>4, <1>5, InterruptInv

\* A scan code arrives.
LEMMA KeyboardInv ==
    ASSUME IInv, halted = "no", KeyInterrupt \/ Typing
    PROVE  IInv'
<1>1. Running /\ K!IpcInv /\ TerminalsTyped /\ OnlyTtyInformed
  BY Disassembled DEF Running, Typed
<1>2. UNCHANGED ipcVars /\ UNCHANGED local
  BY DEF KeyInterrupt, Typing
<1>3. /\ \E code \in Code : keyboard_handler(code)
      /\ wire' \in Seq(Code) /\ keys' \in 0 .. MaxKeys
  <2>1. wire \in Seq(Code) /\ keys \in 0 .. MaxKeys
    BY <1>1 DEF TerminalsTyped
  <2>2. CASE KeyInterrupt
    BY <2>1, <2>2, TailTyped DEF KeyInterrupt, KeyGoesOn
  <2>3. CASE Typing
    <3>1. PICK k \in Key : KeyTyped(k)
      BY <2>3 DEF Typing
    <3>2. k \in Seq(Code) /\ k # <<>>
      BY TerminalAssumption
    <3>3. Head(k) \in Code /\ Tail(k) \in Seq(Code)
      BY <3>2, TailTyped
    <3>4. keys' \in 0 .. MaxKeys
      BY <2>1, <3>1, TtyAssumption DEF KeyTyped
    <3> QED BY <3>1, <3>3, <3>4 DEF KeyTyped
  <2> QED BY <2>2, <2>3
<1>4. PICK code \in Code : keyboard_handler(code)
  BY <1>3
<1>5. kb_in' \in Seq(Code) /\ Len(kb_in') <= KB_IN_BYTES
  <2>1. kb_in \in Seq(Code) /\ Len(kb_in) <= KB_IN_BYTES
    BY <1>1 DEF TerminalsTyped
  <2> QED BY <1>4, <2>1, AppendTyped, TtyAssumption DEF keyboard_handler
<1>6. TerminalsTyped'
  BY <1>1, <1>3, <1>4, <1>5 DEF TerminalsTyped, keyboard_handler, reader
<1>7. UNCHANGED reader
  BY <1>4 DEF keyboard_handler
<1>8. K!IpcInv' /\ OnlyTtyInformed' /\ halted' = halted /\ \A q : Still(q) /\ buf'[q] = buf[q]
  BY <1>1, <1>2, NoCallMade
<1>9. StillBut({TTY})
  BY <1>8 DEF StillBut
<1> QED BY <1>1, <1>2, <1>6, <1>7, <1>8, <1>9, InterruptInv

-----------------------------------------------------------------------------
(***************************************************************************)
(* TTY's replies to FS.                                                    *)
(***************************************************************************)

\* What TTY handles, if no interrupt, is FS's request for its caller.
LEMMA TtyHandles ==
    ASSUME Running, pc[TTY] = "handle", Free(TTY), buf[TTY].source # INTERRUPT
    PROVE  /\ TtyHas /\ Request(buf[TTY]) /\ FsTalks
           /\ (pc[FS] = "dev" /\ Free(FS)) \/ (pc[FS] = "answer" /\ Waits(FS, TTY))
<1>1. FsAt /\ TtyAt
  BY DEF Running
<1>2. /\ TtyHas /\ Request(buf[TTY])
      /\ (pc[FS] = "dev" /\ Free(FS)) \/ (pc[FS] = "answer" /\ Waits(FS, TTY))
  BY <1>1, Standing DEF OneReason, TtyAt, TtyReplies, TtyWakes
<1>3. FsTalks
  BY <1>1, <1>2 DEF FsAt, FsIdle, FsHas
<1> QED BY <1>2, <1>3

\* The reply waits for FS, or FS has been waiting for it.
LEMMA TtyReplyInv ==
    ASSUME Running, halted = "no", pc[TTY] = "handle", Free(TTY), buf[TTY].source # INTERRUPT,
           NEW c \in User, c = caller, NEW t \in Type, Kernel!Send(TTY, FS, t),
           Reply([source |-> TTY, type |-> t]),
           Goto(TTY, "read"), UNCHANGED <<op, at, caller, len>>, TerminalsTyped',
           (\A q \in User : (Open(q)' <=> Open(q)) /\ op'[q] = op[q]) => Readers',
           \A q \in User \ {c} : OwnTerminals => (Reading(q) => Reading(q)'),
           (OwnTerminals /\ op[c].type = "READ" /\ op[c].cnt > 0) => Reading(c)'
    PROVE  IInv'
<1>1. /\ K!IpcInv /\ Typed /\ OnlyTtyInformed /\ Readers
      /\ Users /\ FsAt /\ TtyAt /\ Places
  BY DEF Running
<1>2. ProgramsTyped /\ at \in Console
  BY <1>1 DEF Typed, ProgramsTyped
<1>3. FS \in Proc \ {TTY} /\ TTY \in Proc \ {FS} /\ FS # TTY
  BY Different
<1>4. /\ TtyHas /\ FsTalks
      /\ (pc[FS] = "dev" /\ Free(FS)) \/ (pc[FS] = "answer" /\ Waits(FS, TTY))
  BY TtyHandles
<1>5. pc'[TTY] = "read" /\ \A q \in Proc \ {TTY} : pc'[q] = pc[q]
  BY <1>2, <1>3, Going
<1>6. Typed'
  BY <1>1, <1>2, TtyStepTyped
<1>7. /\ K!IpcInv' /\ UNCHANGED has_int_msg
      /\ buf'[TTY] = [source |-> TTY, type |-> t]
      /\ StillBut({TTY, FS})
      /\ \/ /\ halted' = "deadlock"
            /\ \E e \in Proc : Sends(FS, e)
         \/ /\ halted' = halted /\ Expects(FS, TTY)
            /\ Free(TTY)' /\ Free(FS)' /\ buf'[FS] = [source |-> TTY, type |-> t]
         \/ /\ halted' = halted /\ ~ Expects(FS, TTY)
            /\ Sends(TTY, FS)' /\ Still(FS) /\ buf'[FS] = buf[FS]
  BY <1>1, <1>3, Sending
<1>8. \A e : ~ Sends(FS, e)
  BY <1>4, Standing DEF OneReason
<1>9. \A q \in User : UserAt(q)' /\ (Open(q)' <=> Open(q)) /\ op'[q] = op[q]
  BY <1>1, <1>2, <1>7, TtyStepKeeps
<1>10. OnlyTtyInformed' /\ Readers'
  BY <1>1, <1>7, <1>9 DEF OnlyTtyInformed
<1>11. /\ caller' = c /\ len' = len /\ op' = op /\ pc'[FS] = pc[FS]
       /\ Open(c) /\ Open(c)' /\ len = LenOf(op[c]) /\ op[c].type \in {"OPEN", "READ", "WRITE"}
  BY <1>3, <1>4, <1>5, <1>9 DEF FsTalks
<1>12. /\ Open(caller)' /\ caller' \in User /\ len' = LenOf(op'[caller'])
       /\ op'[caller'].type \in {"OPEN", "READ", "WRITE"}
  BY <1>11
<1>13. Reply([source |-> TTY, type |-> t])'
  BY DEF Reply
<1>14. t.type # "RESUME_PROC"
  BY DEF Reply
<1>15. ~ TtyHas' /\ \A q \in User : ~ Waking(q)'
  BY <1>4, <1>5, <1>11 DEF TtyHas, Waking
<1>16. \A q \in User \ {c} : (Somewhere(q) /\ Open(q) /\ op[q].type = "READ" /\ op[q].cnt > 0) => Reading(q)
  <2> TAKE q \in User \ {c}
  <2>1. ~ Asked(q) /\ ~ Waking(q)
    BY <1>4 DEF Asked, Waking
  <2>2. ~ Woken(q) /\ ~ Answering(q)
    BY <1>8, Standing DEF OneReason, Woken, Answering
  <2> QED BY <2>1, <2>2 DEF Somewhere
<1>17. ASSUME \A q \in User : ~ Asked(q)' /\ ~ Woken(q)' /\ ~ Answering(q)'
       PROVE  Places'
  <2>1. ASSUME NEW q \in User, OwnTerminals PROVE Somewhere(q)'
    <3>1. CASE q = c
      BY <1>11, <2>1, <3>1 DEF Somewhere
    <3>2. CASE q # c
      <4>1. Somewhere(q)
        BY <1>1, <2>1 DEF Places
      <4>2. (Open(q)' <=> Open(q)) /\ op'[q] = op[q]
        BY <1>9
      <4>3. Reading(q) => Reading(q)'
        BY <2>1, <3>2
      <4> QED BY <1>16, <3>2, <4>1, <4>2, <4>3 DEF Somewhere
    <3> QED BY <3>1, <3>2
  <2>2. \A q \in User : Once(q)'
    BY <1>15, <1>17 DEF Once
  <2> QED BY <2>1, <2>2 DEF Places, OwnTerminals
<1>18. CASE /\ halted' = halted /\ Expects(FS, TTY)
            /\ Free(TTY)' /\ Free(FS)' /\ buf'[FS] = [source |-> TTY, type |-> t]
  <2>1. pc'[FS] = "answer"
    BY <1>1, <1>4, <1>11, <1>18, FsWaiting DEF Expects
  <2>2. Reply(buf[FS])'
    BY <1>13, <1>18 DEF Reply
  <2>3. FsAt'
    BY <1>12, <1>18, <2>1, <2>2 DEF FsAt, FsTalks
  <2>4. TtyAt'
    BY <1>5, <1>18 DEF TtyAt
  <2>5. \A q \in User : ~ Asked(q)' /\ ~ Woken(q)' /\ ~ Answering(q)'
    BY <1>15, <1>18, <2>1, StandingAfter DEF OneReason, Asked, Woken, Answering
  <2> QED BY <1>6, <1>7, <1>9, <1>10, <1>17, <1>18, <2>3, <2>4, <2>5, Assembled DEF Running, Users
<1>19. CASE /\ halted' = halted /\ ~ Expects(FS, TTY)
            /\ Sends(TTY, FS)' /\ Still(FS) /\ buf'[FS] = buf[FS]
  <2>1. pc'[FS] = "dev" /\ Free(FS)'
    BY <1>4, <1>11, <1>19, StillMeans DEF Expects
  <2>2. TtyReplies' /\ Reply(buf[TTY])'
    BY <1>5, <1>7, <1>13, <1>19, <2>1 DEF TtyReplies, Reply
  <2>3. FsAt' /\ TtyAt'
    BY <1>12, <2>1, <2>2 DEF FsAt, FsTalks, TtyAt
  <2>4. \A q \in User : ~ Woken(q)'
    BY <1>7, <1>14 DEF Woken, Resumes
  <2>5. \A q \in User : ~ Asked(q)' /\ ~ Answering(q)'
    BY <1>15, <2>1, StandingAfter DEF OneReason, Asked, Answering
  <2> QED BY <1>6, <1>7, <1>9, <1>10, <1>17, <1>19, <2>3, <2>4, <2>5, Assembled DEF Running, Users
<1> QED BY <1>7, <1>8, <1>18, <1>19

\* A read begins.
LEMMA TtyDoReadInv ==
    ASSUME IInv, halted = "no", TtyDoRead
    PROVE  IInv'
<1>1. Running /\ Typed /\ TerminalsTyped /\ Readers /\ Places /\ len \in 0 .. MaxLen \cup {NO_LEN}
  BY Disassembled DEF Running, Typed
<1>2. /\ pc[TTY] = "handle" /\ Free(TTY) /\ buf[TTY].source # INTERRUPT
      /\ buf[TTY].type.type = "DEV_READ" /\ Goto(TTY, "read")
      /\ tty_do_read(Binding[buf[TTY].type.proc], buf[TTY].type.proc, buf[TTY].type.cnt)
      /\ Kernel!Send(TTY, buf[TTY].source, Msg("SUSPEND_PROC", buf[TTY].type.proc, buf[TTY].type.cnt))
      /\ UNCHANGED <<op, at, caller, len>>
  BY Awake DEF TtyDoRead, Handling, TtyMsg
<1>3. TtyHas /\ Request(buf[TTY]) /\ FsTalks
  BY <1>1, <1>2, TtyHandles
<1>4. PICK c \in User : c = caller
  BY <1>3 DEF FsTalks
<1>5. /\ Open(c) /\ len = LenOf(op[c]) /\ op[c].type \in {"OPEN", "READ", "WRITE"}
      /\ buf[TTY].source = FS /\ buf[TTY].type.proc = c /\ buf[TTY].type.cnt = op[c].cnt
      /\ buf[TTY].type.type = DevCall[op[c].type] /\ op[c].cnt \in 0 .. MaxLen
  BY <1>1, <1>3, <1>4 DEF FsTalks, Request, Typed, CallsTyped
<1>6. op[c].type = "READ"
  BY <1>2, <1>5 DEF DevCall
<1>7. PICK t : t = Msg("SUSPEND_PROC", c, op[c].cnt)
  OBVIOUS
<1>8. t \in Type /\ Kernel!Send(TTY, FS, t) /\ Reply([source |-> TTY, type |-> t])
  BY <1>1, <1>2, <1>4, <1>5, <1>6, <1>7 DEF Msg, Type, Reply, CntOf
<1>9. PICK s \in Console : s = Binding[c]
  BY TerminalAssumption
<1>10. /\ tty_procnr' = [tty_procnr EXCEPT ![s] = c]
       /\ tty_left_cnt' = [tty_left_cnt EXCEPT ![s] = op[c].cnt]
       /\ tty_trans_cnt' = [tty_trans_cnt EXCEPT ![s] = 0]
       /\ UNCHANGED <<keyboard, nr_current_console, ibuf>>
  BY <1>2, <1>5, <1>9 DEF tty_do_read
<1>11. 0 \in 0 .. MaxLen
  BY TerminalAssumption
<1>12. TerminalsTyped'
  <2>1. /\ tty_procnr' \in [Console -> User \cup {NO_TASK}]
        /\ tty_left_cnt' \in [Console -> 0 .. MaxLen]
        /\ tty_trans_cnt' \in [Console -> 0 .. MaxLen]
    BY <1>1, <1>5, <1>10, <1>11 DEF TerminalsTyped
  <2> QED BY <1>1, <1>10, <2>1 DEF TerminalsTyped, keyboard
<1>13. /\ tty_procnr'[s] = c /\ tty_left_cnt'[s] = op[c].cnt /\ tty_trans_cnt'[s] = 0
       /\ \A r \in Console \ {s} : /\ tty_procnr'[r] = tty_procnr[r]
                                   /\ tty_left_cnt'[r] = tty_left_cnt[r]
                                   /\ tty_trans_cnt'[r] = tty_trans_cnt[r]
  BY <1>1, <1>10 DEF TerminalsTyped
<1>14. ASSUME \A q \in User : (Open(q)' <=> Open(q)) /\ op'[q] = op[q] PROVE Readers'
  <2> SUFFICES ASSUME NEW r \in Console, tty_left_cnt'[r] > 0
               PROVE  /\ tty_procnr'[r] \in User /\ Binding[tty_procnr'[r]] = r /\ Open(tty_procnr[r])'
                      /\ op'[tty_procnr'[r]].type = "READ"
                      /\ op'[tty_procnr'[r]].cnt = tty_left_cnt'[r] + tty_trans_cnt'[r]
    BY DEF Readers
  <2>1. CASE r = s
    BY <1>1, <1>5, <1>6, <1>9, <1>13, <1>14, <2>1
  <2>2. CASE r # s
    <3>1. PICK q : q = tty_procnr[r] /\ q = tty_procnr'[r]
      BY <1>13, <2>2
    <3>2. /\ q \in User /\ Binding[q] = r /\ Open(q)
          /\ op[q].type = "READ" /\ op[q].cnt = tty_left_cnt[r] + tty_trans_cnt[r]
      BY <1>1, <1>13, <2>2, <3>1 DEF Readers
    <3> QED BY <1>13, <1>14, <2>2, <3>1, <3>2
  <2> QED BY <2>1, <2>2
<1>15. \A q \in User \ {c} : OwnTerminals => (Reading(q) => Reading(q)')
  <2> TAKE q \in User \ {c}
  <2>1. PICK r \in Console : r = Binding[q]
    BY TerminalAssumption
  <2>2. OwnTerminals => r # s
    BY <1>9, <2>1 DEF OwnTerminals
  <2> QED BY <1>13, <2>1, <2>2 DEF Reading
<1>16. (OwnTerminals /\ op[c].type = "READ" /\ op[c].cnt > 0) => Reading(c)'
  BY <1>5, <1>9, <1>13 DEF Reading
<1> QED BY <1>1, <1>2, <1>4, <1>8, <1>12, <1>14, <1>15, <1>16, TtyReplyInv

\* A call that is no read is answered.
LEMMA TtyAnswersInv ==
    ASSUME Running, halted = "no", pc[TTY] = "handle", Free(TTY), buf[TTY].source # INTERRUPT,
           NEW c \in User, c = caller, op[c].type # "READ",
           NEW t \in Type, Kernel!Send(TTY, FS, t), Reply([source |-> TTY, type |-> t]),
           Goto(TTY, "read"), UNCHANGED <<ttyVars, op, at, caller, len>>
    PROVE  IInv'
<1>1. TerminalsTyped /\ Readers
  BY DEF Running, Typed
<1>2. TerminalsTyped'
  BY <1>1, TerminalsKept
<1>3. (\A q \in User : (Open(q)' <=> Open(q)) /\ op'[q] = op[q]) => Readers'
  BY <1>1, ReadersKept DEF ttyVars
<1>4. \A q \in User \ {c} : Reading(q) => Reading(q)'
  BY DEF Reading, ttyVars, reader
<1> QED BY <1>2, <1>3, <1>4, TtyReplyInv

\* A write is done: the reply has its count.
LEMMA TtyDoWriteInv ==
    ASSUME IInv, halted = "no", TtyDoWrite
    PROVE  IInv'
<1>1. Running /\ Typed /\ TerminalsTyped /\ Readers
  BY Disassembled DEF Running, Typed
<1>2. /\ pc[TTY] = "handle" /\ Free(TTY) /\ buf[TTY].source # INTERRUPT
      /\ buf[TTY].type.type = "DEV_WRITE" /\ Goto(TTY, "read")
      /\ Kernel!Send(TTY, buf[TTY].source, Ret(buf[TTY].type.cnt))
      /\ UNCHANGED <<ttyVars, op, at, caller, len>>
  BY Awake DEF TtyDoWrite, Handling, TtyMsg
<1>3. PICK c \in User : /\ c = caller /\ op[c].type = "WRITE" /\ op[c].cnt \in 0 .. MaxLen
                        /\ buf[TTY].source = FS /\ buf[TTY].type.cnt = op[c].cnt
  BY <1>1, <1>2, TtyHandles DEF FsTalks, Request, DevCall, TtyHas, Typed, CallsTyped
<1>4. PICK t : t = Ret(op[c].cnt)
  OBVIOUS
<1>5. t \in Type /\ Kernel!Send(TTY, FS, t) /\ Reply([source |-> TTY, type |-> t])
  BY <1>2, <1>3, <1>4 DEF Ret, Msg, Type, Reply, CntOf
<1> QED BY <1>1, <1>2, <1>3, <1>5, TtyAnswersInv

\* An open is done: the reply is a message that has been reset.
LEMMA TtyDoOpenInv ==
    ASSUME IInv, halted = "no", TtyDoOpen
    PROVE  IInv'
<1>1. Running /\ Typed /\ TerminalsTyped /\ Readers
  BY Disassembled DEF Running, Typed
<1>2. /\ pc[TTY] = "handle" /\ Free(TTY) /\ buf[TTY].source # INTERRUPT
      /\ buf[TTY].type.type = "DEV_OPEN" /\ Goto(TTY, "read")
      /\ Kernel!Send(TTY, buf[TTY].source, Ret(0))
      /\ UNCHANGED <<ttyVars, op, at, caller, len>>
  BY Awake DEF TtyDoOpen, Handling, TtyMsg
<1>3. PICK c \in User : c = caller /\ op[c].type = "OPEN" /\ buf[TTY].source = FS
  BY <1>1, <1>2, TtyHandles DEF FsTalks, Request, DevCall, TtyHas
<1>4. PICK t : t = Ret(0)
  OBVIOUS
<1>5. 0 \in 0 .. MaxLen
  BY TerminalAssumption
<1>6. t \in Type /\ Kernel!Send(TTY, FS, t) /\ Reply([source |-> TTY, type |-> t])
  BY <1>2, <1>3, <1>4, <1>5 DEF Ret, Msg, Type, Reply, CntOf
<1> QED BY <1>1, <1>2, <1>3, <1>6, TtyAnswersInv

-----------------------------------------------------------------------------
(***************************************************************************)
(* The invariant holds at first and is kept.                               *)
(***************************************************************************)

\* The system starts with nobody in a call.
LEMMA InitInv == Init => IInv
<1> SUFFICES ASSUME Init PROVE IInv
  OBVIOUS
<1>1. K!IpcInv
  BY KernelInit DEF Init
<1>2. /\ \A p \in Proc : flags[p] = {} /\ ~ has_int_msg[p]
      /\ halted = "no"
  BY DEF Init, Kernel!Init
<1>3. /\ pc = [p \in Proc |-> CASE p = TTY -> "read" [] p = FS -> "receive" [] OTHER -> "run"]
      /\ op = [p \in User |-> NoCall] /\ at = 1 /\ caller = NO_TASK /\ len = 0
      /\ TtyInit(NO_TASK)
  BY DEF Init
<1>4. pc[TTY] = "read" /\ pc[FS] = "receive" /\ \A p \in User : pc[p] = "run" /\ op[p] = NoCall
  BY <1>3, Different
<1>5. \A p \in Proc : Free(p)
  BY <1>2 DEF Free, K!Free
<1>6. 0 \in 0 .. MaxLen /\ 1 \in Console /\ 0 \in 0 .. MaxKeys
  BY TerminalAssumption, TtyAssumption DEF Console
<1>7. TerminalsTyped
  <2>1. /\ wire = <<>> /\ keys = 0 /\ kb_in = <<>> /\ key_pressed = FALSE
        /\ nr_current_console = 1
        /\ ibuf = [t \in Console |-> <<>>]
        /\ tty_procnr = [t \in Console |-> NO_TASK]
        /\ tty_left_cnt = [t \in Console |-> 0]
        /\ tty_trans_cnt = [t \in Console |-> 0]
    BY <1>3 DEF TtyInit
  <2>2. <<>> \in Seq(Code) /\ <<>> \in Seq(Char) /\ Len(<<>>) = 0
    OBVIOUS
  <2>3. 0 <= KB_IN_BYTES /\ 0 <= TTY_IN_BYTES
    BY TtyAssumption
  <2> QED BY <1>6, <2>1, <2>2, <2>3 DEF TerminalsTyped
<1>8. ProgramsTyped
  BY <1>3, <1>4, <1>6 DEF ProgramsTyped, Label
<1>9. CallsTyped
  <2>1. NoCall \in [type : CallType, cnt : 0 .. MaxLen]
    BY <1>6 DEF NoCall, CallType
  <2> QED BY <1>3, <2>1 DEF CallsTyped
<1>10. TypeOK /\ Shapes
  BY <1>3, <1>6, <1>7, <1>8, <1>9, TypesTogether DEF Typed
<1>11. OnlyTtyInformed
  BY <1>2 DEF OnlyTtyInformed
<1>12. \A t \in Console : ~ (tty_left_cnt[t] > 0)
  BY <1>3 DEF TtyInit
<1>13. Readers
  BY <1>12 DEF Readers
<1>14. Users
  BY <1>4, <1>5, Different DEF Users, UserAt
<1>15. FsAt /\ TtyAt
  BY <1>4, <1>5, Different DEF FsAt, FsIdle, TtyAt
<1>16. Places
  <2>1. \A q \in User : ~ Open(q) /\ ~ Asked(q) /\ ~ Waking(q)
    BY <1>4 DEF Open, Asked, Waking
  <2>2. \A q \in User : ~ Woken(q)
    BY <1>5, Different, Standing DEF OneReason, Woken
  <2>3. \A q \in User : ~ Reading(q)
    <3> TAKE q \in User
    <3>1. Binding[q] \in Console
      BY TerminalAssumption
    <3> QED BY <1>12, <3>1 DEF Reading
  <2> QED BY <2>1, <2>2, <2>3 DEF Places, Once, Somewhere
<1>17. NoAssertFails /\ HaltsOnlyCrossing
  BY <1>2 DEF NoAssertFails, HaltsOnlyCrossing
<1> QED BY <1>1, <1>10, <1>11, <1>13, <1>14, <1>15, <1>16, <1>17 DEF IInv, Conversation

\* A stopped system, or one that stutters.
LEMMA StutterInv == IInv /\ UNCHANGED vars => IInv'
<1> SUFFICES ASSUME IInv, UNCHANGED vars PROVE IInv'
  OBVIOUS
<1>1. UNCHANGED <<flags, p_msg, recv_from, send_to, has_int_msg, q_sending, buf, halted>>
      /\ UNCHANGED ttyVars /\ UNCHANGED <<pc, op, at, caller, len>>
  BY DEF vars, ipcVars, local
<1>2. UNCHANGED <<wire, keys, kb_in, key_pressed, nr_current_console, ibuf,
                  tty_procnr, tty_left_cnt, tty_trans_cnt>>
  BY <1>1 DEF ttyVars, keyboard, reader
<1>3. K!IpcInv'
  BY <1>1, KernelStep DEF IInv, ipcVars
<1>4. TypeOK' /\ Shapes'
  BY <1>1, <1>2 DEF IInv, TypeOK, Shapes
<1>5. OnlyTtyInformed' /\ NoAssertFails' /\ HaltsOnlyCrossing'
  BY <1>1 DEF IInv, OnlyTtyInformed, NoAssertFails, HaltsOnlyCrossing, TtyMsg
<1>6. \A q : /\ Free(q)' <=> Free(q)
             /\ \A d : Sends(q, d)' <=> Sends(q, d)
             /\ \A s : Waits(q, s)' <=> Waits(q, s)
  BY <1>1, K!StillKept, KernelAssumption, StillMeans DEF Still
<1>7. \A q : Open(q)' <=> Open(q)
  BY <1>1, <1>6 DEF Open
<1>8. Readers'
  BY <1>1, <1>2, <1>7 DEF IInv, Readers
<1>9. halted = "no" => Conversation'
  <2> SUFFICES ASSUME halted = "no" PROVE Conversation'
    OBVIOUS
  <2>1. Users /\ FsAt /\ TtyAt /\ Places
    BY DEF IInv, Conversation
  <2>2. \A q : Bystander(q)
    <3>1. \A q : Still(q)
      BY <1>1, K!StillKept, KernelAssumption DEF Still
    <3> QED BY <1>1, <3>1 DEF Bystander
  <2>3. \A q \in User : UserAt(q)' /\ (Open(q)' <=> Open(q)) /\ op'[q] = op[q]
    BY <1>1, <2>1, <2>2, BystanderKept DEF Users
  <2>4. FsRests
    BY <1>1, <2>2 DEF FsRests
  <2>5. (TtyHas' <=> TtyHas) /\ (TtyReplies' <=> TtyReplies)
    BY <1>1, <1>6 DEF TtyHas, TtyReplies
  <2>6. FsAt' /\ TtyAt'
    BY <2>1, <2>2, <2>3, <2>4, <2>5, FsAtKept, TtyAtKept
  <2>7. Places'
    BY <1>1, <2>1, <2>2, <2>3, <2>4, PlacesKept DEF ttyVars
  <2> QED BY <2>3, <2>6, <2>7 DEF Conversation, Users
<1> QED BY <1>1, <1>3, <1>4, <1>5, <1>8, <1>9 DEF IInv

\* Every step keeps the invariant.
LEMMA NextInv == IInv /\ [Next]_vars => IInv'
<1> SUFFICES ASSUME IInv, [Next]_vars PROVE IInv'
  OBVIOUS
<1>1. CASE UNCHANGED vars
  BY <1>1, StutterInv
<1>2. CASE Next
  <2>1. halted = "no"
    BY <1>2 DEF Next
  <2>2. ASSUME NEW p \in User, UserReceive(p) PROVE IInv'
    BY <2>1, <2>2, UserReceiveInv
  <2>3. ASSUME NEW p \in User, UserReturn(p) PROVE IInv'
    BY <2>1, <2>3, UserReturnInv
  <2>4. ASSUME NEW p \in User, NEW c \in Program[p], UserCall(p, c) PROVE IInv'
    BY <2>1, <2>4, UserCallInv
  <2>5. CASE FsStep
    BY <2>1, <2>5, FsReceiveInv, FsFileInv, FsDeviceInv, FsResumeInv, FsAwaitInv, FsAnswerInv DEF FsStep
  <2>6. CASE TtyStep
    BY <2>1, <2>6, TtyReadInv, TtyMoreInv, TtyWriteInv, TtyReceiveInv, TtyHardIntInv,
       TtyDoReadInv, TtyDoOpenInv, TtyDoWriteInv DEF TtyStep
  <2>7. CASE KeyInterrupt \/ Typing
    BY <2>1, <2>7, KeyboardInv
  <2>8. CASE Tick
    BY <2>1, <2>8, TickInv
  <2> QED BY <1>2, <2>2, <2>3, <2>4, <2>5, <2>6, <2>7, <2>8 DEF Next
<1> QED BY <1>1, <1>2

-----------------------------------------------------------------------------
(***************************************************************************)
(* The theorems.                                                           *)
(***************************************************************************)

\* The inductive invariant: at every moment the system runs, FS, TTY and each
\* user are at one of the places of their conversation (fs/main.c:40-90,
\* kernel/tty.c:40-204), and the kernel's invariant holds underneath.
THEOREM Invariance == Spec => []IInv
<1> QED BY InitInv, NextInv, PTL DEF Spec

\* Every variable has its type; no ring is over its size.
THEOREM TypeCorrect == Spec => []TypeOK
<1>1. IInv => TypeOK
  BY DEF IInv
<1> QED BY <1>1, Invariance, PTL

\* TTY's reply is always to the request FS waits with (read_write.c:66), and
\* no interrupt that is pending meets a process that takes it (proc.c:377),
\* however many users, terminals and keys there are, when interrupts come between
\* the calls.
THEOREM AssertionsHold == Spec => []NoAssertFails
<1>1. IInv => NoAssertFails
  BY DEF IInv
<1> QED BY <1>1, Invariance, PTL

\* The kernel stops for no other reason than TTY resuming one process while FS
\* sends it the request of another (tty.c:174, read_write.c:64).
THEOREM OnlyCrossingHalts == Spec => []HaltsOnlyCrossing
<1>1. IInv => HaltsOnlyCrossing
  BY DEF IInv
<1> QED BY <1>1, Invariance, PTL

\* What a call is made of.
LEMMA CallIs ==
    ASSUME NEW S, NEW T, NEW r \in [type : S, cnt : T]
    PROVE  r = [type |-> r.type, cnt |-> r.cnt]
  OBVIOUS

\* The count of a read is never more than the buffer of its reader, who waits
\* for it (tty.c:161-167).
THEOREM BufferSafe == Spec => []BufferKept
<1>1. IInv => BufferKept
  <2> SUFFICES ASSUME IInv, NEW t \in Console, tty_left_cnt[t] > 0
               PROVE  /\ tty_trans_cnt[t] \in Nat
                      /\ op[tty_procnr[t]] = [type |-> "READ", cnt |-> tty_left_cnt[t] + tty_trans_cnt[t]]
    BY DEF BufferKept
  <2>1. Readers /\ Shapes
    BY DEF IInv
  <2>2. tty_trans_cnt[t] \in Nat
    BY <2>1 DEF Shapes
  <2>3. PICK r : r = tty_procnr[t]
    OBVIOUS
  <2>4. r \in User /\ op[r].type = "READ" /\ op[r].cnt = tty_left_cnt[t] + tty_trans_cnt[t]
    BY <2>1, <2>3 DEF Readers
  <2>5. op[r] \in [type : CallType, cnt : 0 .. MaxLen]
    BY <2>1, <2>4 DEF Shapes
  <2>6. op[r] = [type |-> op[r].type, cnt |-> op[r].cnt]
    BY <2>5, CallIs
  <2> QED BY <2>2, <2>3, <2>4, <2>6
<1> QED BY <1>1, Invariance, PTL

\* Between processes that each have a terminal of their own, no read is
\* forgotten: it goes on, is over and its answer under way, or FS and TTY
\* still talk about it (tty.c:143-204, fs/main.c:55-70).
THEOREM ReadersServed == OwnTerminals => (Spec => []ReaderServed)
<1>1. ASSUME IInv, OwnTerminals PROVE ReaderServed
  <2> SUFFICES ASSUME halted = "no", NEW p \in User, op[p].type = "READ", op[p].cnt > 0
               PROVE  \/ Reading(p) \/ Requesting(p) \/ Resuming(p)
                      \/ pc[p] = "return" /\ flags[p] = {}
    BY DEF ReaderServed, Reading
  <2>1. UserAt(p) /\ Somewhere(p)
    BY <1>1 DEF IInv, Conversation, Users, Places
  <2>2. \A q, d : Sends(q, d) => Kernel!SendingTo(q, d)
    BY SameCalls DEF Sends, K!Sends, K!SendingTo
  <2>3. \A q : Free(q) <=> flags[q] = {}
    BY DEF Free, K!Free
  <2>4. CASE Open(p)
    <3>1. Asked(p) => Requesting(p)
      BY DEF Asked, Requesting
    <3>2. Woken(p) \/ Waking(p) \/ Answering(p) => Resuming(p)
      BY <2>2, <2>3 DEF Woken, Waking, Answering, Resumes, Resuming, TtyMsg, FsMsg
    <3> QED BY <2>1, <2>4, <3>1, <3>2 DEF Somewhere
  <2>5. CASE Sends(p, FS)
    BY <2>2, <2>5 DEF Requesting
  <2>6. CASE pc[p] = "return" /\ Free(p)
    BY <2>3, <2>6
  <2>7. CASE op[p] = NoCall
    BY <2>7 DEF NoCall
  <2> QED BY <2>1, <2>4, <2>5, <2>6, <2>7 DEF UserAt, Open
<1>2. OwnTerminals => (IInv => ReaderServed)
  BY <1>1
<1> SUFFICES ASSUME OwnTerminals PROVE Spec => []ReaderServed
  OBVIOUS
<1>3. IInv => ReaderServed
  BY <1>2
<1> QED BY <1>3, Invariance, PTL
=============================================================================
