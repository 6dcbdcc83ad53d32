----------------------------- MODULE ForkProofs -----------------------------
(***************************************************************************)
(* ForkComplete of Fork, for any number of slots, whatever the processes   *)
(* call, however much memory there is.                                     *)
(*                                                                         *)
(* MM copies an entry of proc_table that is in use, so what IpcProofs      *)
(* says of every PCB does not hold here: a child may be asleep with        *)
(* nobody's name in recv_from, and copies of a queue exist.  The invariant *)
(* below holds what survives: MM, FS and their queues are sound, of a user *)
(* process only flags and the registers have to agree.                     *)
(***************************************************************************)
EXTENDS Fork, Sequences, FiniteSetTheorems, WellFoundedInduction, TLAPS

K == INSTANCE IpcProofs WITH IntTask <- {}

SENDING   == Kernel!SENDING
RECEIVING == Kernel!RECEIVING

Free(p)     == flags[p] = {}
Sends(p, d) == flags[p] = {SENDING} /\ send_to[p] = d
Waits(p, s) == flags[p] = {RECEIVING} /\ recv_from[p] = s
Used(p)     == flags[p] # {FREE_SLOT}

(***************************************************************************)
(* Values.                                                                 *)
(***************************************************************************)

Word    == {{}, {SENDING}, {RECEIVING}, {FREE_SLOT}}
Label   == {"receive", "handle", "find", "flags", "pcb", "memory", "ldt",
            "await", "child", "reply", "run", "return", "failed"}
Message == [source : Proc, type : Type]

CallsTyped ==
    /\ flags \in [Proc -> Word]
    /\ recv_from \in [Proc -> Proc \cup {ANY, INTERRUPT, NO_TASK}]
    /\ send_to \in [Proc -> Proc \cup {NO_TASK}]
    /\ has_int_msg = [p \in Proc |-> FALSE]
    /\ DOMAIN q_sending = Proc
    /\ buf \in [Proc -> Message]

ImageTyped ==
    /\ pc \in [Proc -> Label]
    /\ op \in [User -> {"FORK", "FILE", "none"}]
    /\ ret \in [User -> Slot \cup {0, NO_TASK}]
    /\ base \in [User -> User]
    /\ parent \in [User -> User \cup {NO_TASK}]
    /\ filp \in [User -> BOOLEAN]
    /\ fd_cnt \in Int
    /\ mm \in [src : Proc \cup {NO_TASK}, child : Slot \cup {0}, retval : {0, -1}]

\* The queue of a task holds who is asleep sending to it, each once.
Exact(d) ==
    /\ q_sending[d] \in Seq(Proc)
    /\ K!Range(q_sending[d]) = {p \in Proc : Sends(p, d)}
    /\ K!IsInjective(q_sending[d])

Queues == Exact(MM) /\ Exact(FS)

(***************************************************************************)
(* User processes.                                                         *)
(***************************************************************************)

\* u has put its question and has no answer yet.
Waiting(u) ==
    \/ pc[u] = "receive" /\ Free(u)
    \/ pc[u] = "return" /\ flags[u] = {RECEIVING}

Asked(u, call) == u \in User /\ op[u] = call /\ Waiting(u)

\* The PID t tells u is that of a child of u, or 0 and u is one.
Answers(t, u) ==
    t.retval = 0 =>
        \/ t.pid \in Slot /\ parent[t.pid] = u
        \/ t.pid = 0 /\ u \in Slot

UserAt(u) ==
    /\ pc[u] \in {"run", "receive", "return", "failed"}
    /\ pc[u] \in {"run", "failed"} => Free(u)
    /\ pc[u] \in {"receive", "return"} => op[u] \in {"FORK", "FILE"}
    /\ flags[u] = {SENDING} =>
          /\ pc[u] = "receive" /\ send_to[u] = Server(u)
          /\ buf[u].source = u /\ buf[u].type.type = op[u]
    /\ pc[u] = "return" /\ Free(u) /\ op[u] = "FORK" => Answers(buf[u].type, u)

Unborn(c) == c \in Slot /\ ret[c] = NO_TASK /\ ~ filp[c] /\ parent[c] = NO_TASK

UserOk(u) == IF Used(u) THEN UserAt(u) ELSE Unborn(u)
Users == \A u \in User : UserOk(u)

\* While MM prepares it the child runs, if at all, in its parent's memory.
Elsewhere(u) == u = mm.child /\ pc[MM] \in {"pcb", "memory", "ldt"}
Bases == \A u \in User : Used(u) /\ ~ Elsewhere(u) => base[u] = u

Family ==
    /\ \A p \in User : ret[p] \in Slot => parent[ret[p]] = p
    /\ ret[InitProc] # 0

(***************************************************************************)
(* MM and FS.                                                              *)
(***************************************************************************)

Open == {p \in User : filp[p]}

\* FS has not yet counted the files of the child.
Uncounted ==
    \/ pc[MM] \in {"memory", "ldt"}
    \/ pc[MM] = "await" /\ ~ Sends(FS, MM)
    \/ pc[MM] = "child" /\ ~ Free(MM)

Count == fd_cnt = Cardinality(IF Uncounted THEN Open \ {mm.child} ELSE Open)

\* A child that has its flags and waits for MM, for the second time or not.
Embryo(c) ==
    /\ c \in Slot /\ c # mm.src /\ op[c] = "FORK" /\ ret[c] = NO_TASK
    /\ \/ pc[c] = "receive" /\ flags[c] \in {{}, {RECEIVING}}
       \/ pc[c] = "return" /\ flags[c] = {RECEIVING}

\* And a slot with registers only.
Copied(c) ==
    /\ c \in Slot /\ flags[c] = {FREE_SLOT} /\ op[c] = "FORK"
    /\ pc[c] = "receive" \/ (pc[c] = "return" /\ pc[mm.src] = "return")

FsHas(m) == pc[FS] = "handle" /\ Free(FS) /\ buf[FS].source = m

\* What FS has got of MM, and what MM has sent.
ForkOf(m) == m.source = MM /\ m.type = Msg("FORK", mm.child, 0)

MmIdle ==
    \/ pc[MM] = "receive" /\ Free(MM)
    \/ pc[MM] = "receive" /\ \E u \in User : Sends(MM, u) /\ Answers(buf[MM].type, u)
    \/ pc[MM] = "find" /\ Waits(MM, ANY)
    \/ pc[MM] = "find" /\ Free(MM) /\ Asked(buf[MM].source, "FORK")

MmCopies ==
    /\ Asked(mm.src, "FORK") /\ mm.retval = 0
    /\ \/ pc[MM] = "flags" /\ Free(MM) /\ Copied(mm.child)
       \/ pc[MM] = "pcb" /\ Free(MM) /\ Embryo(mm.child)
             /\ ~ filp[mm.child] /\ parent[mm.child] = NO_TASK

MmPrepares ==
    /\ Asked(mm.src, "FORK") /\ mm.retval = 0
    /\ Embryo(mm.child) /\ parent[mm.child] = mm.src
    /\ \/ pc[MM] \in {"memory", "ldt"} /\ Free(MM)
       \/ pc[MM] = "await" /\ Sends(MM, FS) /\ ForkOf(buf[MM])
       \/ pc[MM] = "await" /\ Free(MM) /\ (FsHas(MM) \/ Sends(FS, MM))
       \/ pc[MM] = "child" /\ Waits(MM, FS) /\ FsHas(MM)
       \/ pc[MM] = "child" /\ Free(MM)

MmReplies ==
    /\ Asked(mm.src, "FORK") /\ pc[MM] = "reply"
    /\ \/ mm.retval = -1 /\ Free(MM)
       \/ /\ mm.retval = 0 /\ mm.child \in Slot /\ mm.child # mm.src
          /\ parent[mm.child] = mm.src
          /\ \/ Free(MM)
             \/ Sends(MM, mm.child) /\ buf[MM].type = Msg("SYSCALL_RET", 0, 0)

MmAt == MmIdle \/ MmCopies \/ MmPrepares \/ MmReplies

\* MM talks with FS: FS works for it, or has its answer ready.
FsForMm == (pc[MM] = "await" /\ Free(MM)) \/ (pc[MM] = "child" /\ Waits(MM, FS))

FsAt ==
    \/ pc[FS] = "receive" /\ Free(FS)
    \/ pc[FS] = "receive" /\ \E u \in User : Sends(FS, u)
    \/ pc[FS] = "receive" /\ Sends(FS, MM) /\ pc[MM] = "await" /\ Free(MM)
    \/ pc[FS] = "handle" /\ Waits(FS, ANY)
    \/ FsHas(MM) /\ ForkOf(buf[FS]) /\ FsForMm
    \/ FsHas(buf[FS].source) /\ Asked(buf[FS].source, "FILE") /\ buf[FS].type.type = "FILE"

ForkInv == CallsTyped /\ ImageTyped /\ Queues /\ Users /\ Bases /\ Family /\ Count /\ MmAt /\ FsAt

\* A kernel that stopped in the middle of a call keeps only what matters.
IInv == IF halted = "no" THEN ForkInv ELSE ForkComplete
-----------------------------------------------------------------------------
(***************************************************************************)
(* The calls of the kernel, on processes in these states.                  *)
(***************************************************************************)

\* Who the processes are.
LEMMA Processes ==
    /\ MM \in Proc /\ FS \in Proc /\ MM # FS /\ User \subseteq Proc
    /\ Slot \subseteq User /\ InitProc \in User /\ InitProc \notin Slot
    /\ \A u \in User : u # MM /\ u # FS
    /\ ANY \notin Proc /\ INTERRUPT \notin Proc /\ NO_TASK \notin Proc
    /\ ANY # INTERRUPT
  BY ForkAssumption, NameAssumption DEF User, Proc

\* What IpcProofs assumes of its parameters.
LEMMA KernelAssumption == K!IpcAssumption
  BY Processes, NameAssumption DEF K!IpcAssumption

\* The words of status are different.
LEMMA Words ==
    /\ SENDING = "SENDING" /\ RECEIVING = "RECEIVING"
    /\ {} \in Word /\ {SENDING} \in Word /\ {RECEIVING} \in Word /\ {FREE_SLOT} \in Word
    /\ {} # {SENDING} /\ {} # {RECEIVING} /\ {} # {FREE_SLOT}
    /\ {SENDING} # {RECEIVING} /\ {SENDING} # {FREE_SLOT} /\ {RECEIVING} # {FREE_SLOT}
    /\ \A w \in Word : (SENDING \in w <=> w = {SENDING}) /\ (RECEIVING \in w <=> w = {RECEIVING})
                         /\ (FREE_SLOT \in w <=> w = {FREE_SLOT})
  BY DEF SENDING, RECEIVING, Kernel!SENDING, Kernel!RECEIVING, FREE_SLOT, Word

\* What q has to do with messages stays.
Same(q) ==
    /\ flags'[q] = flags[q] /\ buf'[q] = buf[q]
    /\ send_to'[q] = send_to[q] /\ recv_from'[q] = recv_from[q]

\* The tests of msg_send and msg_receive.
LEMMA Tests ==
    ASSUME CallsTyped, NEW p \in Proc, NEW q
    PROVE  /\ Kernel!SendingTo(p, q) <=> Sends(p, q)
           /\ Kernel!Awaits(p, q) <=> Waits(p, q) \/ Waits(p, ANY)
<1>1. flags[p] \in Word
  BY DEF CallsTyped
<1> QED BY <1>1, Words DEF Kernel!SendingTo, Kernel!Awaits, Sends, Waits, SENDING, RECEIVING

\* The queues of the tasks when nobody's SEND begins or ends.
LEMMA QueuesStay ==
    ASSUME Queues, \A d \in {MM, FS} : q_sending'[d] = q_sending[d],
           \A p \in Proc : \A d \in {MM, FS} : Sends(p, d)' <=> Sends(p, d)
    PROVE  Queues'
<1>1. \A d \in {MM, FS} : Exact(d) => Exact(d)'
  BY DEF Exact
<1> QED BY <1>1 DEF Queues

\* And when p begins one, to anybody.
LEMMA QueuesGrow ==
    ASSUME Queues, NEW p \in Proc, NEW d \in Proc, Free(p), Sends(p, d)', DOMAIN q_sending = Proc,
           q_sending' = [q_sending EXCEPT ![d] = Append(@, p)],
           \A q \in Proc \ {p} : \A e \in {MM, FS} : Sends(q, e)' <=> Sends(q, e)
    PROVE  Queues'
<1>1. SUFFICES ASSUME NEW e \in {MM, FS} PROVE Exact(e)'
  BY DEF Queues
<1>2. Exact(e) /\ e \in Proc
  BY Processes DEF Queues
<1>3. ~ Sends(p, e)
  BY Words DEF Free, Sends
<1>4. CASE e = d
  <2>1. q_sending'[e] = Append(q_sending[e], p) /\ p \notin K!Range(q_sending[e])
    BY <1>2, <1>3, <1>4 DEF Exact
  <2>2. /\ q_sending'[e] \in Seq(Proc)
        /\ K!Range(q_sending'[e]) = K!Range(q_sending[e]) \cup {p}
        /\ K!IsInjective(q_sending'[e])
    BY <1>2, <2>1, K!AppendMembers, KernelAssumption DEF Exact
  <2>3. {q \in Proc : Sends(q, e)'} = {q \in Proc : Sends(q, e)} \cup {p}
    BY <1>3, <1>4
  <2> QED BY <1>2, <2>2, <2>3 DEF Exact
<1>5. CASE e # d
  <2>1. q_sending'[e] = q_sending[e]
    BY <1>2, <1>5
  <2>2. ~ Sends(p, e)'
    BY <1>5 DEF Sends
  <2>3. {q \in Proc : Sends(q, e)'} = {q \in Proc : Sends(q, e)}
    BY <1>3, <2>2
  <2> QED BY <1>2, <2>1, <2>3 DEF Exact
<1> QED BY <1>4, <1>5

\* And when one of p's ends.
LEMMA QueuesShrink ==
    ASSUME Queues, NEW p \in Proc, NEW d \in Proc, Sends(p, d), Free(p)', DOMAIN q_sending = Proc,
           q_sending' = [q_sending EXCEPT ![d] = K!Dequeue(@, p)],
           \A q \in Proc \ {p} : \A e \in {MM, FS} : Sends(q, e)' <=> Sends(q, e)
    PROVE  Queues'
<1>1. SUFFICES ASSUME NEW e \in {MM, FS} PROVE Exact(e)'
  BY DEF Queues
<1>2. Exact(e) /\ e \in Proc
  BY Processes DEF Queues
<1>3. ~ Sends(p, e)'
  BY Words DEF Free, Sends
<1>4. CASE e = d
  <2>1. q_sending'[e] = K!Dequeue(q_sending[e], p) /\ p \in K!Range(q_sending[e])
    BY <1>2, <1>4 DEF Exact
  <2>2. /\ q_sending'[e] \in Seq(Proc)
        /\ K!Range(q_sending'[e]) = K!Range(q_sending[e]) \ {p}
        /\ K!IsInjective(q_sending'[e])
    BY <1>2, <2>1, K!DequeueMembers, KernelAssumption DEF Exact
  <2>3. {q \in Proc : Sends(q, e)'} = {q \in Proc : Sends(q, e)} \ {p}
    BY <1>3, <1>4
  <2> QED BY <1>2, <2>2, <2>3 DEF Exact
<1>5. CASE e # d
  <2>1. q_sending'[e] = q_sending[e]
    BY <1>2, <1>5
  <2>2. ~ Sends(p, e)
    BY <1>5 DEF Sends
  <2>3. {q \in Proc : Sends(q, e)'} = {q \in Proc : Sends(q, e)}
    BY <1>3, <2>2
  <2> QED BY <1>2, <2>1, <2>3 DEF Exact
<1> QED BY <1>4, <1>5

\* A SEND: the kernel finds a deadlock, d gets the message, or p sleeps.
LEMMA Sending ==
    ASSUME CallsTyped, Queues, halted = "no", NEW p \in Proc, NEW d \in Proc \ {p}, NEW t \in Type,
           Kernel!Send(p, d, t)
    PROVE  /\ Free(p)
           /\ \/ halted' # "no" /\ flags' = flags
              \/ /\ halted' = "no" /\ CallsTyped' /\ Queues'
                 /\ buf'[p].source = p /\ buf'[p].type = t
                 /\ \A q \in Proc \ {p, d} : Same(q)
                 /\ \/ (Waits(d, p) \/ Waits(d, ANY))
                       /\ Free(p)' /\ Free(d)' /\ buf'[d] = buf'[p]
                    \/ ~ Waits(d, p) /\ ~ Waits(d, ANY) /\ Sends(p, d)' /\ Same(d)
<1> DEFINE m == [source |-> p, type |-> t]
<1>1. Free(p)
  BY DEF Kernel!Send, Kernel!Runnable, Free
<1>2. m \in Message
  BY DEF Message
<1>3. Kernel!Awaits(d, p) <=> Waits(d, p) \/ Waits(d, ANY)
  BY Tests
<1>4. CASE Kernel!SendDeadlock(p, d, m)
  BY <1>1, <1>4 DEF Kernel!SendDeadlock, Kernel!Halt
<1>5. CASE Kernel!SendDirect(p, d, m)
  <2>1. flags[d] = {RECEIVING}
    BY <1>3, <1>5 DEF Kernel!SendDirect, Waits
  <2>2. flags' = [flags EXCEPT ![d] = {}]
    <3>1. {RECEIVING} \ {RECEIVING} = {}
      OBVIOUS
    <3> QED BY <1>5, <2>1, <3>1 DEF Kernel!SendDirect, Kernel!Wake, RECEIVING
  <2>3. /\ buf' = [buf EXCEPT ![p] = m, ![d] = m]
        /\ recv_from' = [recv_from EXCEPT ![d] = NO_TASK]
        /\ UNCHANGED <<send_to, has_int_msg, q_sending, halted>>
    BY <1>5 DEF Kernel!SendDirect
  <2>4. CallsTyped'
    BY <1>2, <2>2, <2>3, Words DEF CallsTyped
  <2>5. /\ \A q \in Proc \ {p, d} : Same(q)
        /\ Free(p)' /\ Free(d)' /\ buf'[d] = m /\ buf'[p] = m
    BY <1>1, <2>2, <2>3 DEF CallsTyped, Same, Free
  <2>6. \A q \in Proc : \A e \in {MM, FS} : Sends(q, e)' <=> Sends(q, e)
    BY <2>1, <2>2, <2>3, Words DEF CallsTyped, Sends
  <2>7. Queues'
    BY <2>3, <2>6, QueuesStay
  <2> QED BY <1>1, <1>3, <1>5, <2>3, <2>4, <2>5, <2>7 DEF Kernel!SendDirect
<1>6. CASE Kernel!SendBlock(p, d, m)
  <2>1. ~ Waits(d, p) /\ ~ Waits(d, ANY)
    BY <1>3, <1>6 DEF Kernel!SendBlock
  <2>2. flags' = [flags EXCEPT ![p] = {SENDING}]
    <3>1. {} \cup {SENDING} = {SENDING}
      OBVIOUS
    <3> QED BY <1>1, <1>6, <3>1 DEF Kernel!SendBlock, Kernel!Sleep, SENDING, Free
  <2>3. /\ buf' = [buf EXCEPT ![p] = m]
        /\ send_to' = [send_to EXCEPT ![p] = d]
        /\ q_sending' = [q_sending EXCEPT ![d] = Append(@, p)]
        /\ UNCHANGED <<recv_from, has_int_msg, halted>>
    BY <1>6 DEF Kernel!SendBlock
  <2>4. CallsTyped'
    BY <1>2, <2>2, <2>3, Words DEF CallsTyped
  <2>5. /\ \A q \in Proc \ {p} : Same(q)
        /\ Sends(p, d)' /\ buf'[p] = m
    BY <2>2, <2>3 DEF CallsTyped, Same, Sends
  <2>6. \A q \in Proc \ {p} : \A e \in {MM, FS} : Sends(q, e)' <=> Sends(q, e)
    BY <2>5 DEF Same, Sends
  <2>7. Queues'
    BY <1>1, <2>3, <2>5, <2>6, QueuesGrow DEF CallsTyped
  <2> QED BY <1>1, <2>1, <2>3, <2>4, <2>5, <2>7
<1> QED BY <1>4, <1>5, <1>6 DEF Kernel!Send

\* A RECEIVE: a message of somebody who waits, or p sleeps.
LEMMA Receiving ==
    ASSUME CallsTyped, Queues, halted = "no", NEW p \in Proc, NEW s \in (Proc \ {p}) \cup {ANY},
           s = ANY => p \in {MM, FS}, Kernel!Receive(p, s)
    PROVE  /\ Free(p) /\ halted' = "no" /\ CallsTyped' /\ Queues'
           /\ \/ \E e \in Proc \ {p} :
                    /\ Sends(e, p) /\ s \in {e, ANY}
                    /\ Free(e)' /\ Free(p)' /\ buf'[p] = buf[e] /\ buf'[e] = buf[e]
                    /\ \A q \in Proc \ {e, p} : Same(q)
              \/ /\ \A e \in Proc : Sends(e, p) => s \notin {e, ANY}
                 /\ Waits(p, s)' /\ \A q \in Proc \ {p} : Same(q)
<1>1. Free(p)
  BY DEF Kernel!Receive, Kernel!Runnable, Free
<1>2. ~ has_int_msg[p]
  BY DEF CallsTyped
<1>3. ~ Kernel!ReceiveInterrupt(p, s)
  BY <1>2 DEF Kernel!ReceiveInterrupt, Kernel!IntReady
<1>4. Kernel!SenderReady(p, s) => Kernel!Chosen(p, s) \in Proc /\ Sends(Kernel!Chosen(p, s), p)
  <2>1. CASE s # ANY
    <3>1. Kernel!SendingTo(s, p) <=> Sends(s, p)
      BY <2>1, Tests
    <3> QED BY <2>1, <3>1 DEF Kernel!SenderReady, Kernel!Chosen
  <2>2. CASE s = ANY
    <3>1. Exact(p)
      BY <2>2 DEF Queues
    <3>2. SUFFICES ASSUME q_sending[p] # <<>>
                   PROVE  Head(q_sending[p]) \in K!Range(q_sending[p])
      BY <2>2, <3>1 DEF Exact, Kernel!SenderReady, Kernel!Chosen
    <3>3. 1 \in DOMAIN q_sending[p] /\ Head(q_sending[p]) = q_sending[p][1]
      BY <3>1, <3>2 DEF Exact
    <3> QED BY <3>3 DEF K!Range
  <2> QED BY <2>1, <2>2
<1>5. CASE Kernel!ReceiveQueued(p, s)
  <2>1. PICK e : e = Kernel!Chosen(p, s)
    OBVIOUS
  <2>2. e \in Proc /\ Sends(e, p) /\ s \in {e, ANY}
    BY <1>4, <1>5, <2>1 DEF Kernel!ReceiveQueued, Kernel!Chosen
  <2>3. e # p
    BY <1>1, <2>2, Words DEF Free, Sends
  <2>4. flags' = [flags EXCEPT ![e] = {}]
    <3>1. {SENDING} \ {SENDING} = {}
      OBVIOUS
    <3> QED BY <1>5, <2>1, <2>2, <3>1 DEF Kernel!ReceiveQueued, Kernel!Wake, Sends, SENDING
  <2>5. /\ buf' = [buf EXCEPT ![p] = buf[e]]
        /\ send_to' = [send_to EXCEPT ![e] = NO_TASK]
        /\ q_sending' = [q_sending EXCEPT ![p] = K!Dequeue(@, e)]
        /\ UNCHANGED <<recv_from, has_int_msg, halted>>
    BY <1>5, <2>1 DEF Kernel!ReceiveQueued, Kernel!Dequeue, K!Dequeue, Kernel!RemoveAt, K!RemoveAt
  <2>6. CallsTyped'
    BY <2>2, <2>4, <2>5, Words DEF CallsTyped
  <2>7. /\ \A q \in Proc \ {e, p} : Same(q)
        /\ Free(e)' /\ Free(p)' /\ buf'[p] = buf[e] /\ buf'[e] = buf[e]
    BY <1>1, <2>2, <2>3, <2>4, <2>5 DEF CallsTyped, Same, Free
  <2>8. \A q \in Proc \ {e} : \A d \in {MM, FS} : Sends(q, d)' <=> Sends(q, d)
    BY <2>4, <2>5 DEF CallsTyped, Sends
  <2>9. Queues'
    BY <2>2, <2>5, <2>7, <2>8, QueuesShrink DEF CallsTyped
  <2> QED BY <1>1, <2>2, <2>3, <2>5, <2>6, <2>7, <2>9
<1>6. CASE Kernel!ReceiveBlock(p, s)
  <2>1. flags' = [flags EXCEPT ![p] = {RECEIVING}]
    <3>1. {} \cup {RECEIVING} = {RECEIVING}
      OBVIOUS
    <3> QED BY <1>1, <1>6, <3>1 DEF Kernel!ReceiveBlock, Kernel!Sleep, RECEIVING, Free
  <2>2. /\ recv_from' = [recv_from EXCEPT ![p] = s]
        /\ buf' = [buf EXCEPT ![p].source = p]
        /\ UNCHANGED <<send_to, has_int_msg, q_sending, halted>>
    BY <1>2, <1>6 DEF Kernel!ReceiveBlock
  <2>3. [buf[p] EXCEPT !.source = p] \in Message
    BY DEF CallsTyped, Message
  <2>4. CallsTyped'
    BY <2>1, <2>2, <2>3, Words DEF CallsTyped
  <2>5. Waits(p, s)' /\ \A q \in Proc \ {p} : Same(q)
    BY <2>1, <2>2 DEF CallsTyped, Same, Waits
  <2>6. \A q \in Proc : \A d \in {MM, FS} : Sends(q, d)' <=> Sends(q, d)
    BY <1>1, <2>1, <2>2, Words DEF CallsTyped, Sends, Free
  <2>7. Queues'
    BY <2>2, <2>6, QueuesStay
  <2>8. ASSUME NEW e \in Proc, Sends(e, p) PROVE s \notin {e, ANY}
    <3>1. ~ Kernel!SenderReady(p, s)
      BY <1>6 DEF Kernel!ReceiveBlock
    <3>2. CASE s = ANY
      <4>1. Exact(p) /\ q_sending[p] = <<>>
        BY <3>1, <3>2 DEF Queues, Kernel!SenderReady
      <4>2. e \in K!Range(<<>>)
        BY <2>8, <4>1 DEF Exact
      <4> QED BY <4>2 DEF K!Range
    <3>3. CASE s # ANY
      <4>1. Kernel!SendingTo(e, p)
        BY <2>8, Tests
      <4> QED BY <3>1, <3>3, <4>1 DEF Kernel!SenderReady
    <3> QED BY <3>2, <3>3
  <2> QED BY <1>1, <2>2, <2>4, <2>5, <2>7, <2>8
<1> QED BY <1>3, <1>5, <1>6 DEF Kernel!Receive

-----------------------------------------------------------------------------
(***************************************************************************)
(* What a step leaves alone.                                               *)
(***************************************************************************)

\* p runs, and its program is at l.
LEMMA Start ==
    ASSUME NEW p, NEW l, At(p, l)
    PROVE  pc[p] = l /\ Free(p)
  BY DEF At, Kernel!Runnable, Free

\* A jump of p's program.
LEMMA Jump ==
    ASSUME ImageTyped, NEW p \in Proc, NEW l \in Label, Goto(p, l)
    PROVE  pc' \in [Proc -> Label] /\ pc'[p] = l /\ \A q \in Proc \ {p} : pc'[q] = pc[q]
  BY DEF ImageTyped, Goto

\* A step without a call of the kernel.
LEMMA NoCall ==
    ASSUME CallsTyped, Queues, UNCHANGED <<flags, recv_from, send_to, has_int_msg, q_sending>>,
           buf' \in [Proc -> Message]
    PROVE  CallsTyped' /\ Queues'
<1>1. CallsTyped'
  BY DEF CallsTyped
<1>2. \A q \in Proc : \A d \in {MM, FS} : Sends(q, d)' <=> Sends(q, d)
  BY DEF Sends
<1> QED BY <1>1, <1>2, QueuesStay

\* A process that stands still.
LEMMA SameState ==
    ASSUME NEW q, Same(q)
    PROVE  /\ Free(q)' <=> Free(q)
           /\ Used(q)' <=> Used(q)
           /\ \A d : Sends(q, d)' <=> Sends(q, d)
           /\ \A d : Waits(q, d)' <=> Waits(q, d)
  BY DEF Same, Free, Used, Sends, Waits

\* The states of a process exclude each other.
LEMMA OneState ==
    ASSUME NEW q
    PROVE  /\ \A d : Sends(q, d) => ~ Free(q) /\ Used(q)
           /\ \A d : Waits(q, d) => ~ Free(q) /\ Used(q)
           /\ \A d, e : ~ (Sends(q, d) /\ Waits(q, e))
           /\ \A d, e : Sends(q, d) /\ Sends(q, e) => d = e
           /\ \A d, e : Waits(q, d) /\ Waits(q, e) => d = e
           /\ Free(q) => Used(q)
  BY Words DEF Free, Used, Sends, Waits

\* OneState of the next state.
LEMMA AwakeNext ==
    ASSUME NEW q, Free(q)'
    PROVE  Used(q)' /\ flags'[q] # {SENDING} /\ \A d : ~ Sends(q, d)'
  BY Words DEF Free, Used, Sends

ParentsKept == \A p \in User : parent[p] # NO_TASK => parent'[p] = parent[p]

\* Nobody's child becomes another's.
LEMMA AnswersKept ==
    ASSUME ParentsKept
    PROVE  \A t : \A u \in User : Answers(t, u) => Answers(t, u)'
<1> SUFFICES ASSUME NEW t, NEW u \in User, Answers(t, u) PROVE Answers(t, u)'
  OBVIOUS
<1>1. u # NO_TASK /\ Slot \subseteq User
  BY Processes
<1> QED BY <1>1 DEF Answers, ParentsKept

SameUser(u) ==
    /\ Same(u) /\ pc'[u] = pc[u] /\ op'[u] = op[u] /\ ret'[u] = ret[u]
    /\ filp'[u] = filp[u] /\ parent'[u] = parent[u]

\* A user process that another's step leaves alone.
LEMMA UserKept ==
    ASSUME NEW u \in User, UserOk(u), SameUser(u), ParentsKept
    PROVE  UserOk(u)'
<1>1. (Used(u)' <=> Used(u)) /\ (Free(u)' <=> Free(u)) /\ Server(u)' = Server(u)
  BY SameState DEF SameUser, Server
<1>2. Unborn(u) => Unborn(u)'
  BY DEF SameUser, Unborn
<1>3. ASSUME UserAt(u) PROVE UserAt(u)'
  <2>1. Answers(buf[u].type, u) => Answers(buf[u].type, u)'
    <3>1. PICK t : t = buf[u].type
      OBVIOUS
    <3>2. buf'[u].type = t
      BY <3>1 DEF SameUser, Same
    <3> QED BY <3>1, <3>2, AnswersKept
  <2> QED BY <1>1, <1>3, <2>1 DEF UserAt, SameUser, Same
<1> QED BY <1>1, <1>2, <1>3 DEF UserOk

\* Who waits for an answer still does.
LEMMA WaitingKept ==
    ASSUME NEW u \in User, SameUser(u)
    PROVE  /\ \A c : Asked(u, c) => Asked(u, c)'
           /\ Waiting(u) <=> Waiting(u)'
  BY DEF SameUser, Same, Asked, Waiting, Free

\* What is known of MM's work when the processes it deals with stay.
LEMMA MmKept ==
    ASSUME MmAt, Same(MM), pc'[MM] = pc[MM], mm' = mm, ParentsKept, filp' = filp, parent' = parent,
           Asked(mm.src, "FORK") => Asked(mm.src, "FORK")',
           Asked(buf[MM].source, "FORK") => Asked(buf[MM].source, "FORK")',
           Embryo(mm.child) => Embryo(mm.child)',
           Asked(mm.src, "FORK") /\ Copied(mm.child) => Copied(mm.child)',
           FsHas(MM) => FsHas(MM)' \/ Sends(FS, MM)',
           pc[MM] = "child" /\ Waits(MM, FS) /\ FsHas(MM) => FsHas(MM)',
           Sends(FS, MM) => Sends(FS, MM)'
    PROVE  MmAt'
<1>1. /\ Free(MM)' <=> Free(MM)
      /\ \A d : Sends(MM, d)' <=> Sends(MM, d)
      /\ \A d : Waits(MM, d)' <=> Waits(MM, d)
  BY SameState
<1>2. buf'[MM] = buf[MM]
  BY DEF Same
<1>3. MmIdle => MmIdle'
  <2>1. \A u \in User : Sends(MM, u) /\ Answers(buf[MM].type, u) => (Sends(MM, u) /\ Answers(buf[MM].type, u))'
    <3>1. PICK t : t = buf[MM].type
      OBVIOUS
    <3>2. buf'[MM].type = t
      BY <1>2, <3>1
    <3> QED BY <1>1, <3>1, <3>2, AnswersKept
  <2> QED BY <1>1, <1>2, <2>1 DEF MmIdle
<1>4. MmCopies => MmCopies'
  BY <1>1 DEF MmCopies
<1>5. ForkOf(buf[MM]) => ForkOf(buf[MM])'
  BY <1>2 DEF ForkOf
<1>6. MmPrepares => MmPrepares'
  BY <1>1, <1>5 DEF MmPrepares
<1>7. Sends(MM, mm.child) => Sends(MM, mm.child)'
  BY <1>1
<1>8. MmReplies => MmReplies'
  BY <1>1, <1>2, <1>7 DEF MmReplies
<1> QED BY <1>3, <1>4, <1>6, <1>8 DEF MmAt

\* And of FS.
LEMMA FsKept ==
    ASSUME FsAt, Same(FS), pc'[FS] = pc[FS],
           pc[MM] = "await" /\ Free(MM) => (pc[MM] = "await" /\ Free(MM))' \/ ~ Sends(FS, MM),
           FsForMm => FsForMm' \/ ~ FsHas(MM), FsForMm => mm'.child = mm.child,
           Asked(buf[FS].source, "FILE") => Asked(buf[FS].source, "FILE")'
    PROVE  FsAt'
<1>1. /\ Free(FS)' <=> Free(FS)
      /\ \A d : Sends(FS, d)' <=> Sends(FS, d)
      /\ \A d : Waits(FS, d)' <=> Waits(FS, d)
  BY SameState
<1>2. buf'[FS] = buf[FS]
  BY DEF Same
<1>3. FsHas(MM) /\ ForkOf(buf[FS]) /\ FsForMm => (FsHas(MM) /\ ForkOf(buf[FS]) /\ FsForMm)'
  BY <1>1, <1>2 DEF FsHas, ForkOf
<1>4. FsHas(buf[FS].source) => FsHas(buf[FS].source)'
  BY <1>1, <1>2 DEF FsHas
<1> QED BY <1>1, <1>2, <1>3, <1>4 DEF FsAt

\* fd_cnt is right where the files and the place of MM and FS are the same.
LEMMA CountKept ==
    ASSUME Count, fd_cnt' = fd_cnt, filp' = filp, Uncounted' <=> Uncounted,
           Uncounted => mm'.child = mm.child
    PROVE  Count'
<1>1. Open' = Open
  BY DEF Open
<1> QED BY <1>1 DEF Count

\* And the memories, where MM stands still,
LEMMA BasesKept ==
    ASSUME Bases, base' = base, \A u \in User : Used(u)' <=> Used(u),
           mm' = mm, pc'[MM] = pc[MM]
    PROVE  Bases'
  BY DEF Bases, Elsewhere

\* and what the forks have returned.
LEMMA FamilyKept ==
    ASSUME Family, ret' = ret, ParentsKept
    PROVE  Family'
<1>1. \A p \in User : p # NO_TASK
  BY Processes
<1> QED BY <1>1, Processes DEF Family, ParentsKept

\* The slots are finitely many, and so are the processes that have the file.
LEMMA Finite ==
    ASSUME NEW S \in SUBSET User
    PROVE  IsFiniteSet(S) /\ Cardinality(S) \in Nat
<1>1. User = Slot \cup {InitProc}
  BY DEF User
<1>2. IsFiniteSet(User)
  BY <1>1, FS_AddElement, ForkAssumption
<1>3. IsFiniteSet(S)
  BY <1>2, FS_Subset
<1> QED BY <1>3, FS_CardinalityType

\* A child in its parent's memory has not come back from fork.
LEMMA NotGrown ==
    ASSUME MmAt, pc[MM] \in {"pcb", "memory", "ldt", "await", "child"}
    PROVE  /\ Embryo(mm.child) /\ ~ Grown(mm.child) /\ Asked(mm.src, "FORK")
           /\ mm.child \in Slot /\ mm.child # mm.src
<1>1. Embryo(mm.child) /\ Asked(mm.src, "FORK")
  <2>1. ~ MmIdle /\ ~ MmReplies
    BY DEF MmIdle, MmReplies
  <2> QED BY <2>1 DEF MmAt, MmCopies, MmPrepares
<1> QED BY <1>1, Processes DEF Embryo, Grown

\* It is this child whose file is not yet counted.
LEMMA UncountedChild ==
    ASSUME MmAt, Uncounted
    PROVE  Embryo(mm.child) /\ ~ Grown(mm.child) /\ pc[MM] # "receive"
<1>1. pc[MM] \in {"memory", "ldt", "await", "child"}
  BY DEF Uncounted
<1> QED BY <1>1, NotGrown

\* The invariant is strong enough.
LEMMA Complete ==
    ASSUME ForkInv
    PROVE  ForkComplete
<1>1. ImageTyped /\ Users /\ Bases /\ Family /\ Count /\ MmAt
  BY DEF ForkInv
<1>2. ASSUME NEW p \in User, Grown(p) PROVE base[p] = p /\ FREE_SLOT \notin flags[p]
  <2>1. Used(p)
    <3>1. p # InitProc => p \in Slot
      BY DEF User
    <3>2. Unborn(p) => ~ Grown(p)
      BY Processes DEF Unborn, Grown
    <3> QED BY <1>1, <1>2, <3>2 DEF Users, UserOk
  <2>2. ~ Elsewhere(p)
    BY <1>1, <1>2, NotGrown DEF Elsewhere
  <2>3. flags[p] \in Word
    BY Processes DEF ForkInv, CallsTyped
  <2> QED BY <1>1, <2>1, <2>2, <2>3, Words DEF Bases, Used
<1>3. fd_cnt >= Cardinality({p \in User : Grown(p) /\ filp[p]})
  <2>1. DEFINE G == {p \in User : Grown(p) /\ filp[p]}
               C == IF Uncounted THEN Open \ {mm.child} ELSE Open
  <2>2. G \subseteq C /\ C \subseteq User
    BY <1>1, UncountedChild DEF Open
  <2>3. IsFiniteSet(C) /\ Cardinality(C) \in Nat /\ Cardinality(G) \in Nat
    BY <2>2, Finite
  <2>4. Cardinality(G) <= Cardinality(C)
    BY <2>2, <2>3, FS_Subset
  <2>5. fd_cnt = Cardinality(C)
    BY <1>1 DEF Count
  <2> QED BY <2>3, <2>4, <2>5
<1>4. pc[MM] = "receive" => fd_cnt = Cardinality({p \in User : filp[p]})
  BY <1>1, UncountedChild DEF Count, Open
<1> QED BY <1>1, <1>2, <1>3, <1>4 DEF ForkComplete, Family

\* When the kernel stops in a call, nothing of this is undone.
LEMMA Stopping ==
    ASSUME ForkComplete, UNCHANGED <<flags, ret, base, parent, filp, fd_cnt>>,
           pc'[MM] = "receive" => pc[MM] = "receive"
    PROVE  ForkComplete'
<1>1. {p \in User : filp[p]}' = {p \in User : filp[p]}
  OBVIOUS
<1>2. {p \in User : Grown(p) /\ filp[p]}' = {p \in User : Grown(p) /\ filp[p]}
  BY DEF Grown
<1> QED BY <1>1, <1>2 DEF ForkComplete, Grown

\* What MM and FS do when they are asleep.
LEMMA MmAsleep ==
    ASSUME MmAt, NEW x
    PROVE  /\ Waits(MM, x) =>
                 \/ pc[MM] = "find" /\ x = ANY
                 \/ pc[MM] = "child" /\ x = FS /\ FsHas(MM) /\ MmPrepares
           /\ Sends(MM, x) =>
                 \/ pc[MM] = "receive" /\ x \in User /\ Answers(buf[MM].type, x)
                 \/ pc[MM] = "await" /\ x = FS /\ ForkOf(buf[MM]) /\ MmPrepares
                 \/ pc[MM] = "reply" /\ x = mm.child /\ x \in Slot
                       /\ buf[MM].type = Msg("SYSCALL_RET", 0, 0) /\ MmReplies /\ mm.retval = 0
<1>1. Waits(MM, x) => ~ Free(MM) /\ \A d : ~ Sends(MM, d) /\ (Waits(MM, d) => d = x)
  BY OneState
<1>2. Sends(MM, x) => ~ Free(MM) /\ \A d : ~ Waits(MM, d) /\ (Sends(MM, d) => d = x)
  BY OneState
<1>3. Waits(MM, x) => ~ MmReplies /\ ~ MmCopies
  BY <1>1 DEF MmReplies, MmCopies
<1>4. MmIdle /\ Waits(MM, x) => pc[MM] = "find" /\ x = ANY
  BY <1>1 DEF MmIdle
<1>5. MmPrepares /\ Waits(MM, x) => pc[MM] = "child" /\ x = FS /\ FsHas(MM)
  BY <1>1 DEF MmPrepares
<1>6. Sends(MM, x) => ~ MmCopies
  BY <1>2 DEF MmCopies
<1>7. MmIdle /\ Sends(MM, x) => pc[MM] = "receive" /\ x \in User /\ Answers(buf[MM].type, x)
  BY <1>2 DEF MmIdle
<1>8. MmPrepares /\ Sends(MM, x) => pc[MM] = "await" /\ x = FS /\ ForkOf(buf[MM])
  BY <1>2 DEF MmPrepares
<1>9. MmReplies /\ Sends(MM, x) =>
          pc[MM] = "reply" /\ x = mm.child /\ x \in Slot /\ buf[MM].type = Msg("SYSCALL_RET", 0, 0) /\ mm.retval = 0
  BY <1>2 DEF MmReplies
<1> QED BY <1>3, <1>4, <1>5, <1>6, <1>7, <1>8, <1>9 DEF MmAt

\* And FS.
LEMMA FsAsleep ==
    ASSUME FsAt, NEW x
    PROVE  /\ Waits(FS, x) => pc[FS] = "handle" /\ x = ANY
           /\ Sends(FS, x) =>
                 \/ pc[FS] = "receive" /\ x \in User
                 \/ pc[FS] = "receive" /\ x = MM /\ pc[MM] = "await" /\ Free(MM)
<1>1. Waits(FS, x) => ~ Free(FS) /\ \A d : ~ Sends(FS, d) /\ (Waits(FS, d) => d = x)
  BY OneState
<1>2. Sends(FS, x) => ~ Free(FS) /\ \A d : ~ Waits(FS, d) /\ (Sends(FS, d) => d = x)
  BY OneState
<1> QED BY <1>1, <1>2 DEF FsAt, FsHas

-----------------------------------------------------------------------------
(***************************************************************************)
(* A step of a user process.                                               *)
(***************************************************************************)

\* p alone moves.
Moves(p) ==
    /\ \A u \in User \ {p} : SameUser(u)
    /\ UNCHANGED <<base, parent, filp, fd_cnt, mm>>
    /\ pc'[MM] = pc[MM] /\ pc'[FS] = pc[FS]
    /\ Used(p) /\ Used(p)' /\ UserAt(p)'

\* And it goes on waiting if it did.
Stays(p) ==
    /\ \A c : Asked(p, c) => Asked(p, c)'
    /\ Embryo(p) => Embryo(p)'
    /\ Asked(p, "FORK") /\ pc[p] = "return" => pc'[p] = "return"

\* What MM does for others does not depend on p.
LEMMA UserMoves ==
    ASSUME ForkInv, NEW p \in User, Moves(p)
    PROVE  /\ Users' /\ Bases' /\ ParentsKept
           /\ \A x : \A c : Asked(x, c) /\ (x = p => Stays(p)) => Asked(x, c)'
           /\ Embryo(mm.child) /\ (mm.child = p => Stays(p)) => Embryo(mm.child)'
           /\ Asked(mm.src, "FORK") /\ (mm.src = p => Stays(p)) /\ Copied(mm.child) => Copied(mm.child)'
<1>1. ParentsKept /\ mm' = mm /\ parent' = parent
  BY DEF Moves, ParentsKept
<1>2. ASSUME NEW u \in User PROVE UserOk(u)' /\ (Used(u)' <=> Used(u))
  <2>1. CASE u = p
    BY <2>1 DEF Moves, UserOk
  <2>2. CASE u # p
    <3>1. SameUser(u) /\ UserOk(u)
      BY <2>2 DEF Moves, ForkInv, Users
    <3> QED BY <1>1, <3>1, UserKept, SameState DEF SameUser
  <2> QED BY <2>1, <2>2
<1>3. Users' /\ Bases'
  <2>1. Bases /\ base' = base /\ pc'[MM] = pc[MM]
    BY DEF ForkInv, Moves
  <2> QED BY <1>1, <1>2, <2>1, BasesKept DEF Users
<1>4. ASSUME NEW x, NEW c, Asked(x, c), x = p => Stays(p) PROVE Asked(x, c)'
  <2>1. x \in User
    BY <1>4 DEF Asked
  <2>2. CASE x = p
    BY <1>4, <2>2 DEF Stays
  <2>3. CASE x # p
    <3>1. SameUser(x)
      BY <2>1, <2>3 DEF Moves
    <3> QED BY <1>4, <2>1, <3>1, WaitingKept
  <2> QED BY <2>2, <2>3
<1>5. Embryo(mm.child) /\ (mm.child = p => Stays(p)) => Embryo(mm.child)'
  <2>1. PICK c : c = mm.child
    OBVIOUS
  <2>2. mm'.child = c
    BY <1>1, <2>1
  <2>3. SUFFICES ASSUME Embryo(c), c = p => Stays(p) PROVE Embryo(c)'
    BY <2>1, <2>2
  <2>4. CASE c = p
    BY <2>3, <2>4 DEF Stays
  <2>5. CASE c # p
    <3>1. SameUser(c)
      BY <2>3, <2>5, Processes DEF Moves, Embryo
    <3> QED BY <1>1, <2>3, <3>1 DEF Embryo, SameUser, Same
  <2> QED BY <2>4, <2>5
<1>6. Asked(mm.src, "FORK") /\ (mm.src = p => Stays(p)) /\ Copied(mm.child) => Copied(mm.child)'
  <2>1. PICK c : c = mm.child
    OBVIOUS
  <2>2. PICK x : x = mm.src
    OBVIOUS
  <2>3. mm'.child = c /\ mm'.src = x
    BY <1>1, <2>1, <2>2
  <2>4. SUFFICES ASSUME Asked(x, "FORK"), x = p => Stays(p), Copied(c) PROVE Copied(c)'
    BY <2>1, <2>2, <2>3
  <2>5. c \in User /\ c # p /\ SameUser(c)
    BY <2>4, Processes DEF Copied, Moves, Used
  <2>6. pc[x] = "return" => pc'[x] = "return"
    BY <2>4 DEF Moves, Stays, Asked, SameUser
  <2> QED BY <2>2, <2>3, <2>4, <2>5, <2>6 DEF Copied, SameUser, Same
<1> QED BY <1>1, <1>3, <1>4, <1>5, <1>6

\* Whom MM and FS serve goes on waiting, when p is not among them or stays.
Served(x, p) == x = p => Stays(p)

\* MM keeps its place
LEMMA MmServes ==
    ASSUME ForkInv, NEW p \in User, Moves(p), Same(MM),
           Served(mm.src, p) \/ ~ Asked(mm.src, "FORK"),
           Served(buf[MM].source, p) \/ ~ Asked(buf[MM].source, "FORK"),
           Served(mm.child, p) \/ ~ Embryo(mm.child),
           FsHas(MM) => FsHas(MM)', Sends(FS, MM) => Sends(FS, MM)'
    PROVE  MmAt'
<1>1. MmAt /\ UNCHANGED <<parent, filp, mm>> /\ pc'[MM] = pc[MM]
  BY DEF ForkInv, Moves
<1>2. ParentsKept
  BY UserMoves
<1>3. Embryo(mm.child) => Embryo(mm.child)'
  BY UserMoves DEF Served
<1>4. Asked(mm.src, "FORK") /\ Copied(mm.child) => Copied(mm.child)'
  BY UserMoves DEF Served
<1>5. /\ Asked(mm.src, "FORK") => Asked(mm.src, "FORK")'
      /\ Asked(buf[MM].source, "FORK") => Asked(buf[MM].source, "FORK")'
  <2>1. PICK x : x = mm.src
    OBVIOUS
  <2>2. PICK y : y = buf[MM].source
    OBVIOUS
  <2>3. mm'.src = x /\ buf'[MM].source = y
    BY <1>1, <2>1, <2>2 DEF Same
  <2> QED BY <2>1, <2>2, <2>3, UserMoves DEF Served
<1> QED BY <1>1, <1>2, <1>3, <1>4, <1>5, MmKept

\* and FS does.
LEMMA FsServes ==
    ASSUME ForkInv, NEW p \in User, Moves(p), Same(FS),
           Served(buf[FS].source, p) \/ ~ Asked(buf[FS].source, "FILE"),
           pc[MM] = "await" /\ Free(MM) => (pc[MM] = "await" /\ Free(MM))',
           FsForMm => FsForMm'
    PROVE  FsAt'
<1>1. FsAt /\ mm' = mm /\ pc'[FS] = pc[FS]
  BY DEF ForkInv, Moves
<1>2. Asked(buf[FS].source, "FILE") => Asked(buf[FS].source, "FILE")'
  <2>1. PICK x : x = buf[FS].source
    OBVIOUS
  <2>2. buf'[FS].source = x
    BY <2>1 DEF Same
  <2> QED BY <2>1, <2>2, UserMoves DEF Served
<1> QED BY <1>1, <1>2, FsKept

\* When neither MM nor FS gets anything of it.
LEMMA UserAlone ==
    ASSUME ForkInv, NEW p \in User, Moves(p), Stays(p), Same(MM), Same(FS)
    PROVE  MmAt' /\ FsAt' /\ Count'
<1>1. Count /\ UNCHANGED <<filp, fd_cnt, mm>> /\ pc'[MM] = pc[MM] /\ pc'[FS] = pc[FS]
  BY DEF ForkInv, Moves
<1>2. \A x : Served(x, p)
  BY DEF Served
<1>3. /\ Free(MM)' <=> Free(MM)
      /\ Free(FS)' <=> Free(FS)
      /\ Sends(FS, MM)' <=> Sends(FS, MM)
      /\ Waits(MM, FS)' <=> Waits(MM, FS)
      /\ buf'[FS] = buf[FS]
  BY SameState DEF Same
<1>4. /\ FsHas(MM)' <=> FsHas(MM)
      /\ FsForMm' <=> FsForMm
      /\ Uncounted' <=> Uncounted
  BY <1>1, <1>3 DEF FsHas, FsForMm, Uncounted
<1>5. MmAt'
  BY <1>2, <1>3, <1>4, MmServes
<1>6. FsAt'
  BY <1>1, <1>2, <1>3, <1>4, FsServes
<1> QED BY <1>1, <1>4, <1>5, <1>6, CountKept

\* Calls.
LEMMA UserCallKeeps ==
    ASSUME ForkInv, halted = "no", NEW p \in User, NEW call \in Program[p], UserCall(p, call)
    PROVE  IInv'
<1>1. CallsTyped /\ ImageTyped /\ Queues /\ Users /\ Bases /\ Family /\ Count /\ MmAt /\ FsAt
  BY DEF ForkInv
<1>2. p \in Proc /\ p # MM /\ p # FS
  BY Processes
<1>3. pc[p] = "run" /\ Free(p)
  BY Start DEF UserCall
<1>4. /\ pc' \in [Proc -> Label] /\ pc'[p] = "receive"
      /\ \A q \in Proc \ {p} : pc'[q] = pc[q]
  BY <1>1, <1>2, Jump DEF UserCall, Label
<1>5. call \in {"FORK", "FILE"}
  BY ForkAssumption
<1>6. /\ op' \in [User -> {"FORK", "FILE", "none"}] /\ op'[p] = call
      /\ \A q \in User \ {p} : op'[q] = op[q]
  BY <1>1, <1>5 DEF UserCall, ImageTyped
<1>7. UNCHANGED <<ret, base, parent, filp, fd_cnt, mm>>
  BY DEF UserCall, files
<1>8. ImageTyped'
  BY <1>1, <1>4, <1>6, <1>7 DEF ImageTyped
<1>9. PICK d : d = IF call = "FORK" THEN MM ELSE FS
  OBVIOUS
<1>10. d \in Proc \ {p} /\ d = Server(p)' /\ d \in {MM, FS}
  BY <1>2, <1>6, <1>9, Processes DEF Server
<1>11. Msg(call, 0, 0) \in Type /\ Msg(call, 0, 0).type = call
  BY <1>5 DEF Msg, Type
<1>12. Kernel!Send(p, d, Msg(call, 0, 0))
  BY <1>9 DEF UserCall
<1>13. CASE halted' # "no"
  <2>1. flags' = flags
    BY <1>1, <1>2, <1>10, <1>11, <1>12, <1>13, Sending
  <2>2. ForkComplete'
    BY <1>2, <1>4, <1>7, <2>1, Processes, Complete, Stopping
  <2> QED BY <1>13, <2>2 DEF IInv
<1>14. CASE halted' = "no"
  <2>1. /\ CallsTyped' /\ Queues'
        /\ buf'[p].source = p /\ buf'[p].type = Msg(call, 0, 0)
        /\ \A q \in Proc \ {p, d} : Same(q)
        /\ \/ (Waits(d, p) \/ Waits(d, ANY)) /\ Free(p)' /\ Free(d)' /\ buf'[d] = buf'[p]
           \/ ~ Waits(d, p) /\ ~ Waits(d, ANY) /\ Sends(p, d)' /\ Same(d)
    BY <1>1, <1>2, <1>10, <1>11, <1>12, <1>14, Sending
  <2>2. \A u \in User \ {p} : SameUser(u)
    BY <1>4, <1>6, <1>7, <1>10, <2>1, Processes DEF SameUser
  <2>3. UserAt(p)' /\ Used(p)' /\ Used(p)
    <3>1. Free(p)' => ~ (flags'[p] = {SENDING}) /\ Used(p)'
      BY Words DEF Free, Used
    <3>2. Sends(p, d)' => flags'[p] = {SENDING} /\ send_to'[p] = d /\ Used(p)'
      BY Words DEF Sends, Used
    <3> QED BY <1>3, <1>4, <1>5, <1>6, <1>10, <1>11, <2>1, <3>1, <3>2, OneState DEF UserAt
  <2>4. Moves(p)
    BY <1>2, <1>4, <1>7, <2>2, <2>3, Processes DEF Moves
  <2>5. Stays(p)
    BY <1>3 DEF Stays, Asked, Embryo, Waiting
  <2>6. Users' /\ Bases' /\ ParentsKept
    BY <2>4, UserMoves
  <2>7. Family'
    BY <1>1, <1>7, <2>6, FamilyKept
  <2>8. Asked(p, call)' \/ Sends(p, d)'
    BY <1>4, <1>6, <2>1 DEF Asked, Waiting
  <2>9. MmAt' /\ FsAt' /\ Count'
    <3>1. CASE Sends(p, d)' /\ Same(d)
      <4>1. Same(MM) /\ Same(FS)
        BY <1>2, <1>10, <2>1, <3>1, Processes
      <4> QED BY <2>4, <2>5, <4>1, UserAlone
    <3>2. CASE (Waits(d, p) \/ Waits(d, ANY)) /\ Free(p)' /\ Free(d)' /\ buf'[d] = buf'[p]
      <4>0. \A x : Served(x, p)
        BY <2>5 DEF Served
      <4>1. ~ Sends(p, d)' /\ mm' = mm /\ filp' = filp /\ fd_cnt' = fd_cnt
        BY <1>7, <3>2, Words DEF Free, Sends
      <4>2. CASE d = MM
        <5>1. pc[MM] = "find" /\ pc'[MM] = "find" /\ Same(FS) /\ call = "FORK"
          BY <1>1, <1>2, <1>4, <1>5, <1>9, <2>1, <3>2, <4>2, MmAsleep, Processes
        <5>2. MmAt'
          <6>1. buf'[MM].source = p
            BY <2>1, <3>2, <4>2
          <6>2. Asked(buf[MM].source, "FORK")'
            BY <2>8, <4>1, <4>2, <5>1, <6>1
          <6> QED BY <3>2, <4>2, <5>1, <6>2 DEF MmAt, MmIdle
        <5>3. FsAt'
          BY <2>4, <4>0, <5>1, FsServes DEF FsForMm
        <5>4. Count'
          BY <1>1, <4>1, <5>1, CountKept DEF Uncounted
        <5> QED BY <5>2, <5>3, <5>4
      <4>3. CASE d = FS
        <5>1. pc[FS] = "handle" /\ pc'[FS] = "handle" /\ Same(MM) /\ call = "FILE"
          BY <1>1, <1>2, <1>4, <1>5, <1>9, <2>1, <3>2, <4>3, FsAsleep, Processes
        <5>2. ~ Free(FS) /\ ~ Sends(FS, MM) /\ ~ Sends(FS, MM)'
          BY <3>2, <4>3, OneState, Words DEF Free, Sends
        <5>3. pc'[MM] = pc[MM] /\ (Free(MM)' <=> Free(MM))
          BY <2>4, <5>1, SameState DEF Moves
        <5>4. FsAt'
          <6>1. buf'[FS].source = p /\ buf'[FS].type.type = "FILE"
            BY <1>11, <2>1, <3>2, <4>3, <5>1
          <6>2. Asked(buf[FS].source, "FILE")'
            BY <2>8, <4>1, <4>3, <5>1, <6>1
          <6>3. FsHas(buf[FS].source)'
            BY <3>2, <4>3, <5>1 DEF FsHas
          <6> QED BY <6>1, <6>2, <6>3 DEF FsAt
        <5>5. MmAt'
          BY <2>4, <4>0, <5>1, <5>2, MmServes DEF FsHas
        <5>6. Count'
          BY <1>1, <4>1, <5>2, <5>3, CountKept DEF Uncounted
        <5> QED BY <5>4, <5>5, <5>6
      <4> QED BY <1>10, <4>2, <4>3
    <3> QED BY <2>1, <3>1, <3>2
  <2> QED BY <1>8, <1>14, <2>1, <2>6, <2>7, <2>9 DEF IInv, ForkInv
<1> QED BY <1>13, <1>14

\* p has called MM or FS and comes to its RECEIVE.
LEMMA UserReceiveKeeps ==
    ASSUME ForkInv, halted = "no", NEW p \in User, UserReceive(p)
    PROVE  IInv'
<1>1. CallsTyped /\ ImageTyped /\ Queues /\ Users /\ Bases /\ Family /\ Count /\ MmAt /\ FsAt
  BY DEF ForkInv
<1>2. p \in Proc /\ p # MM /\ p # FS
  BY Processes
<1>3. pc[p] = "receive" /\ Free(p) /\ Used(p)
  BY Start, OneState DEF UserReceive
<1>4. /\ pc' \in [Proc -> Label] /\ pc'[p] = "return"
      /\ \A q \in Proc \ {p} : pc'[q] = pc[q]
  BY <1>1, <1>2, Jump DEF UserReceive, Label
<1>5. UNCHANGED <<op, ret, base, parent, filp, fd_cnt, mm>>
  BY DEF UserReceive, files
<1>6. op[p] \in {"FORK", "FILE"}
  BY <1>1, <1>3 DEF Users, UserOk, UserAt
<1>7. ImageTyped'
  BY <1>1, <1>4, <1>5 DEF ImageTyped
<1>8. PICK d : d = Server(p)
  OBVIOUS
<1>9. d \in Proc \ {p} /\ d # ANY /\ (op[p] = "FORK" => d = MM) /\ (op[p] = "FILE" => d = FS)
  BY <1>2, <1>6, <1>8, Processes DEF Server
<1>10. ParentsKept /\ Family'
  BY <1>1, <1>5, FamilyKept DEF ParentsKept
<1>11. CASE Kernel!Halt("assert")
  <2>1. halted' # "no" /\ flags' = flags
    BY <1>11 DEF Kernel!Halt
  <2>2. ForkComplete'
    BY <1>2, <1>4, <1>5, <2>1, Processes, Complete, Stopping
  <2> QED BY <2>1, <2>2 DEF IInv
<1>12. CASE Kernel!Receive(p, d)
  <2>1. /\ halted' = "no" /\ CallsTyped' /\ Queues'
        /\ \/ \E e \in Proc \ {p} :
                 /\ Sends(e, p) /\ d \in {e, ANY}
                 /\ Free(e)' /\ Free(p)' /\ buf'[p] = buf[e] /\ buf'[e] = buf[e]
                 /\ \A q \in Proc \ {e, p} : Same(q)
           \/ /\ \A e \in Proc : Sends(e, p) => d \notin {e, ANY}
              /\ Waits(p, d)' /\ \A q \in Proc \ {p} : Same(q)
    BY <1>1, <1>2, <1>9, <1>12, Receiving
  <2>2. CASE Waits(p, d)' /\ \A q \in Proc \ {p} : Same(q)
    <3>1. \A u \in User \ {p} : SameUser(u)
      BY <1>4, <1>5, <2>2, Processes DEF SameUser
    <3>2. UserAt(p)' /\ Used(p)'
      BY <1>4, <1>5, <1>6, <2>2, Words DEF UserAt, Used, Waits, Free
    <3>3. Moves(p)
      BY <1>2, <1>3, <1>4, <1>5, <3>1, <3>2, Processes DEF Moves
    <3>4. Stays(p)
      <4>1. Waiting(p)'
        BY <1>4, <2>2 DEF Waiting, Waits
      <4>2. Embryo(p) => Embryo(p)'
        BY <1>4, <1>5, <2>2 DEF Embryo, Waits
      <4> QED BY <1>4, <1>5, <4>1, <4>2 DEF Stays, Asked
    <3>5. Same(MM) /\ Same(FS)
      BY <1>2, <2>2, Processes
    <3> QED BY <1>7, <1>10, <2>1, <3>3, <3>4, <3>5, UserMoves, UserAlone DEF IInv, ForkInv
  <2>3. CASE \E e \in Proc \ {p} :
                 /\ Sends(e, p) /\ d \in {e, ANY}
                 /\ Free(e)' /\ Free(p)' /\ buf'[p] = buf[e] /\ buf'[e] = buf[e]
                 /\ \A q \in Proc \ {e, p} : Same(q)
    <3>1. /\ Sends(d, p)
          /\ Free(d)' /\ Free(p)' /\ buf'[p] = buf[d] /\ buf'[d] = buf[d]
          /\ \A q \in Proc \ {d, p} : Same(q)
      BY <1>9, <2>3
    <3>2. \A u \in User \ {p} : SameUser(u)
      BY <1>4, <1>5, <1>6, <1>9, <3>1, Processes DEF SameUser
    <3>3. ~ Free(d) /\ ~ Sends(p, MM)' /\ ~ Sends(d, MM)' /\ d \in {MM, FS}
      BY <1>6, <1>9, <3>1, OneState, Words DEF Free, Sends
    <3>4. op[p] = "FORK" => Answers(buf[MM].type, p) /\ (pc[MM] = "receive" \/ (pc[MM] = "reply" /\ mm.child = p /\ MmReplies /\ mm.retval = 0))
      <4> SUFFICES ASSUME op[p] = "FORK"
                   PROVE  Answers(buf[MM].type, p) /\ (pc[MM] = "receive" \/ (pc[MM] = "reply" /\ mm.child = p /\ MmReplies /\ mm.retval = 0))
        OBVIOUS
      <4>1. Sends(MM, p) /\ p # FS
        BY <1>2, <1>9, <3>1
      <4>2. \/ pc[MM] = "receive" /\ Answers(buf[MM].type, p)
            \/ pc[MM] = "reply" /\ p = mm.child /\ buf[MM].type = Msg("SYSCALL_RET", 0, 0) /\ MmReplies /\ mm.retval = 0
        BY <1>1, <4>1, MmAsleep
      <4>3. MmReplies /\ mm.retval = 0 => mm.child \in Slot
        BY DEF MmReplies
      <4>4. buf[MM].type = Msg("SYSCALL_RET", 0, 0) /\ p \in Slot => Answers(buf[MM].type, p)
        BY DEF Answers, Msg
      <4> QED BY <4>2, <4>3, <4>4
    <3>5. UserAt(p)' /\ Used(p)'
      <4>1. flags'[p] # {SENDING} /\ Used(p)'
        BY <3>1, Words DEF Free, Used
      <4>2. op[p] = "FORK" => Answers(buf[p].type, p)'
        <5>1. PICK t : t = buf[MM].type
          OBVIOUS
        <5>2. op[p] = "FORK" => buf'[p].type = t
          BY <1>9, <3>1, <5>1
        <5> QED BY <1>10, <3>4, <5>1, <5>2, AnswersKept
      <4> QED BY <1>4, <1>5, <1>6, <4>1, <4>2 DEF UserAt
    <3>6. Moves(p)
      BY <1>2, <1>3, <1>4, <1>5, <3>2, <3>5, Processes DEF Moves
    <3>7. pc'[MM] = pc[MM] /\ pc'[FS] = pc[FS]
      BY <3>6 DEF Moves
    <3>8. CASE op[p] = "FORK"
      <4>1. d = MM /\ Same(FS)
        BY <1>2, <1>9, <3>1, <3>8, Processes
      <4>2. mm.src # p \/ pc[MM] = "receive"
        BY <3>4, <3>8 DEF MmReplies
      <4>3. MmAt'
        <5>1. CASE pc[MM] = "receive"
          BY <3>1, <3>7, <4>1, <5>1 DEF MmAt, MmIdle
        <5>2. CASE pc[MM] = "reply" /\ mm.child = p /\ MmReplies /\ mm.retval = 0
          <6>1. PICK x : x = mm.src
            OBVIOUS
          <6>2. Asked(x, "FORK") /\ x # p /\ mm'.src = x
            BY <1>5, <4>2, <5>2, <6>1 DEF MmReplies
          <6>3. Asked(mm.src, "FORK")'
            BY <3>6, <6>2, UserMoves
          <6> QED BY <1>5, <3>1, <3>7, <4>1, <5>2, <6>3 DEF MmAt, MmReplies
        <5> QED BY <3>4, <3>8, <5>1, <5>2
      <4>4. FsAt'
        <5>1. ~ (pc[MM] = "await") /\ ~ FsForMm
          BY <3>4, <3>8 DEF FsForMm
        <5>2. ~ Asked(buf[FS].source, "FILE") \/ Served(buf[FS].source, p)
          BY <3>8 DEF Asked, Served
        <5> QED BY <3>6, <4>1, <5>1, <5>2, FsServes
      <4>5. Count'
        BY <1>1, <1>5, <3>4, <3>7, <3>8, CountKept DEF Uncounted
      <4> QED BY <1>7, <1>10, <2>1, <3>6, <4>3, <4>4, <4>5, UserMoves DEF IInv, ForkInv
    <3>9. CASE op[p] = "FILE"
      <4>1. d = FS /\ Same(MM)
        BY <1>2, <1>9, <3>1, <3>9, Processes
      <4>2. pc[FS] = "receive" /\ ~ Sends(FS, MM)
        BY <1>1, <1>2, <3>1, <4>1, FsAsleep, OneState
      <4>3. FsAt'
        BY <3>1, <3>7, <4>1, <4>2 DEF FsAt
      <4>4. MmAt'
        <5>1. \A x : Served(x, p) \/ ~ Asked(x, "FORK")
          BY <3>9 DEF Asked, Served
        <5>2. Served(mm.child, p) \/ ~ Embryo(mm.child)
          BY <3>9 DEF Embryo, Served
        <5> QED BY <3>6, <4>1, <4>2, <5>1, <5>2, MmServes DEF FsHas
      <4>5. Count'
        BY <1>1, <1>5, <3>3, <3>7, <4>1, <4>2, SameState, CountKept DEF Uncounted
      <4> QED BY <1>7, <1>10, <2>1, <3>6, <4>3, <4>4, <4>5, UserMoves DEF IInv, ForkInv
    <3> QED BY <1>6, <3>8, <3>9
  <2> QED BY <2>1, <2>2, <2>3
<1> QED BY <1>8, <1>11, <1>12 DEF UserReceive

\* p goes back to its SEND, by the stack.
LEMMA ReturnToSendKeeps ==
    ASSUME ForkInv, halted = "no", NEW p \in User, ReturnToSend(p)
    PROVE  IInv'
<1>1. CallsTyped /\ ImageTyped /\ Queues /\ Users /\ Bases /\ Family
  BY DEF ForkInv
<1>2. p \in Proc /\ p # MM /\ p # FS
  BY Processes
<1>3. pc[p] = "return" /\ Free(p) /\ Used(p)
  BY Start, OneState DEF ReturnToSend
<1>4. /\ pc' \in [Proc -> Label] /\ pc'[p] = "receive"
      /\ \A q \in Proc \ {p} : pc'[q] = pc[q]
  BY <1>1, <1>2, Jump DEF ReturnToSend, Label
<1>5. UNCHANGED <<op, ret, base, parent, filp, fd_cnt, mm>>
  BY DEF ReturnToSend, files, image
<1>6. UNCHANGED <<flags, p_msg, recv_from, send_to, has_int_msg, q_sending, buf, halted>>
  BY DEF ReturnToSend, ipcVars
<1>7. ImageTyped' /\ CallsTyped' /\ Queues'
  BY <1>1, <1>4, <1>5, <1>6, NoCall DEF ImageTyped, CallsTyped
<1>8. \A q : Same(q)
  BY <1>6 DEF Same
<1>9. \A u \in User \ {p} : SameUser(u)
  BY <1>4, <1>5, <1>8, Processes DEF SameUser
<1>10. UserAt(p)' /\ Used(p)'
  BY <1>1, <1>3, <1>4, <1>5, <1>6, Words DEF Users, UserOk, UserAt, Used, Free
<1>11. Moves(p)
  BY <1>2, <1>3, <1>4, <1>5, <1>9, <1>10, Processes DEF Moves
<1>12. Stays(p)
  BY <1>3, Words DEF Stays, Asked, Embryo, Waiting, Free
<1>13. Family'
  BY <1>1, <1>5, <1>11, UserMoves, FamilyKept
<1> QED BY <1>6, <1>7, <1>8, <1>11, <1>12, <1>13, UserMoves, UserAlone DEF IInv, ForkInv

\* p leaves the stub: who is told of a child is its parent, and who is told 0
\* is not the first process.
LEMMA UserReturnKeeps ==
    ASSUME ForkInv, halted = "no", NEW p \in User, UserReturn(p)
    PROVE  IInv'
<1>1. CallsTyped /\ ImageTyped /\ Queues /\ Users /\ Bases /\ Family
  BY DEF ForkInv
<1>2. p \in Proc /\ p # MM /\ p # FS /\ p # NO_TASK
  BY Processes
<1>3. pc[p] = "return" /\ Free(p) /\ Used(p)
  BY Start, OneState DEF UserReturn
<1>4. PICK m : m = buf[p].type
  OBVIOUS
<1>5. PICK l \in {"run", "failed"} : Goto(p, l)
  BY DEF UserReturn
<1>6. /\ pc' \in [Proc -> Label] /\ pc'[p] \in {"run", "failed"}
      /\ \A q \in Proc \ {p} : pc'[q] = pc[q]
  BY <1>1, <1>2, <1>5, Jump DEF Label
<1>7. UNCHANGED <<flags, p_msg, recv_from, send_to, has_int_msg, q_sending, halted>>
  BY DEF UserReturn
<1>8. UNCHANGED <<base, parent, filp, fd_cnt, mm>>
  BY DEF UserReturn, files
<1>9. /\ op' \in [User -> {"FORK", "FILE", "none"}]
      /\ \A u \in User \ {p} : op'[u] = op[u]
  BY <1>1 DEF UserReturn, ImageTyped
<1>10. m.pid \in Slot \cup {0}
  BY <1>1, <1>2, <1>4 DEF CallsTyped, Message, Type
<1>11. \/ ret' = [ret EXCEPT ![p] = m.pid] /\ op[p] = "FORK" /\ m.retval = 0
       \/ ret' = ret
  BY <1>4 DEF UserReturn
<1>12. /\ ret' \in [User -> Slot \cup {0, NO_TASK}]
       /\ \A u \in User \ {p} : ret'[u] = ret[u]
       /\ ret'[p] = ret[p] \/ (ret'[p] = m.pid /\ op[p] = "FORK" /\ m.retval = 0)
  BY <1>1, <1>10, <1>11 DEF ImageTyped
<1>13. /\ buf' \in [Proc -> Message]
       /\ \A q \in Proc \ {p} : buf'[q] = buf[q]
  <2>1. Blank(p) \in Message
    BY <1>2 DEF Blank, Message, Msg, Type
  <2>2. buf' = [buf EXCEPT ![p] = Blank(p)]
    BY DEF UserReturn
  <2> QED BY <1>1, <2>1, <2>2 DEF CallsTyped
<1>14. ImageTyped' /\ CallsTyped' /\ Queues'
  BY <1>1, <1>6, <1>7, <1>8, <1>9, <1>12, <1>13, NoCall DEF ImageTyped
<1>15. \A q \in Proc \ {p} : Same(q)
  BY <1>7, <1>13 DEF Same
<1>16. \A u \in User \ {p} : SameUser(u)
  BY <1>6, <1>8, <1>9, <1>12, <1>15, Processes DEF SameUser
<1>17. UserAt(p)' /\ Used(p)'
  BY <1>3, <1>6, <1>7, Words DEF UserAt, Used, Free
<1>18. Moves(p)
  BY <1>2, <1>3, <1>6, <1>8, <1>16, <1>17, Processes DEF Moves
<1>19. Stays(p)
  BY <1>3, Words DEF Stays, Asked, Embryo, Waiting, Free
<1>20. Same(MM) /\ Same(FS)
  BY <1>2, <1>15, Processes
<1>21. Family'
  <2>1. op[p] = "FORK" => Answers(m, p)
    BY <1>1, <1>3, <1>4 DEF Users, UserOk, UserAt
  <2>2. ASSUME NEW u \in User, ret'[u] \in Slot PROVE parent'[ret'[u]] = u
    <3>1. CASE ret'[u] = ret[u]
      BY <1>1, <1>8, <2>2, <3>1 DEF Family
    <3>2. CASE u = p /\ ret'[p] = m.pid /\ op[p] = "FORK" /\ m.retval = 0
      <4>1. 0 \notin Slot
        BY ForkAssumption
      <4> QED BY <1>8, <2>1, <2>2, <3>2, <4>1 DEF Answers
    <3> QED BY <1>12, <3>1, <3>2
  <2>3. ret'[InitProc] # 0
    <3>1. CASE ret'[InitProc] = ret[InitProc]
      BY <1>1, <3>1 DEF Family
    <3>2. CASE p = InitProc /\ ret'[p] = m.pid /\ op[p] = "FORK" /\ m.retval = 0
      <4>1. 0 \notin Slot
        BY ForkAssumption
      <4> QED BY <2>1, <3>2, <4>1, Processes DEF Answers
    <3> QED BY <1>12, <3>1, <3>2, Processes
  <2> QED BY <2>2, <2>3 DEF Family
<1> QED BY <1>7, <1>14, <1>18, <1>19, <1>20, <1>21, UserMoves, UserAlone DEF IInv, ForkInv

-----------------------------------------------------------------------------
(***************************************************************************)
(* Steps of FS.                                                            *)
(***************************************************************************)

\* A step of a task that copies nothing and deals with x at most.
Attends(x) ==
    /\ UNCHANGED <<op, ret, parent, filp>>
    /\ \A u \in User : pc'[u] = pc[u] /\ (u # x => Same(u))
    /\ x \in User => UserOk(x)' /\ (Used(x)' <=> Used(x))

\* All processes but x stand still.
LEMMA Attending ==
    ASSUME ForkInv, NEW x, Attends(x)
    PROVE  /\ Users' /\ Family' /\ ParentsKept
           /\ \A u \in User : Used(u)' <=> Used(u)
           /\ \A u \in User \ {x} : SameUser(u)
           /\ \A u : \A c : u # x /\ Asked(u, c) => Asked(u, c)'
           /\ mm' = mm /\ mm.child # x /\ Embryo(mm.child) => Embryo(mm.child)'
<1>1. ParentsKept
  BY DEF Attends, ParentsKept
<1>2. \A u \in User \ {x} : SameUser(u)
  BY DEF Attends, SameUser
<1>3. ASSUME NEW u \in User PROVE UserOk(u)' /\ (Used(u)' <=> Used(u))
  <2>1. CASE u = x
    BY <2>1 DEF Attends
  <2>2. CASE u # x
    <3>1. SameUser(u) /\ UserOk(u)
      BY <1>2, <2>2 DEF ForkInv, Users
    <3> QED BY <1>1, <3>1, UserKept, SameState DEF SameUser
  <2> QED BY <2>1, <2>2
<1>4. Family'
  BY <1>1, FamilyKept DEF ForkInv, Attends
<1>5. ASSUME NEW u, NEW c, u # x, Asked(u, c) PROVE Asked(u, c)'
  <2>1. u \in User \ {x}
    BY <1>5 DEF Asked
  <2> QED BY <1>2, <1>5, <2>1, WaitingKept
<1>6. mm' = mm /\ mm.child # x /\ Embryo(mm.child) => Embryo(mm.child)'
  <2>1. PICK c : c = mm.child
    OBVIOUS
  <2>2. SUFFICES ASSUME mm' = mm, c # x, Embryo(c) PROVE Embryo(c)'
    BY <2>1
  <2>3. SameUser(c)
    BY <1>2, <2>2, Processes DEF Embryo
  <2> QED BY <2>2, <2>3 DEF Embryo, SameUser, Same
<1> QED BY <1>1, <1>2, <1>3, <1>4, <1>5, <1>6 DEF Users

\* A child MM is done with has its own memory.
LEMMA BasesStay ==
    ASSUME Bases, base' = base, \A u \in User : Used(u)' <=> Used(u),
           \A u \in User : Elsewhere(u) => Elsewhere(u)'
    PROVE  Bases'
  BY DEF Bases

\* Of a server's question to a client or back: MM keeps its place.
LEMMA MmUndisturbed ==
    ASSUME ForkInv, NEW x, Attends(x), Same(MM), pc'[MM] = pc[MM], mm' = mm, base' = base,
           x \in User => op[x] = "FILE",
           FsHas(MM) => FsHas(MM)', Sends(FS, MM)' <=> Sends(FS, MM)
    PROVE  MmAt' /\ Bases' /\ (Uncounted' <=> Uncounted)
<1>1. MmAt /\ Bases
  BY DEF ForkInv
<1>2. mm' = mm /\ filp' = filp /\ parent' = parent /\ ParentsKept
  BY Attending DEF Attends
<1>3. /\ Asked(mm.src, "FORK") => Asked(mm.src, "FORK")'
      /\ Asked(buf[MM].source, "FORK") => Asked(buf[MM].source, "FORK")'
  <2>1. PICK y : y = mm.src
    OBVIOUS
  <2>2. PICK z : z = buf[MM].source
    OBVIOUS
  <2>3. mm'.src = y /\ buf'[MM].source = z
    BY <1>2, <2>1, <2>2 DEF Same
  <2>4. \A u : Asked(u, "FORK") => u # x
    BY DEF Asked
  <2> QED BY <2>1, <2>2, <2>3, <2>4, Attending
<1>4. Embryo(mm.child) => Embryo(mm.child)'
  <2>1. Embryo(mm.child) => mm.child # x
    BY Processes DEF Embryo
  <2> QED BY <1>2, <2>1, Attending
<1>5. Asked(mm.src, "FORK") /\ Copied(mm.child) => Copied(mm.child)'
  <2>1. PICK c : c = mm.child
    OBVIOUS
  <2>2. PICK y : y = mm.src
    OBVIOUS
  <2>3. mm'.child = c /\ mm'.src = y
    BY <1>2, <2>1, <2>2
  <2>4. SUFFICES ASSUME Asked(y, "FORK"), Copied(c) PROVE Copied(c)'
    BY <2>1, <2>2, <2>3
  <2>5. c # x /\ c \in User /\ y \in User
    BY <2>4, Processes DEF Copied, Asked
  <2>6. SameUser(c) /\ pc'[y] = pc[y]
    BY <2>5, Attending DEF Attends
  <2> QED BY <2>2, <2>3, <2>4, <2>6 DEF Copied, SameUser, Same
<1>6. MmAt'
  BY <1>1, <1>2, <1>3, <1>4, <1>5, MmKept
<1>7. Bases'
  BY <1>1, <1>2, Attending, BasesStay DEF Elsewhere
<1>8. Uncounted' <=> Uncounted
  BY SameState DEF Uncounted
<1> QED BY <1>6, <1>7, <1>8

\* The next request, of MM or of a process.
LEMMA FsReceiveKeeps ==
    ASSUME ForkInv, halted = "no", FsReceive
    PROVE  IInv'
<1>1. CallsTyped /\ ImageTyped /\ Queues /\ Users /\ Bases /\ Family /\ Count /\ MmAt /\ FsAt
  BY DEF ForkInv
<1>2. pc[FS] = "receive" /\ Free(FS)
  BY Start DEF FsReceive
<1>3. /\ pc' \in [Proc -> Label] /\ pc'[FS] = "handle"
      /\ \A q \in Proc \ {FS} : pc'[q] = pc[q]
  BY <1>1, Processes, Jump DEF FsReceive, Label
<1>4. UNCHANGED <<op, ret, base, parent, filp, fd_cnt, mm>>
  BY DEF FsReceive, files, image
<1>5. ImageTyped'
  BY <1>1, <1>3, <1>4 DEF ImageTyped
<1>6. /\ halted' = "no" /\ CallsTyped' /\ Queues'
      /\ \/ \E e \in Proc \ {FS} :
               /\ Sends(e, FS)
               /\ Free(e)' /\ Free(FS)' /\ buf'[FS] = buf[e] /\ buf'[e] = buf[e]
               /\ \A q \in Proc \ {e, FS} : Same(q)
         \/ Waits(FS, ANY)' /\ \A q \in Proc \ {FS} : Same(q)
  BY <1>1, Processes, Receiving DEF FsReceive
<1>7. pc'[MM] = pc[MM] /\ \A u \in User : pc'[u] = pc[u]
  BY <1>3, Processes
<1>8. ~ FsHas(MM) /\ ~ Sends(FS, MM)
  BY <1>2, OneState DEF FsHas
<1>9. CASE Waits(FS, ANY)' /\ \A q \in Proc \ {FS} : Same(q)
  <2>1. Same(MM) /\ \A u \in User : Same(u)
    BY <1>9, Processes
  <2>2. Attends(FS)
    BY <1>4, <1>7, <2>1, Processes DEF Attends
  <2>3. ~ Sends(FS, MM)'
    BY <1>9, Words DEF Sends, Waits
  <2>4. MmAt' /\ Bases' /\ (Uncounted' <=> Uncounted)
    BY <1>4, <1>7, <1>8, <2>1, <2>2, <2>3, Processes, MmUndisturbed
  <2>5. FsAt'
    BY <1>3, <1>9 DEF FsAt
  <2>6. Count'
    BY <1>1, <1>4, <2>4, CountKept
  <2> QED BY <1>5, <1>6, <2>2, <2>4, <2>5, <2>6, Attending DEF IInv, ForkInv
<1>10. ASSUME NEW e \in Proc \ {FS}, Sends(e, FS),
              Free(e)', Free(FS)', buf'[FS] = buf[e], buf'[e] = buf[e],
              \A q \in Proc \ {e, FS} : Same(q)
       PROVE  IInv'
  <2>1. ~ Sends(FS, MM)'
    BY <1>10, AwakeNext
  <2>2. CASE e = MM
    <3>1. pc[MM] = "await" /\ ForkOf(buf[MM]) /\ MmPrepares
      BY <1>1, <1>10, <2>2, MmAsleep, Processes
    <3>2. Attends(MM)
      BY <1>4, <1>7, <1>10, <2>2, Processes DEF Attends
    <3>3. FsHas(MM)' /\ ForkOf(buf[FS])' /\ FsForMm'
      BY <1>3, <1>4, <1>7, <1>10, <2>2, <3>1 DEF FsHas, ForkOf, FsForMm
    <3>4. MmAt'
      <4>1. Asked(mm.src, "FORK")'
        <5>1. PICK y : y = mm.src
          OBVIOUS
        <5>2. mm'.src = y /\ Asked(y, "FORK") /\ y # MM
          BY <1>4, <3>1, <5>1, Processes DEF MmPrepares, Asked
        <5> QED BY <3>2, <5>2, Attending
      <4>2. Embryo(mm.child)'
        <5>1. Embryo(mm.child) /\ mm.child # MM
          BY <3>1, Processes DEF MmPrepares, Embryo
        <5> QED BY <1>4, <3>2, <5>1, Attending
      <4>3. mm'.retval = 0 /\ parent'[mm'.child] = mm'.src
        BY <1>4, <3>1 DEF MmPrepares
      <4> QED BY <1>7, <1>10, <2>2, <3>1, <3>3, <4>1, <4>2, <4>3 DEF MmAt, MmPrepares
    <3>5. FsAt'
      BY <3>3 DEF FsAt
    <3>6. Bases'
      BY <1>1, <1>4, <1>7, <3>2, Attending, BasesStay DEF Elsewhere
    <3>7. Count'
      BY <1>1, <1>4, <1>7, <1>8, <2>1, <3>1, CountKept DEF Uncounted
    <3> QED BY <1>5, <1>6, <3>2, <3>4, <3>5, <3>6, <3>7, Attending DEF IInv, ForkInv
  <2>3. CASE e # MM
    <3>1. e \in User /\ Same(MM) /\ flags[e] = {SENDING} /\ send_to[e] = FS
      BY <1>10, <2>3, Processes DEF Proc, Sends
    <3>2. UserAt(e) /\ Used(e)
      BY <1>1, <3>1, Words DEF Users, UserOk, Used
    <3>3. pc[e] = "receive" /\ op[e] = "FILE" /\ buf[e].source = e /\ buf[e].type.type = "FILE"
      BY <3>1, <3>2, Processes DEF UserAt, Server
    <3>4. UserOk(e)' /\ Used(e)' /\ Asked(e, "FILE")'
      <4>1. Used(e)' /\ flags'[e] # {SENDING}
        BY <1>10, Words DEF Used, Free
      <4> QED BY <1>4, <1>7, <1>10, <3>1, <3>3, <4>1 DEF UserOk, UserAt, Asked, Waiting
    <3>5. Attends(e)
      BY <1>4, <1>7, <1>10, <3>2, <3>4, Processes DEF Attends
    <3>6. MmAt' /\ Bases' /\ (Uncounted' <=> Uncounted)
      BY <1>4, <1>7, <1>8, <2>1, <3>1, <3>3, <3>5, MmUndisturbed
    <3>7. FsAt'
      <4>1. buf'[FS].source = e /\ buf'[FS].type.type = "FILE"
        BY <1>10, <3>3
      <4>2. Asked(buf[FS].source, "FILE")' /\ FsHas(buf[FS].source)'
        BY <1>3, <1>10, <3>4, <4>1 DEF FsHas
      <4> QED BY <4>1, <4>2 DEF FsAt
    <3>8. Count'
      BY <1>1, <1>4, <3>6, CountKept
    <3> QED BY <1>5, <1>6, <3>5, <3>6, <3>7, <3>8, Attending DEF IInv, ForkInv
  <2> QED BY <2>2, <2>3
<1> QED BY <1>6, <1>9, <1>10

\* The files of the child are counted now.
LEMMA CountGrows ==
    ASSUME ImageTyped, Count, MmAt, Uncounted, filp' = filp,
           fd_cnt' = fd_cnt + Counted(mm.child)
    PROVE  /\ fd_cnt' = Cardinality(Open) /\ fd_cnt' \in Int /\ fd_cnt' >= fd_cnt
           /\ fd_cnt \in Int /\ mm.child \in User
<1>1. mm.child \in Slot /\ mm.child \in User
  BY UncountedChild, Processes DEF Embryo
<1>2. fd_cnt = Cardinality(Open \ {mm.child}) /\ fd_cnt \in Int
  BY DEF Count, ImageTyped
<1>3. IsFiniteSet(Open) /\ Cardinality(Open) \in Nat
  BY Finite DEF Open
<1>4. Cardinality(Open \ {mm.child}) = IF mm.child \in Open THEN Cardinality(Open) - 1 ELSE Cardinality(Open)
  BY <1>3, FS_RemoveElement
<1>5. Counted(mm.child) = IF mm.child \in Open THEN 1 ELSE 0
  BY <1>1 DEF Counted, Open
<1> QED BY <1>1, <1>2, <1>3, <1>4, <1>5

\* The answer; of a FORK, the file is counted.
LEMMA FsAnswerKeeps ==
    ASSUME ForkInv, halted = "no", FsAnswer
    PROVE  IInv'
<1>1. CallsTyped /\ ImageTyped /\ Queues /\ Users /\ Bases /\ Family /\ Count /\ MmAt /\ FsAt
  BY DEF ForkInv
<1>2. pc[FS] = "handle" /\ Free(FS)
  BY Start DEF FsAnswer
<1>3. /\ pc' \in [Proc -> Label] /\ pc'[FS] = "receive"
      /\ \A q \in Proc \ {FS} : pc'[q] = pc[q]
  BY <1>1, Processes, Jump DEF FsAnswer, Label
<1>4. UNCHANGED <<op, ret, base, parent, filp, mm>>
  BY DEF FsAnswer, image
<1>5. PICK x : x = buf[FS].source
  OBVIOUS
<1>6. \/ x = MM /\ FsHas(MM) /\ ForkOf(buf[FS]) /\ FsForMm
      \/ x \in User /\ Asked(x, "FILE") /\ buf[FS].type.type = "FILE"
  BY <1>1, <1>2, <1>5, OneState DEF FsAt, Asked, FsHas
<1>7. x \in Proc \ {FS}
  BY <1>6, Processes
<1>8. Msg("SYSCALL_RET", 0, 0) \in Type
  BY DEF Msg, Type
<1>9. Kernel!Send(FS, x, Msg("SYSCALL_RET", 0, 0))
  BY <1>5 DEF FsAnswer
<1>10. \/ halted' # "no" /\ flags' = flags
       \/ /\ halted' = "no" /\ CallsTyped' /\ Queues'
          /\ buf'[FS].source = FS /\ buf'[FS].type = Msg("SYSCALL_RET", 0, 0)
          /\ \A q \in Proc \ {FS, x} : Same(q)
          /\ \/ (Waits(x, FS) \/ Waits(x, ANY)) /\ Free(FS)' /\ Free(x)'
             \/ ~ Waits(x, FS) /\ ~ Waits(x, ANY) /\ Sends(FS, x)' /\ Same(x)
  BY <1>1, <1>7, <1>8, <1>9, Processes, Sending
<1>11. pc'[MM] = pc[MM] /\ \A u \in User : pc'[u] = pc[u]
  BY <1>3, Processes
<1>12. ~ Sends(FS, MM)
  BY <1>2, OneState
<1>13. CASE x = MM
  <2>1. FsHas(MM) /\ ForkOf(buf[FS]) /\ FsForMm
    BY <1>6, <1>13, Processes
  <2>2. Uncounted /\ pc[MM] # "receive" /\ pc[MM] \in {"await", "child"}
    BY <1>12, <2>1, OneState DEF Uncounted, FsForMm
  <2>3. fd_cnt' = fd_cnt + Counted(mm.child)
    BY <2>1 DEF FsAnswer, ForkOf, Msg
  <2>4. fd_cnt' = Cardinality(Open) /\ fd_cnt' \in Int /\ fd_cnt' >= fd_cnt /\ fd_cnt \in Int
    BY <1>1, <1>4, <2>2, <2>3, CountGrows
  <2>5. ImageTyped'
    BY <1>1, <1>3, <1>4, <2>4 DEF ImageTyped
  <2>6. CASE halted' # "no"
    <3>1. flags' = flags
      BY <1>10, <2>6
    <3>2. ForkComplete
      BY Complete
    <3>3. {p \in User : Grown(p) /\ filp[p]}' = {p \in User : Grown(p) /\ filp[p]}
      BY <1>4 DEF Grown
    <3>4. Cardinality({p \in User : Grown(p) /\ filp[p]}) \in Nat
      <4>1. {p \in User : Grown(p) /\ filp[p]} \in SUBSET User
        OBVIOUS
      <4> QED BY <4>1, Finite
    <3>5. fd_cnt' >= Cardinality({p \in User : Grown(p) /\ filp[p]})
      BY <2>4, <3>2, <3>4 DEF ForkComplete
    <3>6. ForkComplete'
      BY <1>4, <1>11, <2>2, <3>1, <3>2, <3>3, <3>5 DEF ForkComplete, Grown
    <3> QED BY <2>6, <3>6 DEF IInv
  <2>7. CASE halted' = "no"
    <3>1. Attends(MM)
      BY <1>4, <1>10, <1>11, <1>13, <2>7, Processes DEF Attends
    <3>2. MmPrepares
      <4>1. ~ MmIdle /\ ~ MmCopies /\ ~ MmReplies
        BY <2>2 DEF MmIdle, MmCopies, MmReplies
      <4> QED BY <1>1, <4>1 DEF MmAt
    <3>3. /\ Asked(mm.src, "FORK")' /\ Embryo(mm.child)'
          /\ mm'.retval = 0 /\ parent'[mm'.child] = mm'.src
      <4>1. Asked(mm.src, "FORK")'
        <5>1. PICK y : y = mm.src
          OBVIOUS
        <5>2. mm'.src = y /\ Asked(y, "FORK") /\ y # MM
          BY <1>4, <3>2, <5>1, Processes DEF MmPrepares, Asked
        <5> QED BY <3>1, <5>2, Attending
      <4>2. Embryo(mm.child)'
        <5>1. Embryo(mm.child) /\ mm.child # MM
          BY <3>2, Processes DEF MmPrepares, Embryo
        <5> QED BY <1>4, <3>1, <5>1, Attending
      <4> QED BY <1>4, <3>2, <4>1, <4>2 DEF MmPrepares
    <3>4. \/ pc[MM] = "child" /\ Free(MM)' /\ Free(FS)'
          \/ pc[MM] = "await" /\ Free(MM)' /\ Sends(FS, MM)'
      <4>1. CASE (Waits(MM, FS) \/ Waits(MM, ANY)) /\ Free(FS)' /\ Free(MM)'
        <5>1. pc[MM] = "child"
          BY <1>1, <2>2, <4>1, MmAsleep
        <5> QED BY <4>1, <5>1
      <4>2. CASE ~ Waits(MM, FS) /\ ~ Waits(MM, ANY) /\ Sends(FS, MM)' /\ Same(MM)
        <5>1. pc[MM] = "await" /\ Free(MM)
          BY <2>1, <4>2 DEF FsForMm
        <5> QED BY <4>2, <5>1, SameState
      <4> QED BY <1>10, <1>13, <2>7, <4>1, <4>2
    <3>5. MmAt' /\ FsAt' /\ ~ Uncounted'
      BY <1>3, <1>11, <3>3, <3>4 DEF MmAt, MmPrepares, FsAt, Uncounted
    <3>6. Count'
      <4>1. Open' = Open
        BY <1>4 DEF Open
      <4> QED BY <2>4, <3>5, <4>1 DEF Count
    <3>7. Bases'
      BY <1>1, <1>4, <1>11, <3>1, Attending, BasesStay DEF Elsewhere
    <3> QED BY <1>10, <2>5, <2>7, <3>1, <3>5, <3>6, <3>7, Attending DEF IInv, ForkInv
  <2> QED BY <2>6, <2>7
<1>14. CASE x # MM
  <2>1. x \in User /\ Asked(x, "FILE") /\ op[x] = "FILE" /\ Waiting(x)
    BY <1>6, <1>14 DEF Asked
  <2>2. fd_cnt' = fd_cnt
    BY <1>6, <1>14 DEF FsAnswer
  <2>3. ImageTyped'
    BY <1>1, <1>3, <1>4, <2>2 DEF ImageTyped
  <2>4. CASE halted' # "no"
    <3>1. ForkComplete'
      BY <1>4, <1>10, <1>11, <2>2, <2>4, Complete, Stopping
    <3> QED BY <2>4, <3>1 DEF IInv
  <2>5. CASE halted' = "no"
    <3>1. Same(MM) /\ \A u \in User \ {x} : Same(u)
      BY <1>10, <1>14, <2>5, Processes
    <3>2. UserAt(x) /\ Used(x)
      BY <1>1, <2>1, Words DEF Users, UserOk, Used, Waiting, Free
    <3>3. UserOk(x)' /\ Used(x)'
      <4>1. CASE Same(x)
        <5>1. SameUser(x)
          BY <1>4, <1>11, <2>1, <4>1 DEF SameUser
        <5>2. ParentsKept
          BY <1>4 DEF ParentsKept
        <5> QED BY <2>1, <3>2, <4>1, <5>1, <5>2, UserKept, SameState DEF UserOk
      <4>2. CASE Free(x)'
        <5>1. Used(x)' /\ flags'[x] # {SENDING}
          BY <4>2, Words DEF Used, Free
        <5> QED BY <1>4, <1>11, <2>1, <3>2, <4>2, <5>1 DEF UserOk, UserAt
      <4> QED BY <1>10, <2>5, <4>1, <4>2
    <3>4. Attends(x)
      BY <1>4, <1>11, <3>1, <3>2, <3>3 DEF Attends
    <3>5. ~ FsHas(MM)
      BY <1>5, <1>14 DEF FsHas
    <3>6. ~ Sends(FS, MM)'
      BY <1>10, <1>14, <2>5, Words DEF Sends, Free
    <3>7. MmAt' /\ Bases' /\ (Uncounted' <=> Uncounted)
      BY <1>4, <1>11, <1>12, <2>1, <3>1, <3>4, <3>5, <3>6, MmUndisturbed
    <3>8. FsAt'
      BY <1>3, <1>10, <2>1, <2>5 DEF FsAt
    <3>9. Count'
      BY <1>1, <1>4, <2>2, <3>7, CountKept
    <3> QED BY <1>10, <2>3, <2>5, <3>4, <3>7, <3>8, <3>9, Attending DEF IInv, ForkInv
  <2> QED BY <2>4, <2>5
<1> QED BY <1>13, <1>14

-----------------------------------------------------------------------------
(***************************************************************************)
(* Steps of MM.                                                            *)
(***************************************************************************)

\* The slot the search of do_fork finds.
LEMMA LeastOf ==
    ASSUME NEW S \in SUBSET Nat, S # {}
    PROVE  Least(S) \in S
<1>1. PICK x \in S : \A y \in S : <<y, x>> \notin OpToRel(<, Nat)
  BY WFMin, NatLessThanWellFounded, Zenon
<1>2. \A y \in S : x <= y
  <2> SUFFICES ASSUME NEW y \in S, y < x PROVE FALSE
    OBVIOUS
  <2>1. <<y, x>> \in OpToRel(<, Nat)
    BY DEF OpToRel
  <2> QED BY <1>1, <2>1, Zenon
<1> HIDE <1>1
<1> QED BY <1>2 DEF Least

\* FS keeps its place when MM is not, or no longer, in its hands.
LEMMA FsUndisturbed ==
    ASSUME ForkInv, Same(FS), pc'[FS] = pc[FS], ~ FsForMm, ~ Sends(FS, MM),
           Asked(buf[FS].source, "FILE") => Asked(buf[FS].source, "FILE")'
    PROVE  FsAt'
  BY FsKept DEF ForkInv

\* What MM's place says.
LEMMA MmPlaces ==
    ASSUME MmAt
    PROVE  /\ pc[MM] = "receive" => MmIdle
           /\ pc[MM] = "find" => MmIdle
           /\ pc[MM] \in {"flags", "pcb"} => MmCopies
           /\ pc[MM] \in {"memory", "ldt", "await", "child"} => MmPrepares
           /\ pc[MM] = "reply" => MmReplies
           /\ Free(MM) /\ pc[MM] = "find" => Asked(buf[MM].source, "FORK")
<1>1. MmIdle => pc[MM] \in {"receive", "find"}
  BY DEF MmIdle
<1>2. MmCopies => pc[MM] \in {"flags", "pcb"}
  BY DEF MmCopies
<1>3. MmPrepares => pc[MM] \in {"memory", "ldt", "await", "child"}
  BY DEF MmPrepares
<1>4. MmReplies => pc[MM] = "reply"
  BY DEF MmReplies
<1>5. MmIdle /\ Free(MM) /\ pc[MM] = "find" => Asked(buf[MM].source, "FORK")
  BY OneState DEF MmIdle
<1> QED BY <1>1, <1>2, <1>3, <1>4, <1>5 DEF MmAt

\* The next request.
LEMMA MmReceiveKeeps ==
    ASSUME ForkInv, halted = "no", MmReceive
    PROVE  IInv'
<1>1. CallsTyped /\ ImageTyped /\ Queues /\ Users /\ Bases /\ Family /\ Count /\ MmAt /\ FsAt
  BY DEF ForkInv
<1>2. pc[MM] = "receive" /\ Free(MM)
  BY Start DEF MmReceive
<1>3. /\ pc' \in [Proc -> Label] /\ pc'[MM] = "find"
      /\ \A q \in Proc \ {MM} : pc'[q] = pc[q]
  BY <1>1, Processes, Jump DEF MmReceive, Label
<1>4. UNCHANGED <<op, ret, base, parent, filp, fd_cnt, mm>>
  BY DEF MmReceive, files, image
<1>5. ImageTyped'
  BY <1>1, <1>3, <1>4 DEF ImageTyped
<1>6. /\ halted' = "no" /\ CallsTyped' /\ Queues'
      /\ \/ \E e \in Proc \ {MM} :
               /\ Sends(e, MM)
               /\ Free(e)' /\ Free(MM)' /\ buf'[MM] = buf[e] /\ buf'[e] = buf[e]
               /\ \A q \in Proc \ {e, MM} : Same(q)
         \/ Waits(MM, ANY)' /\ \A q \in Proc \ {MM} : Same(q)
  BY <1>1, Processes, Receiving DEF MmReceive
<1>7. pc'[FS] = pc[FS] /\ \A u \in User : pc'[u] = pc[u]
  BY <1>3, Processes
<1>8. ~ FsForMm /\ ~ Sends(FS, MM)
  BY <1>1, <1>2, FsAsleep, Processes DEF FsForMm
<1>9. Count'
  BY <1>1, <1>2, <1>3, <1>4, CountKept DEF Uncounted
<1>10. ASSUME NEW x, Attends(x), x \in User => op[x] = "FORK", Same(FS)
       PROVE  FsAt' /\ Bases'
  <2>1. Asked(buf[FS].source, "FILE") => Asked(buf[FS].source, "FILE")'
    <3>1. PICK y : y = buf[FS].source
      OBVIOUS
    <3>2. buf'[FS].source = y
      BY <1>10, <3>1 DEF Same
    <3>3. Asked(y, "FILE") => y # x
      BY <1>10 DEF Asked
    <3> QED BY <1>10, <3>1, <3>2, <3>3, Attending
  <2>2. Bases'
    BY <1>1, <1>2, <1>4, <1>10, Attending, BasesStay DEF Elsewhere
  <2> QED BY <1>7, <1>8, <1>10, <2>1, <2>2, FsUndisturbed
<1>11. CASE Waits(MM, ANY)' /\ \A q \in Proc \ {MM} : Same(q)
  <2>1. Attends(MM) /\ Same(FS)
    BY <1>4, <1>7, <1>11, Processes DEF Attends
  <2>2. MmAt'
    BY <1>3, <1>11 DEF MmAt, MmIdle
  <2>3. MM \notin User
    BY Processes
  <2> QED BY <1>5, <1>6, <1>9, <1>10, <2>1, <2>2, <2>3, Attending DEF IInv, ForkInv
<1>12. ASSUME NEW e \in Proc \ {MM}, Sends(e, MM),
              Free(e)', Free(MM)', buf'[MM] = buf[e], buf'[e] = buf[e],
              \A q \in Proc \ {e, MM} : Same(q)
       PROVE  IInv'
  <2>1. e \in User /\ Same(FS) /\ flags[e] = {SENDING} /\ send_to[e] = MM
    BY <1>8, <1>12, Processes DEF Proc, Sends
  <2>2. UserAt(e) /\ Used(e)
    BY <1>1, <2>1, Words DEF Users, UserOk, Used
  <2>3. pc[e] = "receive" /\ op[e] = "FORK" /\ buf[e].source = e
    BY <2>1, <2>2, Processes DEF UserAt, Server
  <2>4. UserOk(e)' /\ Used(e)' /\ Asked(e, "FORK")'
    <3>1. Used(e)' /\ flags'[e] # {SENDING}
      BY <1>12, Words DEF Used, Free
    <3> QED BY <1>4, <1>7, <1>12, <2>1, <2>3, <3>1 DEF UserOk, UserAt, Asked, Waiting
  <2>5. Attends(e)
    BY <1>4, <1>7, <1>12, <2>2, <2>4, Processes DEF Attends
  <2>6. MmAt'
    <3>1. buf'[MM].source = e
      BY <1>12, <2>3
    <3>2. Asked(buf[MM].source, "FORK")'
      BY <2>4, <3>1
    <3> QED BY <1>3, <1>12, <3>2 DEF MmAt, MmIdle
  <2> QED BY <1>5, <1>6, <1>9, <1>10, <2>1, <2>3, <2>5, <2>6, Attending DEF IInv, ForkInv
<1> QED BY <1>6, <1>11, <1>12

\* No slot is free.
LEMMA MmFullKeeps ==
    ASSUME ForkInv, halted = "no", MmFull
    PROVE  IInv'
<1>1. CallsTyped /\ ImageTyped /\ Queues /\ Users /\ Bases /\ Family /\ Count /\ MmAt /\ FsAt
  BY DEF ForkInv
<1>2. pc[MM] = "find" /\ Free(MM)
  BY Start DEF MmFull
<1>3. /\ pc' \in [Proc -> Label] /\ pc'[MM] = "reply"
      /\ \A q \in Proc \ {MM} : pc'[q] = pc[q]
  BY <1>1, Processes, Jump DEF MmFull, Label
<1>4. UNCHANGED <<op, ret, base, parent, filp, fd_cnt>>
  BY DEF MmFull, files, image
<1>5. UNCHANGED <<flags, p_msg, recv_from, send_to, has_int_msg, q_sending, buf, halted>>
  BY DEF MmFull, ipcVars
<1>6. PICK x : x = buf[MM].source
  OBVIOUS
<1>7. Asked(x, "FORK") /\ x \in User
  BY <1>1, <1>2, <1>6, MmPlaces DEF Asked
<1>8. mm' = [src |-> x, child |-> 0, retval |-> -1]
  BY <1>6 DEF MmFull
<1>9. ImageTyped' /\ CallsTyped' /\ Queues'
  <2>1. mm' \in [src : Proc \cup {NO_TASK}, child : Slot \cup {0}, retval : {0, -1}]
    BY <1>7, <1>8, Processes
  <2>2. ImageTyped'
    BY <1>1, <1>3, <1>4, <2>1 DEF ImageTyped
  <2> QED BY <1>1, <1>5, <2>2, NoCall DEF CallsTyped
<1>10. Same(FS) /\ Free(MM)' /\ Attends(MM) /\ pc'[FS] = pc[FS]
  BY <1>2, <1>3, <1>4, <1>5, Processes DEF Same, Free, Attends
<1>11. Asked(x, "FORK")' /\ (Asked(buf[FS].source, "FILE") => Asked(buf[FS].source, "FILE")')
  <2>1. PICK y : y = buf[FS].source
    OBVIOUS
  <2>2. buf'[FS].source = y
    BY <1>5, <2>1
  <2>3. \A u, c : Asked(u, c) => u # MM
    BY Processes DEF Asked
  <2> QED BY <1>7, <1>10, <2>1, <2>2, <2>3, Attending
<1>12. MmAt'
  BY <1>3, <1>8, <1>10, <1>11 DEF MmAt, MmReplies
<1>13. FsAt'
  <2>1. ~ FsForMm /\ ~ Sends(FS, MM)
    BY <1>1, <1>2, FsAsleep, Processes DEF FsForMm
  <2> QED BY <1>10, <1>11, <2>1, FsUndisturbed
<1>14. Count'
  BY <1>1, <1>2, <1>3, <1>4, CountKept DEF Uncounted
<1>15. Bases'
  BY <1>1, <1>2, <1>4, <1>10, Attending, BasesStay DEF Elsewhere
<1> QED BY <1>5, <1>9, <1>10, <1>12, <1>13, <1>14, <1>15, Attending DEF IInv, ForkInv

\* The slot keeps its FREE_SLOT: registers that nobody runs yet.
LEMMA MmCopyRegsKeeps ==
    ASSUME ForkInv, halted = "no", MmCopyRegs
    PROVE  IInv'
<1>1. CallsTyped /\ ImageTyped /\ Queues /\ Users /\ Bases /\ Family /\ Count /\ MmAt /\ FsAt
  BY DEF ForkInv
<1>2. pc[MM] = "find" /\ Free(MM)
  BY Start DEF MmCopyRegs
<1>3. PICK x : x = buf[MM].source
  OBVIOUS
<1>4. PICK c : c = Least(FreeSlots)
  OBVIOUS
<1>5. Asked(x, "FORK") /\ x \in User /\ op[x] = "FORK" /\ Waiting(x)
  BY <1>1, <1>2, <1>3, MmPlaces DEF Asked
<1>6. c \in Slot /\ c \in User /\ flags[c] = {FREE_SLOT}
  <2>1. FreeSlots \subseteq Slot /\ FreeSlots \in SUBSET Nat /\ FreeSlots # {}
    BY ForkAssumption DEF FreeSlots, MmCopyRegs
  <2>2. c \in Slot /\ FREE_SLOT \in flags[c]
    BY <1>4, <2>1, LeastOf DEF FreeSlots
  <2>3. flags[c] \in Word
    BY <1>1, <2>2, Processes DEF CallsTyped
  <2> QED BY <2>2, <2>3, Words, Processes
<1>7. ~ Waiting(c) /\ c # x /\ c # MM /\ c # FS /\ ~ Used(c)
  BY <1>5, <1>6, Words, Processes DEF Waiting, Free, Used
<1>8. /\ pc' = [pc EXCEPT ![MM] = "flags", ![c] = pc[x]]
      /\ op' = [op EXCEPT ![c] = op[x]]
      /\ base' = [base EXCEPT ![c] = base[x]]
      /\ mm' = [src |-> x, child |-> c, retval |-> 0]
      /\ UNCHANGED <<ret, parent, filp, fd_cnt>>
      /\ UNCHANGED <<flags, p_msg, recv_from, send_to, has_int_msg, q_sending, buf, halted>>
  BY <1>3, <1>4 DEF MmCopyRegs, files, ipcVars
<1>9. /\ pc' \in [Proc -> Label] /\ pc'[MM] = "flags" /\ pc'[c] = pc[x] /\ pc'[x] = pc[x]
      /\ \A q \in Proc \ {MM, c} : pc'[q] = pc[q]
  BY <1>1, <1>5, <1>6, <1>7, <1>8, Processes DEF ImageTyped, Label
<1>10. /\ op'[c] = "FORK" /\ \A u \in User \ {c} : op'[u] = op[u] /\ base'[u] = base[u]
  BY <1>1, <1>5, <1>6, <1>8 DEF ImageTyped
<1>11. ImageTyped' /\ CallsTyped' /\ Queues'
  <2>1. mm' \in [src : Proc \cup {NO_TASK}, child : Slot \cup {0}, retval : {0, -1}]
    BY <1>5, <1>6, <1>8, Processes
  <2>2. ImageTyped'
    BY <1>1, <1>5, <1>6, <1>8, <1>9, <2>1 DEF ImageTyped
  <2> QED BY <1>1, <1>8, <2>2, NoCall DEF CallsTyped
<1>12. \A u \in User \ {c} : SameUser(u)
  BY <1>8, <1>9, <1>10, Processes DEF SameUser, Same
<1>13. ParentsKept /\ Family'
  BY <1>1, <1>8, FamilyKept DEF ParentsKept
<1>14. \A u \in User : Used(u)' <=> Used(u)
  BY <1>8 DEF Used
<1>15. Users'
  <2> SUFFICES ASSUME NEW u \in User PROVE UserOk(u)'
    BY DEF Users
  <2>1. CASE u = c
    BY <1>1, <1>7, <1>8, <1>14, <2>1 DEF Users, UserOk, Unborn
  <2>2. CASE u # c
    BY <1>1, <1>12, <1>13, <2>2, UserKept DEF Users
  <2> QED BY <2>1, <2>2
<1>16. Bases'
  <2>1. \A u \in User : ~ Elsewhere(u) /\ ~ Elsewhere(u)'
    BY <1>2, <1>9 DEF Elsewhere
  <2> QED BY <1>1, <1>7, <1>10, <1>14, <2>1 DEF Bases
<1>17. MmAt'
  <2>1. Asked(x, "FORK")'
    BY <1>5, <1>7, <1>12, WaitingKept
  <2>2. pc[x] \in {"receive", "return"}
    BY <1>5 DEF Waiting
  <2>3. Copied(mm.child)'
    BY <1>6, <1>8, <1>9, <1>10, <2>2 DEF Copied
  <2>4. Free(MM)'
    BY <1>2, <1>8 DEF Free
  <2> QED BY <1>8, <1>9, <2>1, <2>3, <2>4 DEF MmAt, MmCopies
<1>18. FsAt'
  <2>1. ~ FsForMm /\ ~ Sends(FS, MM)
    BY <1>1, <1>2, FsAsleep, Processes DEF FsForMm
  <2>2. Asked(buf[FS].source, "FILE") => Asked(buf[FS].source, "FILE")'
    <3>1. PICK y : y = buf[FS].source
      OBVIOUS
    <3>2. buf'[FS].source = y
      BY <1>8, <3>1
    <3>3. Asked(y, "FILE") => y \in User \ {c}
      BY <1>7 DEF Asked
    <3> QED BY <1>12, <3>1, <3>2, <3>3, WaitingKept
  <2>3. Same(FS) /\ pc'[FS] = pc[FS]
    BY <1>7, <1>8, <1>9, Processes DEF Same
  <2> QED BY <2>1, <2>2, <2>3, FsUndisturbed
<1>19. Count'
  BY <1>1, <1>2, <1>8, <1>9, CountKept DEF Uncounted
<1> QED BY <1>8, <1>11, <1>13, <1>15, <1>16, <1>17, <1>18, <1>19 DEF IInv, ForkInv

\* From here on the child is a process.
LEMMA MmCopyFlagsKeeps ==
    ASSUME ForkInv, halted = "no", MmCopyFlags
    PROVE  IInv'
<1>1. CallsTyped /\ ImageTyped /\ Queues /\ Users /\ Bases /\ Family /\ Count /\ MmAt /\ FsAt
  BY DEF ForkInv
<1>2. pc[MM] = "flags" /\ Free(MM)
  BY Start DEF MmCopyFlags
<1>3. PICK x : x = mm.src
  OBVIOUS
<1>4. PICK c : c = mm.child
  OBVIOUS
<1>5. Asked(x, "FORK") /\ Copied(c) /\ mm.retval = 0 /\ x \in User /\ Waiting(x)
  BY <1>1, <1>2, <1>3, <1>4, MmPlaces DEF MmCopies, Asked
<1>6. c \in Slot /\ c \in User /\ flags[c] = {FREE_SLOT} /\ c # MM /\ c # FS /\ ~ Used(c)
  BY <1>5, Processes DEF Copied, Used
<1>7. x # c /\ flags[x] \in {{}, {RECEIVING}}
  BY <1>5, <1>6, Words DEF Waiting, Free
<1>8. /\ pc' \in [Proc -> Label] /\ pc'[MM] = "pcb"
      /\ \A q \in Proc \ {MM} : pc'[q] = pc[q]
  BY <1>1, Processes, Jump DEF MmCopyFlags, Label
<1>9. UNCHANGED <<op, ret, base, parent, filp, fd_cnt, mm>>
  BY DEF MmCopyFlags, files, image
<1>10. /\ flags' = [flags EXCEPT ![c] = flags[x]]
       /\ UNCHANGED <<recv_from, send_to, has_int_msg, q_sending, buf, halted>>
  BY <1>3, <1>4 DEF MmCopyFlags
<1>11. flags'[c] = flags[x] /\ \A q \in Proc \ {c} : flags'[q] = flags[q]
  BY <1>1, <1>6, <1>10, Processes DEF CallsTyped
<1>12. ImageTyped' /\ CallsTyped'
  <2>1. ImageTyped'
    BY <1>1, <1>8, <1>9 DEF ImageTyped
  <2>2. flags' \in [Proc -> Word]
    <3>1. flags \in [Proc -> Word] /\ flags[x] \in Word
      BY <1>1, <1>5, Processes DEF CallsTyped
    <3> QED BY <1>10, <3>1
  <2>3. CallsTyped'
    BY <1>1, <1>10, <2>2 DEF CallsTyped
  <2> QED BY <2>1, <2>3
<1>13. Queues'
  <2>1. \A q \in Proc : \A d \in {MM, FS} : Sends(q, d)' <=> Sends(q, d)
    BY <1>6, <1>7, <1>10, <1>11, Words DEF Sends
  <2> QED BY <1>1, <1>10, <2>1, QueuesStay
<1>14. \A u \in User \ {c} : SameUser(u)
  BY <1>8, <1>9, <1>10, <1>11, Processes DEF SameUser, Same
<1>15. ParentsKept /\ Family'
  BY <1>1, <1>9, FamilyKept DEF ParentsKept
<1>16. Unborn(c)
  BY <1>1, <1>6 DEF Users, UserOk
<1>17. Used(c)' /\ \A u \in User \ {c} : Used(u)' <=> Used(u)
  BY <1>7, <1>11, <1>14, Words, SameState DEF Used, SameUser
<1>18. \/ pc[c] = "receive"
       \/ pc[c] = "return" /\ flags[x] = {RECEIVING}
  BY <1>3, <1>5 DEF Copied, Waiting
<1>19. pc'[c] = pc[c] /\ op'[c] = "FORK"
  BY <1>5, <1>6, <1>8, <1>9, Processes DEF Copied
<1>20. Users'
  <2> SUFFICES ASSUME NEW u \in User PROVE UserOk(u)'
    BY DEF Users
  <2>1. CASE u = c
    <3>1. flags'[c] # {SENDING} /\ pc'[c] \in {"receive", "return"} /\ (pc'[c] = "return" => ~ Free(c)')
      BY <1>7, <1>11, <1>18, <1>19, Words DEF Free
    <3>2. UserAt(c)'
      BY <1>19, <3>1 DEF UserAt
    <3> QED BY <1>17, <2>1, <3>2 DEF UserOk
  <2>2. CASE u # c
    BY <1>1, <1>14, <1>15, <2>2, UserKept DEF Users
  <2> QED BY <2>1, <2>2
<1>21. Bases'
  <2>1. \A u \in User : ~ Elsewhere(u) /\ (Elsewhere(u)' <=> u = c)
    BY <1>2, <1>4, <1>8, <1>9 DEF Elsewhere
  <2> QED BY <1>1, <1>9, <1>17, <2>1 DEF Bases
<1>22. MmAt'
  <2>1. Asked(x, "FORK")'
    BY <1>5, <1>7, <1>14, WaitingKept
  <2>2. Embryo(mm.child)'
    BY <1>3, <1>4, <1>6, <1>7, <1>9, <1>11, <1>16, <1>18, <1>19 DEF Embryo, Unborn
  <2>3. Free(MM)'
    BY <1>2, <1>6, <1>11, Processes DEF Free
  <2> QED BY <1>3, <1>4, <1>5, <1>8, <1>9, <1>16, <2>1, <2>2, <2>3 DEF MmAt, MmCopies, Unborn
<1>23. FsAt'
  <2>1. ~ FsForMm /\ ~ Sends(FS, MM)
    BY <1>1, <1>2, FsAsleep, Processes DEF FsForMm
  <2>2. Asked(buf[FS].source, "FILE") => Asked(buf[FS].source, "FILE")'
    <3>1. PICK y : y = buf[FS].source
      OBVIOUS
    <3>2. buf'[FS].source = y
      BY <1>10, <3>1
    <3>3. Asked(y, "FILE") => y \in User \ {c}
      BY <1>6, Words DEF Asked, Waiting, Free
    <3> QED BY <1>14, <3>1, <3>2, <3>3, WaitingKept
  <2>3. Same(FS) /\ pc'[FS] = pc[FS]
    BY <1>6, <1>8, <1>10, <1>11, Processes DEF Same
  <2> QED BY <2>1, <2>2, <2>3, FsUndisturbed
<1>24. Count'
  BY <1>1, <1>2, <1>8, <1>9, CountKept DEF Uncounted
<1> QED BY <1>10, <1>12, <1>13, <1>15, <1>20, <1>21, <1>22, <1>23, <1>24 DEF IInv, ForkInv

\* The copy of the calls in progress: of the child only what nobody looks at,
\* as it sends nothing and its RECEIVE, if any, is of MM.
LEMMA MmCopyPcbKeeps ==
    ASSUME ForkInv, halted = "no", MmCopyPcb
    PROVE  IInv'
<1>1. CallsTyped /\ ImageTyped /\ Queues /\ Users /\ Bases /\ Family /\ Count /\ MmAt /\ FsAt
  BY DEF ForkInv
<1>2. pc[MM] = "pcb" /\ Free(MM)
  BY Start DEF MmCopyPcb
<1>3. PICK x : x = mm.src
  OBVIOUS
<1>4. PICK c : c = mm.child
  OBVIOUS
<1>5. /\ Asked(x, "FORK") /\ Embryo(c) /\ mm.retval = 0 /\ x \in User /\ Waiting(x)
      /\ ~ filp[c] /\ parent[c] = NO_TASK
  BY <1>1, <1>2, <1>3, <1>4, MmPlaces DEF MmCopies, Asked
<1>6. /\ c \in Slot /\ c \in User /\ c # MM /\ c # FS /\ c # x /\ Used(c) /\ op[c] = "FORK"
      /\ flags[c] # {SENDING} /\ pc[c] \in {"receive", "return"} /\ (pc[c] = "return" => ~ Free(c))
  BY <1>3, <1>5, Words, Processes DEF Embryo, Used, Free
<1>7. /\ pc' \in [Proc -> Label] /\ pc'[MM] = "memory"
      /\ \A q \in Proc \ {MM} : pc'[q] = pc[q]
  BY <1>1, Processes, Jump DEF MmCopyPcb, Label
<1>8. UNCHANGED <<op, ret, base, fd_cnt, mm, flags, buf, halted>>
  BY DEF MmCopyPcb
<1>9. /\ recv_from' = [recv_from EXCEPT ![c] = recv_from[x]]
      /\ send_to' = [send_to EXCEPT ![c] = send_to[x]]
      /\ has_int_msg' = [has_int_msg EXCEPT ![c] = has_int_msg[x]]
      /\ q_sending' = [q_sending EXCEPT ![c] = q_sending[x]]
      /\ filp' = [filp EXCEPT ![c] = filp[x]]
      /\ parent' = [parent EXCEPT ![c] = x]
  BY <1>3, <1>4 DEF MmCopyPcb
<1>10. ImageTyped' /\ CallsTyped'
  <2>1. ImageTyped'
    BY <1>1, <1>5, <1>6, <1>7, <1>8, <1>9 DEF ImageTyped
  <2>2. CallsTyped'
    BY <1>1, <1>5, <1>6, <1>8, <1>9, Processes DEF CallsTyped
  <2> QED BY <2>1, <2>2
<1>11. /\ parent'[c] = x /\ pc'[c] = pc[c]
       /\ \A u \in User \ {c} : filp'[u] = filp[u] /\ parent'[u] = parent[u]
       /\ \A q \in Proc \ {c} : Same(q) /\ q_sending'[q] = q_sending[q]
  BY <1>1, <1>6, <1>7, <1>8, <1>9, Processes DEF ImageTyped, CallsTyped, Same
<1>12. Queues'
  <2>1. \A q \in Proc : \A d \in {MM, FS} : Sends(q, d)' <=> Sends(q, d)
    BY <1>6, <1>8, <1>11, SameState DEF Sends
  <2> QED BY <1>1, <1>6, <1>11, <2>1, Processes, QueuesStay
<1>13. \A u \in User \ {c} : SameUser(u)
  BY <1>7, <1>8, <1>11, Processes DEF SameUser
<1>14. ParentsKept /\ Family'
  BY <1>1, <1>5, <1>8, <1>11, FamilyKept DEF ParentsKept
<1>15. \A u \in User : Used(u)' <=> Used(u)
  BY <1>8 DEF Used
<1>16. Users'
  <2> SUFFICES ASSUME NEW u \in User PROVE UserOk(u)'
    BY DEF Users
  <2>1. CASE u = c
    <3>1. UserAt(c)'
      BY <1>6, <1>8, <1>11 DEF UserAt, Free
    <3> QED BY <1>6, <1>15, <2>1, <3>1 DEF UserOk
  <2>2. CASE u # c
    BY <1>1, <1>13, <1>14, <2>2, UserKept DEF Users
  <2> QED BY <2>1, <2>2
<1>17. Bases'
  BY <1>1, <1>2, <1>7, <1>8, <1>15, BasesStay DEF Elsewhere
<1>18. MmAt'
  <2>1. Asked(x, "FORK")'
    BY <1>5, <1>6, <1>13, WaitingKept
  <2>2. Embryo(mm.child)'
    BY <1>4, <1>5, <1>8, <1>11 DEF Embryo
  <2>3. Free(MM)'
    BY <1>2, <1>8 DEF Free
  <2>4. mm'.src = x /\ mm'.child = c /\ mm'.retval = 0
    BY <1>3, <1>4, <1>5, <1>8
  <2> QED BY <1>7, <1>11, <2>1, <2>2, <2>3, <2>4 DEF MmAt, MmPrepares
<1>19. FsAt'
  <2>1. ~ FsForMm /\ ~ Sends(FS, MM)
    BY <1>1, <1>2, FsAsleep, Processes DEF FsForMm
  <2>2. Asked(buf[FS].source, "FILE") => Asked(buf[FS].source, "FILE")'
    <3>1. PICK y : y = buf[FS].source
      OBVIOUS
    <3>2. buf'[FS].source = y
      BY <1>8, <3>1
    <3>3. Asked(y, "FILE") => y \in User \ {c}
      BY <1>6 DEF Asked
    <3> QED BY <1>13, <3>1, <3>2, <3>3, WaitingKept
  <2>3. Same(FS) /\ pc'[FS] = pc[FS]
    BY <1>6, <1>7, <1>11, Processes
  <2> QED BY <2>1, <2>2, <2>3, FsUndisturbed
<1>20. Count'
  <2>1. Uncounted' /\ ~ Uncounted
    BY <1>2, <1>7 DEF Uncounted
  <2>2. Open' \ {c} = Open
    BY <1>5, <1>11 DEF Open
  <2>3. fd_cnt = Cardinality(Open)
    BY <1>1, <2>1 DEF Count
  <2> QED BY <1>4, <1>8, <2>1, <2>2, <2>3 DEF Count
<1> QED BY <1>8, <1>10, <1>12, <1>14, <1>16, <1>17, <1>18, <1>19, <1>20 DEF IInv, ForkInv

\* The copy of the memory, the message among it, or a panic.
LEMMA MmCopyMemoryKeeps ==
    ASSUME ForkInv, halted = "no", MmCopyMemory
    PROVE  IInv'
<1>1. CallsTyped /\ ImageTyped /\ Queues /\ Users /\ Bases /\ Family /\ Count /\ MmAt /\ FsAt
  BY DEF ForkInv
<1>2. pc[MM] = "memory" /\ Free(MM)
  BY Start DEF MmCopyMemory
<1>3. UNCHANGED <<op, ret, base, parent, filp, fd_cnt, mm>>
  BY DEF MmCopyMemory, files
<1>4. CASE Kernel!Halt("panic") /\ UNCHANGED <<buf, pc, stack>>
  <2>1. halted' # "no" /\ flags' = flags /\ pc' = pc
    BY <1>4 DEF Kernel!Halt
  <2>2. ForkComplete'
    BY <1>3, <2>1, Complete, Stopping
  <2> QED BY <2>1, <2>2 DEF IInv
<1>5. CASE /\ Goto(MM, "ldt")
           /\ buf' = [buf EXCEPT ![mm.child] = buf[mm.src]]
           /\ UNCHANGED <<flags, p_msg, recv_from, send_to, has_int_msg, q_sending, halted>>
  <2>1. PICK x : x = mm.src
    OBVIOUS
  <2>2. PICK c : c = mm.child
    OBVIOUS
  <2>3. /\ Asked(x, "FORK") /\ Embryo(c) /\ mm.retval = 0 /\ x \in User /\ Waiting(x)
        /\ parent[c] = x
    BY <1>1, <1>2, <2>1, <2>2, MmPlaces DEF MmPrepares, Asked
  <2>4. /\ c \in Slot /\ c \in User /\ c # MM /\ c # FS /\ c # x /\ Used(c) /\ op[c] = "FORK"
        /\ flags[c] # {SENDING} /\ pc[c] \in {"receive", "return"} /\ (pc[c] = "return" => ~ Free(c))
    BY <2>1, <2>3, Words, Processes DEF Embryo, Used, Free
  <2>5. /\ pc' \in [Proc -> Label] /\ pc'[MM] = "ldt"
        /\ \A q \in Proc \ {MM} : pc'[q] = pc[q]
    BY <1>1, <1>5, Processes, Jump DEF Label
  <2>6. buf' \in [Proc -> Message] /\ \A q \in Proc \ {c} : buf'[q] = buf[q]
    BY <1>1, <1>5, <2>1, <2>2, <2>3, <2>4, Processes DEF CallsTyped
  <2>7. ImageTyped' /\ CallsTyped' /\ Queues'
    BY <1>1, <1>3, <1>5, <2>5, <2>6, NoCall DEF ImageTyped
  <2>8. \A q \in Proc \ {c} : Same(q)
    BY <1>5, <2>6 DEF Same
  <2>9. \A u \in User \ {c} : SameUser(u)
    BY <1>3, <2>5, <2>8, Processes DEF SameUser
  <2>10. ParentsKept /\ Family'
    BY <1>1, <1>3, FamilyKept DEF ParentsKept
  <2>11. \A u \in User : Used(u)' <=> Used(u)
    BY <1>5 DEF Used
  <2>12. Users'
    <3> SUFFICES ASSUME NEW u \in User PROVE UserOk(u)'
      BY DEF Users
    <3>1. CASE u = c
      <4>1. UserAt(c)'
        BY <1>3, <1>5, <2>4, <2>5, Processes DEF UserAt, Free
      <4> QED BY <2>4, <2>11, <3>1, <4>1 DEF UserOk
    <3>2. CASE u # c
      BY <1>1, <2>9, <2>10, <3>2, UserKept DEF Users
    <3> QED BY <3>1, <3>2
  <2>13. Bases'
    BY <1>1, <1>2, <1>3, <2>5, <2>11, BasesStay DEF Elsewhere
  <2>14. MmAt'
    <3>1. Asked(x, "FORK")'
      BY <2>3, <2>4, <2>9, WaitingKept
    <3>2. Embryo(mm.child)'
      BY <1>3, <1>5, <2>2, <2>3, <2>4, <2>5, Processes DEF Embryo
    <3>3. Free(MM)'
      BY <1>2, <1>5 DEF Free
    <3>4. mm'.src = x /\ mm'.child = c /\ mm'.retval = 0 /\ parent'[c] = x
      BY <1>3, <2>1, <2>2, <2>3
    <3> QED BY <2>5, <3>1, <3>2, <3>3, <3>4 DEF MmAt, MmPrepares
  <2>15. FsAt'
    <3>1. ~ FsForMm /\ ~ Sends(FS, MM)
      BY <1>1, <1>2, FsAsleep, Processes DEF FsForMm
    <3>2. Asked(buf[FS].source, "FILE") => Asked(buf[FS].source, "FILE")'
      <4>1. PICK y : y = buf[FS].source
        OBVIOUS
      <4>2. buf'[FS].source = y
        BY <2>4, <2>6, <4>1, Processes
      <4>3. Asked(y, "FILE") => y \in User \ {c}
        BY <2>4 DEF Asked
      <4> QED BY <2>9, <4>1, <4>2, <4>3, WaitingKept
    <3>3. Same(FS) /\ pc'[FS] = pc[FS]
      BY <2>4, <2>5, <2>8, Processes
    <3> QED BY <3>1, <3>2, <3>3, FsUndisturbed
  <2>16. Count'
    BY <1>1, <1>2, <1>3, <2>5, CountKept DEF Uncounted
  <2> QED BY <1>5, <2>7, <2>10, <2>12, <2>13, <2>14, <2>15, <2>16 DEF IInv, ForkInv
<1> QED BY <1>4, <1>5 DEF MmCopyMemory

\* MM tells FS: the child has its own memory now, its file is counted later.
LEMMA MmTellFsKeeps ==
    ASSUME ForkInv, halted = "no", MmTellFs
    PROVE  IInv'
<1>1. CallsTyped /\ ImageTyped /\ Queues /\ Users /\ Bases /\ Family /\ Count /\ MmAt /\ FsAt
  BY DEF ForkInv
<1>2. pc[MM] = "ldt" /\ Free(MM)
  BY Start DEF MmTellFs
<1>3. /\ pc' \in [Proc -> Label] /\ pc'[MM] = "await"
      /\ \A q \in Proc \ {MM} : pc'[q] = pc[q]
  BY <1>1, Processes, Jump DEF MmTellFs, Label
<1>4. UNCHANGED <<op, ret, parent, filp, fd_cnt, mm>>
  BY DEF MmTellFs, files
<1>5. PICK c : c = mm.child
  OBVIOUS
<1>6. /\ MmPrepares /\ Asked(mm.src, "FORK") /\ Embryo(c) /\ ~ Grown(c)
      /\ c \in Slot /\ c \in User
  BY <1>1, <1>2, <1>5, MmPlaces, NotGrown, Processes
<1>7. base' \in [User -> User] /\ base'[c] = c /\ \A u \in User \ {c} : base'[u] = base[u]
  BY <1>1, <1>5, <1>6 DEF MmTellFs, ImageTyped
<1>8. PICK t : t = Msg("FORK", c, 0)
  OBVIOUS
<1>9. t \in Type /\ Kernel!Send(MM, FS, t)
  BY <1>5, <1>6, <1>8 DEF MmTellFs, Msg, Type
<1>10. \/ halted' # "no" /\ flags' = flags
       \/ /\ halted' = "no" /\ CallsTyped' /\ Queues'
          /\ buf'[MM].source = MM /\ buf'[MM].type = t
          /\ \A q \in Proc \ {MM, FS} : Same(q)
          /\ \/ (Waits(FS, MM) \/ Waits(FS, ANY)) /\ Free(MM)' /\ Free(FS)' /\ buf'[FS] = buf'[MM]
             \/ Sends(MM, FS)' /\ Same(FS)
  BY <1>1, <1>9, Processes, Sending
<1>11. CASE halted' # "no"
  <2>1. ForkComplete /\ flags' = flags
    BY <1>10, <1>11, Complete
  <2>2. \A p \in User : Grown(p)' => Grown(p) /\ p # c
    BY <1>4, <1>6 DEF Grown
  <2>3. \A p \in User : Grown(p)' => base'[p] = p /\ FREE_SLOT \notin flags'[p]
    BY <1>7, <2>1, <2>2 DEF ForkComplete
  <2>4. {p \in User : Grown(p) /\ filp[p]}' = {p \in User : Grown(p) /\ filp[p]}
    BY <1>4 DEF Grown
  <2>5. fd_cnt' >= Cardinality({p \in User : Grown(p) /\ filp[p]}')
    BY <1>4, <2>1, <2>4 DEF ForkComplete
  <2>6. ForkComplete'
    BY <1>3, <1>4, <2>1, <2>3, <2>5 DEF ForkComplete
  <2> QED BY <1>11, <2>6 DEF IInv
<1>12. CASE halted' = "no"
  <2>1. ImageTyped'
    BY <1>1, <1>3, <1>4, <1>7 DEF ImageTyped
  <2>2. Attends(MM) /\ pc'[FS] = pc[FS]
    BY <1>3, <1>4, <1>10, <1>12, Processes DEF Attends
  <2>3. MM \notin User /\ \A u : \A k : Asked(u, k) => u # MM
    BY Processes DEF Asked
  <2>4. ~ FsForMm /\ ~ Sends(FS, MM)
    BY <1>1, <1>2, FsAsleep, Processes DEF FsForMm
  <2>5. Bases'
    <3>1. \A u \in User : Used(u)' <=> Used(u)
      BY <2>2, Attending
    <3>2. \A u \in User \ {c} : ~ Elsewhere(u)
      BY <1>5 DEF Elsewhere
    <3> QED BY <1>1, <1>7, <3>1, <3>2 DEF Bases
  <2>6. Asked(mm.src, "FORK")' /\ Embryo(mm.child)'
    <3>1. PICK x : x = mm.src
      OBVIOUS
    <3>2. mm'.src = x
      BY <1>4, <3>1
    <3>3. Asked(mm.src, "FORK")'
      BY <1>6, <2>2, <2>3, <3>1, <3>2, Attending
    <3>4. c # MM
      BY <1>6, Processes
    <3> QED BY <1>4, <1>5, <1>6, <2>2, <3>3, <3>4, Attending
  <2>7. buf'[MM].source = MM /\ buf'[MM].type = Msg("FORK", mm'.child, 0) /\ ForkOf(buf[MM])'
    BY <1>4, <1>5, <1>8, <1>10, <1>12 DEF ForkOf
  <2>8. mm'.retval = 0 /\ parent'[mm'.child] = mm'.src
    BY <1>4, <1>6 DEF MmPrepares
  <2>9. CASE (Waits(FS, MM) \/ Waits(FS, ANY)) /\ Free(MM)' /\ Free(FS)' /\ buf'[FS] = buf'[MM]
    <3>1. pc[FS] = "handle" /\ ~ Sends(FS, MM)'
      BY <1>1, <2>9, FsAsleep, AwakeNext
    <3>2. FsHas(MM)' /\ ForkOf(buf[FS])' /\ FsForMm'
      BY <1>3, <2>2, <2>7, <2>9, <3>1 DEF FsHas, ForkOf, FsForMm
    <3>3. MmAt'
      BY <1>3, <2>6, <2>8, <2>9, <3>2 DEF MmAt, MmPrepares
    <3>4. Uncounted' /\ Uncounted
      BY <1>2, <1>3, <3>1 DEF Uncounted
    <3> QED BY <1>1, <1>4, <1>10, <1>12, <2>1, <2>2, <2>5, <3>2, <3>3, <3>4, Attending, CountKept
            DEF IInv, ForkInv, FsAt
  <2>10. CASE Sends(MM, FS)' /\ Same(FS)
    <3>1. MmAt'
      BY <1>3, <2>6, <2>7, <2>8, <2>10 DEF MmAt, MmPrepares
    <3>2. FsAt'
      <4>1. PICK y : y = buf[FS].source
        OBVIOUS
      <4>2. buf'[FS].source = y
        BY <2>10, <4>1 DEF Same
      <4>3. Asked(buf[FS].source, "FILE") => Asked(buf[FS].source, "FILE")'
        BY <2>2, <2>3, <4>1, <4>2, Attending
      <4> QED BY <2>2, <2>4, <2>10, <4>3, FsUndisturbed
    <3>3. Uncounted' /\ Uncounted
      BY <1>2, <1>3, <2>4, <2>10, SameState DEF Uncounted
    <3> QED BY <1>1, <1>4, <1>10, <1>12, <2>1, <2>2, <2>5, <3>1, <3>2, <3>3, Attending, CountKept
            DEF IInv, ForkInv
  <2> QED BY <1>10, <1>12, <2>9, <2>10
<1> QED BY <1>11, <1>12

\* MM takes the answer of FS, or waits for it.
LEMMA MmAwaitFsKeeps ==
    ASSUME ForkInv, halted = "no", MmAwaitFs
    PROVE  IInv'
<1>1. CallsTyped /\ ImageTyped /\ Queues /\ Users /\ Bases /\ Family /\ Count /\ MmAt /\ FsAt
  BY DEF ForkInv
<1>2. pc[MM] = "await" /\ Free(MM)
  BY Start DEF MmAwaitFs
<1>3. /\ pc' \in [Proc -> Label] /\ pc'[MM] = "child"
      /\ \A q \in Proc \ {MM} : pc'[q] = pc[q]
  BY <1>1, Processes, Jump DEF MmAwaitFs, Label
<1>4. UNCHANGED <<op, ret, base, parent, filp, fd_cnt, mm>>
  BY DEF MmAwaitFs, files, image
<1>5. ImageTyped'
  BY <1>1, <1>3, <1>4 DEF ImageTyped
<1>6. /\ halted' = "no" /\ CallsTyped' /\ Queues'
      /\ \/ \E e \in Proc \ {MM} :
               /\ Sends(e, MM) /\ FS \in {e, ANY}
               /\ Free(e)' /\ Free(MM)' /\ buf'[MM] = buf[e] /\ buf'[e] = buf[e]
               /\ \A q \in Proc \ {e, MM} : Same(q)
         \/ /\ \A e \in Proc : Sends(e, MM) => FS \notin {e, ANY}
            /\ Waits(MM, FS)' /\ \A q \in Proc \ {MM} : Same(q)
  BY <1>1, Processes, Receiving DEF MmAwaitFs
<1>7. pc'[FS] = pc[FS] /\ \A u \in User : pc'[u] = pc[u]
  BY <1>3, Processes
<1>8. MmPrepares /\ (FsHas(MM) \/ Sends(FS, MM))
  BY <1>1, <1>2, MmPlaces, OneState DEF MmPrepares
<1>9. Attends(MM)
  BY <1>4, <1>6, <1>7, Processes DEF Attends
<1>10. MM \notin User /\ \A u : \A k : Asked(u, k) => u # MM
  BY Processes DEF Asked
<1>11. /\ Asked(mm.src, "FORK")' /\ Embryo(mm.child)'
       /\ mm'.retval = 0 /\ parent'[mm'.child] = mm'.src
  <2>1. PICK x : x = mm.src
    OBVIOUS
  <2>2. mm'.src = x
    BY <1>4, <2>1
  <2>3. Asked(mm.src, "FORK")'
    BY <1>8, <1>9, <1>10, <2>1, <2>2, Attending DEF MmPrepares
  <2>4. Embryo(mm.child) /\ mm.child # MM
    BY <1>8, Processes DEF MmPrepares, Embryo
  <2> QED BY <1>4, <1>8, <1>9, <2>3, <2>4, Attending DEF MmPrepares
<1>12. Bases'
  BY <1>1, <1>2, <1>4, <1>9, Attending, BasesStay DEF Elsewhere
<1>13. CASE Sends(FS, MM) /\ Free(FS)' /\ Free(MM)'
  <2>1. pc[FS] = "receive"
    BY <1>1, <1>13, FsAsleep
  <2>2. FsAt' /\ MmAt'
    BY <1>3, <1>7, <1>11, <1>13, <2>1 DEF FsAt, MmAt, MmPrepares
  <2>3. ~ Uncounted /\ ~ Uncounted'
    BY <1>2, <1>3, <1>13 DEF Uncounted
  <2> QED BY <1>1, <1>4, <1>5, <1>6, <1>9, <1>12, <2>2, <2>3, Attending, CountKept DEF IInv, ForkInv
<1>14. CASE ~ Sends(FS, MM) /\ Waits(MM, FS)' /\ Same(FS)
  <2>1. FsHas(MM) /\ FsHas(MM)'
    BY <1>7, <1>8, <1>14, SameState DEF FsHas, Same
  <2>2. MmAt'
    BY <1>3, <1>11, <1>14, <2>1 DEF MmAt, MmPrepares
  <2>3. FsForMm'
    BY <1>3, <1>14 DEF FsForMm
  <2>4. ForkOf(buf[FS])
    BY <1>1, <1>10, <1>14, <2>1, OneState DEF FsAt, FsHas
  <2>5. FsAt'
    BY <1>4, <1>14, <2>1, <2>3, <2>4 DEF FsAt, ForkOf, Same
  <2>6. Uncounted /\ Uncounted'
    <3>1. ~ Free(MM)'
      BY <1>14, Words DEF Waits, Free
    <3> QED BY <1>2, <1>3, <1>14, <3>1 DEF Uncounted
  <2> QED BY <1>1, <1>4, <1>5, <1>6, <1>9, <1>12, <2>2, <2>5, <2>6, Attending, CountKept DEF IInv, ForkInv
<1> QED BY <1>6, <1>13, <1>14, Processes

\* MM tells the child that it is one.
LEMMA MmChildKeeps ==
    ASSUME ForkInv, halted = "no", MmChild
    PROVE  IInv'
<1>1. CallsTyped /\ ImageTyped /\ Queues /\ Users /\ Bases /\ Family /\ Count /\ MmAt /\ FsAt
  BY DEF ForkInv
<1>2. pc[MM] = "child" /\ Free(MM)
  BY Start DEF MmChild
<1>3. /\ pc' \in [Proc -> Label] /\ pc'[MM] = "reply"
      /\ \A q \in Proc \ {MM} : pc'[q] = pc[q]
  BY <1>1, Processes, Jump DEF MmChild, Label
<1>4. UNCHANGED <<op, ret, base, parent, filp, fd_cnt, mm>>
  BY DEF MmChild, files, image
<1>5. ImageTyped'
  BY <1>1, <1>3, <1>4 DEF ImageTyped
<1>6. PICK x : x = mm.src
  OBVIOUS
<1>7. PICK c : c = mm.child
  OBVIOUS
<1>8. /\ Asked(x, "FORK") /\ Embryo(c) /\ mm.retval = 0 /\ parent[c] = x
      /\ c \in Slot /\ c \in User /\ c \in Proc \ {MM, FS} /\ c # x /\ op[c] = "FORK"
  BY <1>1, <1>2, <1>6, <1>7, MmPlaces, Processes DEF MmPrepares, Embryo
<1>9. PICK t : t = Msg("SYSCALL_RET", 0, 0)
  OBVIOUS
<1>10. t \in Type /\ Kernel!Send(MM, c, t)
  BY <1>7, <1>9 DEF MmChild, Msg, Type
<1>11. \/ halted' # "no" /\ flags' = flags
       \/ /\ halted' = "no" /\ CallsTyped' /\ Queues'
          /\ buf'[MM].source = MM /\ buf'[MM].type = t
          /\ \A q \in Proc \ {MM, c} : Same(q)
          /\ \/ (Waits(c, MM) \/ Waits(c, ANY)) /\ Free(MM)' /\ Free(c)' /\ buf'[c] = buf'[MM]
             \/ Sends(MM, c)' /\ Same(c)
  BY <1>1, <1>8, <1>10, Processes, Sending
<1>12. pc'[FS] = pc[FS] /\ \A u \in User : pc'[u] = pc[u]
  BY <1>3, Processes
<1>13. CASE halted' # "no"
  <2>1. ForkComplete'
    BY <1>3, <1>4, <1>11, <1>13, Complete, Stopping
  <2> QED BY <1>13, <2>1 DEF IInv
<1>14. CASE halted' = "no"
  <2>1. UserAt(c) /\ Used(c)
    BY <1>1, <1>8, Words DEF Users, UserOk, Used, Embryo
  <2>2. UserOk(c)' /\ Used(c)'
    <3>1. CASE Same(c)
      <4>1. SameUser(c) /\ ParentsKept
        BY <1>4, <1>8, <1>12, <3>1 DEF SameUser, ParentsKept
      <4> QED BY <1>8, <2>1, <3>1, <4>1, UserKept, SameState DEF UserOk
    <3>2. CASE Free(c)' /\ buf'[c] = buf'[MM]
      <4>1. Used(c)' /\ flags'[c] # {SENDING}
        BY <3>2, AwakeNext
      <4>2. pc'[c] \in {"receive", "return"} /\ op'[c] = "FORK"
        BY <1>4, <1>8, <1>12 DEF Embryo
      <4>3. Answers(t, c)'
        BY <1>8, <1>9 DEF Answers, Msg
      <4>4. buf'[c].type = t
        BY <1>11, <1>14, <3>2
      <4>5. Answers(buf[c].type, c)'
        BY <4>3, <4>4 DEF Answers
      <4>6. UserAt(c)'
        BY <4>1, <4>2, <4>5 DEF UserAt
      <4> QED BY <4>1, <4>6 DEF UserOk
    <3> QED BY <1>11, <1>14, <3>1, <3>2
  <2>3. Attends(c)
    BY <1>4, <1>8, <1>11, <1>12, <1>14, <2>1, <2>2, Processes DEF Attends
  <2>4. Asked(x, "FORK")'
    BY <1>8, <2>3, Attending
  <2>5. MmAt'
    <3>1. mm'.src = x /\ mm'.child = c /\ mm'.retval = 0 /\ parent'[c] = x
      BY <1>4, <1>6, <1>7, <1>8
    <3>2. Free(MM)' \/ (Sends(MM, c)' /\ buf'[MM].type = Msg("SYSCALL_RET", 0, 0))
      BY <1>9, <1>11, <1>14
    <3> QED BY <1>3, <1>8, <2>4, <3>1, <3>2 DEF MmAt, MmReplies
  <2>6. FsAt'
    <3>1. ~ FsForMm /\ ~ Sends(FS, MM)
      BY <1>1, <1>2, FsAsleep, OneState, Processes DEF FsForMm
    <3>2. Same(FS)
      BY <1>8, <1>11, <1>14, Processes
    <3>3. Asked(buf[FS].source, "FILE") => Asked(buf[FS].source, "FILE")'
      <4>1. PICK y : y = buf[FS].source
        OBVIOUS
      <4>2. buf'[FS].source = y
        BY <3>2, <4>1 DEF Same
      <4>3. Asked(y, "FILE") => y # c
        BY <1>8 DEF Asked
      <4> QED BY <2>3, <4>1, <4>2, <4>3, Attending
    <3> QED BY <1>12, <3>1, <3>2, <3>3, FsUndisturbed
  <2>7. Count'
    BY <1>1, <1>2, <1>3, <1>4, CountKept DEF Uncounted
  <2>8. Bases'
    BY <1>1, <1>2, <1>4, <2>3, Attending, BasesStay DEF Elsewhere
  <2> QED BY <1>5, <1>11, <1>14, <2>3, <2>5, <2>6, <2>7, <2>8, Attending DEF IInv, ForkInv
<1> QED BY <1>13, <1>14

\* And the parent, its child's PID or that there is none.
LEMMA MmReplyKeeps ==
    ASSUME ForkInv, halted = "no", MmReply
    PROVE  IInv'
<1>1. CallsTyped /\ ImageTyped /\ Queues /\ Users /\ Bases /\ Family /\ Count /\ MmAt /\ FsAt
  BY DEF ForkInv
<1>2. pc[MM] = "reply" /\ Free(MM)
  BY Start DEF MmReply
<1>3. /\ pc' \in [Proc -> Label] /\ pc'[MM] = "receive"
      /\ \A q \in Proc \ {MM} : pc'[q] = pc[q]
  BY <1>1, Processes, Jump DEF MmReply, Label
<1>4. UNCHANGED <<op, ret, base, parent, filp, fd_cnt>>
  BY DEF MmReply, files, image
<1>5. ImageTyped'
  <2>1. mm' \in [src : Proc \cup {NO_TASK}, child : Slot \cup {0}, retval : {0, -1}]
    BY DEF MmReply, Idle
  <2> QED BY <1>1, <1>3, <1>4, <2>1 DEF ImageTyped
<1>6. PICK x : x = mm.src
  OBVIOUS
<1>7. PICK t : t = Msg("SYSCALL_RET", mm.child, mm.retval)
  OBVIOUS
<1>8. /\ Asked(x, "FORK") /\ x \in User /\ x \in Proc \ {MM, FS} /\ op[x] = "FORK" /\ Waiting(x)
      /\ Answers(t, x)
  <2>1. MmReplies
    BY <1>1, <1>2, MmPlaces
  <2>2. t.pid = mm.child /\ t.retval = mm.retval
    BY <1>7 DEF Msg
  <2>3. Answers(t, x)
    BY <1>6, <2>1, <2>2 DEF MmReplies, Answers
  <2> QED BY <1>6, <2>1, <2>3, Processes DEF MmReplies, Asked
<1>9. t \in Type /\ Kernel!Send(MM, x, t)
  <2>1. mm.child \in Slot \cup {0} /\ mm.retval \in {0, -1}
    BY <1>1 DEF ImageTyped
  <2> QED BY <1>6, <1>7, <2>1 DEF MmReply, Msg, Type
<1>10. \/ halted' # "no" /\ flags' = flags
       \/ /\ halted' = "no" /\ CallsTyped' /\ Queues'
          /\ buf'[MM].source = MM /\ buf'[MM].type = t
          /\ \A q \in Proc \ {MM, x} : Same(q)
          /\ \/ (Waits(x, MM) \/ Waits(x, ANY)) /\ Free(MM)' /\ Free(x)' /\ buf'[x] = buf'[MM]
             \/ Sends(MM, x)' /\ Same(x)
  BY <1>1, <1>8, <1>9, Processes, Sending
<1>11. pc'[FS] = pc[FS] /\ \A u \in User : pc'[u] = pc[u]
  BY <1>3, Processes
<1>12. ParentsKept
  BY <1>4 DEF ParentsKept
<1>13. Count'
  <2>1. ~ Uncounted /\ ~ Uncounted'
    BY <1>2, <1>3 DEF Uncounted
  <2> QED BY <1>1, <1>4, <2>1, CountKept
<1>14. CASE halted' # "no"
  <2>1. ForkComplete /\ flags' = flags
    BY <1>10, <1>14, Complete
  <2>2. {p \in User : Grown(p) /\ filp[p]}' = {p \in User : Grown(p) /\ filp[p]}
    BY <1>4 DEF Grown
  <2>3. fd_cnt' = Cardinality({p \in User : filp[p]}')
    BY <1>3, <1>13 DEF Count, Uncounted, Open
  <2>4. ForkComplete'
    BY <1>4, <2>1, <2>2, <2>3 DEF ForkComplete, Grown
  <2> QED BY <1>14, <2>4 DEF IInv
<1>15. CASE halted' = "no"
  <2>1. UserAt(x) /\ Used(x)
    BY <1>1, <1>8, Words DEF Users, UserOk, Used, Waiting, Free
  <2>2. UserOk(x)' /\ Used(x)'
    <3>1. CASE Same(x)
      <4>1. SameUser(x)
        BY <1>4, <1>8, <1>11, <3>1 DEF SameUser
      <4> QED BY <1>8, <1>12, <2>1, <3>1, <4>1, UserKept, SameState DEF UserOk
    <3>2. CASE Free(x)' /\ buf'[x] = buf'[MM]
      <4>1. Used(x)' /\ flags'[x] # {SENDING}
        BY <3>2, AwakeNext
      <4>2. pc'[x] \in {"receive", "return"} /\ op'[x] = "FORK"
        BY <1>4, <1>8, <1>11 DEF Waiting
      <4>3. buf'[x].type = t
        BY <1>10, <1>15, <3>2
      <4>4. Answers(buf[x].type, x)'
        BY <1>8, <1>12, <4>3, AnswersKept
      <4>5. UserAt(x)'
        BY <4>1, <4>2, <4>4 DEF UserAt
      <4> QED BY <4>1, <4>5 DEF UserOk
    <3> QED BY <1>10, <1>15, <3>1, <3>2
  <2>3. Attends(x)
    BY <1>4, <1>8, <1>10, <1>11, <1>15, <2>1, <2>2, Processes DEF Attends
  <2>4. MmAt'
    <3>1. CASE Free(MM)'
      BY <1>3, <3>1 DEF MmAt, MmIdle
    <3>2. CASE Sends(MM, x)'
      <4>1. buf'[MM].type = t
        BY <1>10, <1>15
      <4>2. Answers(buf[MM].type, x)'
        BY <1>8, <1>12, <4>1, AnswersKept
      <4> QED BY <1>3, <1>8, <3>2, <4>2 DEF MmAt, MmIdle
    <3> QED BY <1>10, <1>15, <3>1, <3>2
  <2>5. FsAt'
    <3>1. ~ FsForMm /\ ~ Sends(FS, MM)
      BY <1>1, <1>2, FsAsleep, Processes DEF FsForMm
    <3>2. Same(FS)
      BY <1>8, <1>10, <1>15, Processes
    <3>3. Asked(buf[FS].source, "FILE") => Asked(buf[FS].source, "FILE")'
      <4>1. PICK y : y = buf[FS].source
        OBVIOUS
      <4>2. buf'[FS].source = y
        BY <3>2, <4>1 DEF Same
      <4>3. Asked(y, "FILE") => y # x
        BY <1>8 DEF Asked
      <4> QED BY <2>3, <4>1, <4>2, <4>3, Attending
    <3> QED BY <1>11, <3>1, <3>2, <3>3, FsUndisturbed
  <2>6. Bases'
    BY <1>1, <1>2, <1>4, <2>3, Attending, BasesStay DEF Elsewhere
  <2> QED BY <1>5, <1>10, <1>13, <1>15, <2>3, <2>4, <2>5, <2>6, Attending DEF IInv, ForkInv
<1> QED BY <1>14, <1>15
-----------------------------------------------------------------------------
(***************************************************************************)
(* All steps.                                                              *)
(***************************************************************************)

\* All processes are at their beginnings.
LEMMA InitInv == Init => IInv
<1> SUFFICES ASSUME Init PROVE ForkInv
  BY DEF IInv, Init
<1> USE DEF Init
<1>1. \A u \in User : u \in Proc /\ u # MM /\ u # FS
  BY Processes
<1>2. CallsTyped
  <2>1. flags \in [Proc -> Word]
    BY Words
  <2>2. buf \in [Proc -> Message]
    BY DEF Blank, Msg, Message, Type
  <2> QED BY <2>1, <2>2 DEF CallsTyped
<1>3. ImageTyped
  <2>1. mm \in [src : Proc \cup {NO_TASK}, child : Slot \cup {0}, retval : {0, -1}]
    BY DEF Idle
  <2>2. pc \in [Proc -> Label]
    BY DEF Label
  <2> QED BY <2>1, <2>2 DEF ImageTyped
<1>4. \A p \in Proc : flags[p] = IF p \in Slot THEN {FREE_SLOT} ELSE {}
  OBVIOUS
<1>5. Queues
  <2>1. \A p \in Proc : \A d : ~ Sends(p, d)
    BY <1>4, Words DEF Sends
  <2>2. \A d \in {MM, FS} : q_sending[d] = <<>>
    BY Processes
  <2>3. ASSUME NEW d \in {MM, FS} PROVE Exact(d)
    <3>1. <<>> \in Seq(Proc) /\ K!Range(<<>>) = {} /\ K!IsInjective(<<>>)
      BY DEF K!Range, K!IsInjective
    <3>2. {p \in Proc : Sends(p, d)} = {}
      BY <2>1
    <3> QED BY <2>2, <3>1, <3>2 DEF Exact
  <2> QED BY <2>3 DEF Queues
<1>6. Users
  <2> SUFFICES ASSUME NEW u \in User PROVE UserOk(u)
    BY DEF Users
  <2>1. CASE u \in Slot
    BY <1>1, <1>4, <2>1, Processes DEF UserOk, Used, Unborn
  <2>2. CASE u \notin Slot
    <3>1. pc[u] = "run" /\ flags[u] = {}
      BY <1>1, <1>4, <2>2
    <3> QED BY <3>1, Words DEF UserOk, Used, UserAt, Free
  <2> QED BY <2>1, <2>2
<1>7. Bases
  BY DEF Bases
<1>8. Family
  BY Processes, NameAssumption DEF Family
<1>9. pc[MM] = "receive" /\ Free(MM) /\ pc[FS] = "receive" /\ Free(FS)
  BY <1>1, <1>4, Processes DEF Free
<1>10. Count
  <2>1. ~ Uncounted
    BY <1>9 DEF Uncounted
  <2>2. Open = {InitProc}
    BY Processes DEF Open
  <2>3. Cardinality({InitProc}) = 1
    BY FS_Singleton
  <2> QED BY <2>1, <2>2, <2>3 DEF Count
<1> QED BY <1>2, <1>3, <1>5, <1>6, <1>7, <1>8, <1>9, <1>10 DEF ForkInv, MmAt, MmIdle, FsAt

\* One lemma per action, above; and a step that changes nothing.
LEMMA NextKeeps == IInv /\ [Next]_vars => IInv'
<1>1. ASSUME IInv, Next PROVE IInv'
  <2>1. ForkInv /\ halted = "no"
    BY <1>1 DEF IInv, Next
  <2>2. CASE \E p \in User : UserGoesOn(p) \/ \E call \in Program[p] : UserCall(p, call)
    BY <2>1, <2>2, UserReceiveKeeps, ReturnToSendKeeps, UserReturnKeeps, UserCallKeeps DEF UserGoesOn
  <2>3. CASE FsStep
    BY <2>1, <2>3, FsReceiveKeeps, FsAnswerKeeps DEF FsStep
  <2>4. CASE MmStep
    BY <2>1, <2>4, MmReceiveKeeps, MmFullKeeps, MmCopyRegsKeeps, MmCopyFlagsKeeps, MmCopyPcbKeeps,
       MmCopyMemoryKeeps, MmTellFsKeeps, MmAwaitFsKeeps, MmChildKeeps, MmReplyKeeps DEF MmStep
  <2> QED BY <1>1, <2>2, <2>3, <2>4 DEF Next
<1>2. ASSUME IInv, UNCHANGED vars PROVE IInv'
  <2>1. UNCHANGED <<flags, recv_from, send_to, has_int_msg, q_sending, buf, halted, pc, op,
                    ret, base, parent, filp, fd_cnt, mm>>
    BY <1>2 DEF vars, ipcVars, image, files
  <2>2. CASE halted = "no"
    <3>1. CallsTyped /\ ImageTyped /\ Queues /\ Users /\ Bases /\ Family /\ Count /\ MmAt /\ FsAt
      BY <1>2, <2>2 DEF IInv, ForkInv
    <3>2. \A q : Same(q)
      BY <2>1 DEF Same
    <3>3. ParentsKept /\ \A u \in User : SameUser(u)
      BY <2>1, <3>2 DEF ParentsKept, SameUser
    <3>4. CallsTyped' /\ ImageTyped' /\ Queues'
      BY <2>1, <3>1, NoCall DEF ImageTyped, CallsTyped
    <3>5. Users' /\ Bases' /\ Family'
      BY <2>1, <3>1, <3>2, <3>3, UserKept, BasesKept, FamilyKept, SameState DEF Users
    <3>6. \A u, c : Asked(u, c)' <=> Asked(u, c)
      BY <2>1 DEF Asked, Waiting, Free
    <3>7. /\ Embryo(mm.child)' <=> Embryo(mm.child)
          /\ Copied(mm.child)' <=> Copied(mm.child)
          /\ FsHas(MM)' <=> FsHas(MM)
          /\ FsForMm' <=> FsForMm
          /\ Uncounted' <=> Uncounted
          /\ Sends(FS, MM)' <=> Sends(FS, MM)
          /\ Asked(mm.src, "FORK")' <=> Asked(mm.src, "FORK")
          /\ Asked(buf[MM].source, "FORK")' <=> Asked(buf[MM].source, "FORK")
          /\ Asked(buf[FS].source, "FILE")' <=> Asked(buf[FS].source, "FILE")
      BY <2>1 DEF Embryo, Copied, FsHas, FsForMm, Uncounted, Sends, Waits, Free, Asked, Waiting
    <3>8. MmAt'
      BY <2>1, <3>1, <3>2, <3>3, <3>7, MmKept
    <3>9. FsAt'
      BY <2>1, <3>1, <3>2, <3>7, FsKept DEF Free
    <3>10. Count'
      BY <2>1, <3>1, <3>7, CountKept
    <3> QED BY <2>1, <2>2, <3>4, <3>5, <3>8, <3>9, <3>10 DEF IInv, ForkInv
  <2>3. CASE halted # "no"
    BY <1>2, <2>1, <2>3, Stopping DEF IInv
  <2> QED BY <2>2, <2>3
<1> QED BY <1>1, <1>2

\* In every state of every run, kernel stopped or not: MM, FS and every process
\* are where main.c, forkexit.c and the stub can have brought them together.
THEOREM Invariance == Spec => []IInv
<1>1. Spec => Init /\ [][Next]_vars
  BY DEF Spec
<1> QED BY <1>1, InitInv, NextKeeps, PTL

\* Whoever has come back from fork runs in its own memory and has a slot, what
\* fork returned is the PID of a child of the caller, the first process is
\* nobody's child, and no open file is forgotten in fd_cnt.
THEOREM ForkIsComplete == Spec => []ForkComplete
<1>1. IInv => ForkComplete
  BY Complete DEF IInv
<1> QED BY <1>1, Invariance, PTL
=============================================================================
