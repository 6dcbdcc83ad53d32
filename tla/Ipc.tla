-------------------------------- MODULE Ipc --------------------------------
(***************************************************************************)
(* Synchronous message passing of the bzOS kernel, kernel/proc.c: the      *)
(* system call sendrec (msg_send, msg_receive) and inform_int, by which an *)
(* interrupt handler leaves a message for a task.                          *)
(*                                                                         *)
(* One step is one whole call.  The clock interrupt does not call          *)
(* schedule() while a system call runs (clock.c:37), so calls of different *)
(* processes never interleave; an interrupt handler that runs in the       *)
(* middle of a call does, and IpcSteps has that grain.                     *)
(*                                                                         *)
(* The list q_sending / next_sending of a process is a sequence here; the  *)
(* pointers it is made of are in IpcSteps.                                 *)
(***************************************************************************)
EXTENDS SequencesExt

CONSTANTS
    Proc,          \* the used entries of proc_table
    IntTask,       \* the tasks some interrupt handler informs: TTY and HD
    Type,          \* what distinguishes messages: the type and parameters
    ANY, INTERRUPT, NO_TASK, HARD_INT    \* include/sys/const.h

ASSUME IpcAssumption ==
    /\ IntTask \subseteq Proc
    /\ ANY \notin Proc /\ INTERRUPT \notin Proc /\ NO_TASK \notin Proc
    /\ ANY # INTERRUPT /\ ANY # NO_TASK /\ INTERRUPT # NO_TASK
    /\ HARD_INT \notin Type

VARIABLES
    flags,         \* flags[p]: the bits set in p's status word
    p_msg,         \* p_msg[p]: does p's p_msg point to a message (not null)
    recv_from, send_to, has_int_msg,
    q_sending,     \* q_sending[p]: who waits to send to p, oldest first
    buf,           \* buf[p]: the MESSAGE p passes to its system calls
    halted         \* "no", or why the kernel stopped: "deadlock", "assert"

vars == <<flags, p_msg, recv_from, send_to, has_int_msg, q_sending, buf, halted>>

SENDING   == "SENDING"
RECEIVING == "RECEIVING"

Message == [source : Proc \cup {INTERRUPT}, type : Type \cup {HARD_INT}]

TypeOK ==
    /\ flags \in [Proc -> SUBSET {SENDING, RECEIVING}]
    /\ p_msg \in [Proc -> BOOLEAN]
    /\ recv_from \in [Proc -> Proc \cup {ANY, INTERRUPT, NO_TASK}]
    /\ send_to \in [Proc -> Proc \cup {NO_TASK}]
    /\ has_int_msg \in [Proc -> BOOLEAN]
    /\ q_sending \in [Proc -> Seq(Proc)]
    /\ buf \in [Proc -> Message]
    /\ halted \in {"no", "deadlock", "assert"}

(***************************************************************************)
(* kernel_main: every process is runnable and no message is under way.     *)
(***************************************************************************)
Init ==
    /\ flags = [p \in Proc |-> {}]
    /\ p_msg = [p \in Proc |-> FALSE]
    /\ recv_from = [p \in Proc |-> NO_TASK]
    /\ send_to = [p \in Proc |-> NO_TASK]
    /\ has_int_msg = [p \in Proc |-> FALSE]
    /\ q_sending = [p \in Proc |-> <<>>]
    /\ \E t \in Type : buf = [p \in Proc |-> [source |-> p, type |-> t]]
    /\ halted = "no"

-----------------------------------------------------------------------------
(***************************************************************************)
(* Helpers.                                                                *)
(***************************************************************************)

Runnable(p) == halted = "no" /\ flags[p] = {}

\* Mutant: any blocked receiver takes any message.
AwaitsAnybody(p, s) == RECEIVING \in flags[p] /\ s \in Proc \cup {recv_from[p]}

\* p is blocked in a RECEIVE that a message from s would end.
Awaits(p, s) == RECEIVING \in flags[p] /\ recv_from[p] \in {s, ANY}

\* s is blocked in a SEND to d.
SendingTo(s, d) == SENDING \in flags[s] /\ send_to[s] = d

\* Mutant: only a process that sends straight back counts as a deadlock.
DeadlockOfTwo(src, dest) == SendingTo(dest, src)

\* deadlock(src, dest): the chain dest -> send_to[dest] -> ... followed while
\* its members are SENDING leads to src.  T stands for the processes met so far.
Deadlock(src, dest) ==
    \A T \in SUBSET Proc :
        (dest \in T /\ \A p \in T : SENDING \in flags[p] => send_to[p] \in T)
            => src \in T

\* Mutant: whoever is received from, the first of the queue leaves it.
DequeueFirst(q, p) == Tail(q)

\* The queue q without its member p (proc.c:336-346).
Dequeue(q, p) == RemoveAt(q, CHOOSE i \in DOMAIN q : q[i] = p)

\* Mutant: the pointer to the message survives the wakeup.
WakeKeepingMsg(p, f) ==
    /\ flags' = [flags EXCEPT ![p] = @ \ {f}]
    /\ UNCHANGED p_msg

Wake(p, f) ==
    /\ flags' = [flags EXCEPT ![p] = @ \ {f}]
    /\ p_msg' = [p_msg EXCEPT ![p] = FALSE]

Sleep(p, f) ==
    /\ flags' = [flags EXCEPT ![p] = @ \cup {f}]
    /\ p_msg' = [p_msg EXCEPT ![p] = TRUE]

Halt(why) ==
    /\ halted' = why
    /\ UNCHANGED <<flags, p_msg, recv_from, send_to, has_int_msg, q_sending>>

-----------------------------------------------------------------------------
(***************************************************************************)
(* sendrec(SEND, d, msg): sys_sendrec stamps the caller as the source.     *)
(***************************************************************************)

SendDeadlock(p, d, m) ==
    /\ Deadlock(p, d)
    /\ buf' = [buf EXCEPT ![p] = m]
    /\ Halt("deadlock")

SendDirect(p, d, m) ==
    /\ ~ Deadlock(p, d)
    /\ Awaits(d, p)
    /\ buf' = [buf EXCEPT ![p] = m, ![d] = m]
    /\ Wake(d, RECEIVING)
    /\ recv_from' = [recv_from EXCEPT ![d] = NO_TASK]
    /\ UNCHANGED <<send_to, has_int_msg, q_sending, halted>>

\* Mutant: recv_from of the receiver, not the receiver, becomes send_to.
SendBlockToItsSource(p, d, m) ==
    /\ ~ Deadlock(p, d)
    /\ ~ Awaits(d, p)
    /\ buf' = [buf EXCEPT ![p] = m]
    /\ Sleep(p, SENDING)
    /\ send_to' = [send_to EXCEPT ![p] = recv_from[d]]
    /\ q_sending' = [q_sending EXCEPT ![d] = Append(@, p)]
    /\ UNCHANGED <<recv_from, has_int_msg, halted>>

\* Mutant: a new sender is put in front of the queue.
SendBlockInFront(p, d, m) ==
    /\ ~ Deadlock(p, d)
    /\ ~ Awaits(d, p)
    /\ buf' = [buf EXCEPT ![p] = m]
    /\ Sleep(p, SENDING)
    /\ send_to' = [send_to EXCEPT ![p] = d]
    /\ q_sending' = [q_sending EXCEPT ![d] = <<p>> \o @]
    /\ UNCHANGED <<recv_from, has_int_msg, halted>>

SendBlock(p, d, m) ==
    /\ ~ Deadlock(p, d)
    /\ ~ Awaits(d, p)
    /\ buf' = [buf EXCEPT ![p] = m]
    /\ Sleep(p, SENDING)
    /\ send_to' = [send_to EXCEPT ![p] = d]
    /\ q_sending' = [q_sending EXCEPT ![d] = Append(@, p)]
    /\ UNCHANGED <<recv_from, has_int_msg, halted>>

Send(p, d, t) ==
    /\ Runnable(p)
    /\ LET m == [source |-> p, type |-> t] IN
          SendDeadlock(p, d, m) \/ SendDirect(p, d, m) \/ SendBlock(p, d, m)

(***************************************************************************)
(* sendrec(RECEIVE, s, msg).  The three ways out of msg_receive: a pending *)
(* interrupt, a process that already waits to send, or going to sleep.     *)
(***************************************************************************)

\* Whom a RECEIVE may name: INTERRUPT only makes sense to a task some handler
\* informs (interrupt_wait in hd.c is the only caller).
Sources(p) ==
    (Proc \ {p}) \cup {ANY} \cup (IF p \in IntTask THEN {INTERRUPT} ELSE {})

\* Mutant: a RECEIVE from ANY does not look for a pending interrupt.
IntReadyIfAsked(p, s) == has_int_msg[p] /\ s = INTERRUPT

IntReady(p, s) == has_int_msg[p] /\ s \in {ANY, INTERRUPT}

\* Mutant: only the first of the queue is considered.
FirstSenderReady(p, s) ==
    q_sending[p] # <<>> /\ (s = ANY \/ Head(q_sending[p]) = s)

SenderReady(p, s) ==
    IF s = ANY THEN q_sending[p] # <<>> ELSE s \in Proc /\ SendingTo(s, p)

\* Mutant: the first of the queue, whoever was asked for.
ChosenFirst(p, s) == Head(q_sending[p])

\* The sender msg_receive picks: the oldest one, or the one asked for.
Chosen(p, s) == IF s = ANY THEN Head(q_sending[p]) ELSE s

ReceiveInterrupt(p, s) ==
    /\ IntReady(p, s)
    /\ buf' = [buf EXCEPT ![p] = [source |-> INTERRUPT, type |-> HARD_INT]]
    /\ has_int_msg' = [has_int_msg EXCEPT ![p] = FALSE]
    /\ UNCHANGED <<flags, p_msg, recv_from, send_to, q_sending, halted>>

\* Mutant: the message of the first of the queue, whoever was asked for.
ReceiveQueuedFirstMsg(p, s) ==
    /\ ~ IntReady(p, s)
    /\ SenderReady(p, s)
    /\ LET from == Chosen(p, s) IN
          /\ buf' = [buf EXCEPT ![p] = buf[Head(q_sending[p])]]
          /\ q_sending' = [q_sending EXCEPT ![p] = Dequeue(@, from)]
          /\ Wake(from, SENDING)
          /\ send_to' = [send_to EXCEPT ![from] = NO_TASK]
    /\ UNCHANGED <<recv_from, has_int_msg, halted>>

ReceiveQueued(p, s) ==
    /\ ~ IntReady(p, s)
    /\ SenderReady(p, s)
    /\ LET from == Chosen(p, s) IN
          /\ buf' = [buf EXCEPT ![p] = buf[from]]
          /\ q_sending' = [q_sending EXCEPT ![p] = Dequeue(@, from)]
          /\ Wake(from, SENDING)
          /\ send_to' = [send_to EXCEPT ![from] = NO_TASK]
    /\ UNCHANGED <<recv_from, has_int_msg, halted>>

\* The caller blocks; then assert(has_int_msg == 0) stops the kernel when an
\* interrupt is pending that this RECEIVE does not ask for (proc.c:377).
ReceiveBlock(p, s) ==
    /\ ~ IntReady(p, s)
    /\ ~ SenderReady(p, s)
    /\ Sleep(p, RECEIVING)
    /\ recv_from' = [recv_from EXCEPT ![p] = s]
    /\ buf' = [buf EXCEPT ![p].source = p]
    /\ halted' = IF has_int_msg[p] THEN "assert" ELSE halted
    /\ UNCHANGED <<send_to, has_int_msg, q_sending>>

Receive(p, s) ==
    /\ Runnable(p)
    /\ ReceiveInterrupt(p, s) \/ ReceiveQueued(p, s) \/ ReceiveBlock(p, s)

(***************************************************************************)
(* inform_int(p), called by clock_handler for TTY and by hd_handler for HD.*)
(***************************************************************************)

InformDirect(p) ==
    /\ Awaits(p, INTERRUPT)
    /\ buf' = [buf EXCEPT ![p].source = INTERRUPT, ![p].type = HARD_INT]
    /\ has_int_msg' = [has_int_msg EXCEPT ![p] = FALSE]
    /\ Wake(p, RECEIVING)
    /\ recv_from' = [recv_from EXCEPT ![p] = NO_TASK]
    /\ UNCHANGED <<send_to, q_sending, halted>>

InformLater(p) ==
    /\ ~ Awaits(p, INTERRUPT)
    /\ has_int_msg' = [has_int_msg EXCEPT ![p] = TRUE]
    /\ UNCHANGED <<flags, p_msg, recv_from, send_to, q_sending, buf, halted>>

InformInt(p) == halted = "no" /\ (InformDirect(p) \/ InformLater(p))

Next ==
    \/ \E p \in Proc : \E d \in Proc \ {p}, t \in Type : Send(p, d, t)
    \/ \E p \in Proc : \E s \in Sources(p) : Receive(p, s)
    \/ \E p \in IntTask : InformInt(p)

Spec == Init /\ [][Next]_vars

-----------------------------------------------------------------------------
(***************************************************************************)
(* Safety.                                                                 *)
(***************************************************************************)

\* The fields of a PCB agree, which is what the assertions of msg_send,
\* msg_receive and inform_int test: a process is blocked for one reason, it
\* has a message in hand exactly while it is blocked, and send_to / recv_from
\* are set exactly for that reason.
PcbConsistent ==
    \A p \in Proc :
        /\ p_msg[p] <=> flags[p] # {}
        /\ flags[p] # {SENDING, RECEIVING}
        /\ send_to[p] # NO_TASK <=> SENDING \in flags[p]
        /\ recv_from[p] # NO_TASK <=> RECEIVING \in flags[p]

\* The sending queues hold exactly the processes blocked in a SEND, each once
\* and in the queue of its destination: every process has a single
\* next_sending, so a second entry would cut another queue (proc.c:211-222,
\* 336-346).
QueuesExact ==
    \A d \in Proc :
        /\ Range(q_sending[d]) = {p \in Proc : SendingTo(p, d)}
        /\ IsInjective(q_sending[d])

\* What deadlock() is for: no set of processes is blocked in SENDs to each
\* other for ever (and so the walk of deadlock() itself ends).
NoSendCycle ==
    \A S \in SUBSET Proc :
        S # {} => \E p \in S : SENDING \in flags[p] => send_to[p] \notin S

\* No missed rendezvous: nobody sleeps in a RECEIVE that a process asleep in a
\* SEND could satisfy.
NoMissedRendezvous ==
    \A p, d \in Proc : ~ (SendingTo(p, d) /\ Awaits(d, p))

\* No lost interrupt: a task that sleeps until an interrupt has none pending.
NoMissedInterrupt ==
    \A p \in Proc : ~ (Awaits(p, INTERRUPT) /\ has_int_msg[p])

(***************************************************************************)
(* Action properties.                                                      *)
(***************************************************************************)

\* A sender goes on only after its message has reached the process it named,
\* and that process then runs.
SenderResumesDelivered ==
    [][\A p \in Proc :
          (SENDING \in flags[p] /\ SENDING \notin flags'[p]) =>
              LET d == send_to[p] IN buf'[d] = buf[p] /\ flags'[d] = {}]_vars

\* A receiver goes on only with a message of somebody it had asked for, and
\* that somebody runs: nobody is woken by a message not addressed to it.
ReceiverResumesAsked ==
    [][\A p \in Proc :
          (RECEIVING \in flags[p] /\ RECEIVING \notin flags'[p]) =>
              LET s == buf'[p].source IN
                  /\ recv_from[p] \in {s, ANY}
                  /\ s \in Proc => s # p /\ flags[s] = {} /\ flags'[s] = {}]_vars

\* First come, first served: nobody slips into a sending queue before a
\* process that already waits in it, and two that wait never change places.
Before(q, a, b) == \E i, j \in DOMAIN q : i < j /\ q[i] = a /\ q[j] = b

NoOvertaking ==
    [][\A d, a, b \in Proc :
          /\ a # b /\ SendingTo(a, d) /\ ~ Before(q_sending[d], b, a)
          /\ SendingTo(a, d)' /\ SendingTo(b, d)'
          => Before(q_sending'[d], a, b)]_vars

(***************************************************************************)
(* The kernel keeps the promise of Rendezvous: send_to and recv_from are   *)
(* the offers and the requests, whatever flags, p_msg and the queues hold. *)
(***************************************************************************)
Promise == INSTANCE Rendezvous WITH
    offer <- send_to, want <- recv_from, message <- buf,
    pending <- has_int_msg, NOBODY <- NO_TASK

KeepsPromise == Promise!Spec
=============================================================================
