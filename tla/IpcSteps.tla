----------------------------- MODULE IpcSteps -----------------------------
(***************************************************************************)
(* msg_send and msg_receive (kernel/proc.c) statement by statement where   *)
(* it matters: sys_call runs them with interrupts enabled (kernel.asm:327),*)
(* so inform_int, called by an interrupt handler, may run between any two  *)
(* of their steps.  inform_int itself is one step: an IRQ is masked while  *)
(* its handler runs (kernel.asm:95), handlers of other IRQs inform other   *)
(* tasks, and no system call starts inside a handler.                      *)
(*                                                                         *)
(* The sending queues are the linked lists of the code: q_sending points   *)
(* to the first sender, next_sending of a sender to the one after it.      *)
(* inform_int touches neither the lists nor SENDING nor send_to, so code   *)
(* that only deals with those is one step.                                 *)
(***************************************************************************)
EXTENDS Naturals, FiniteSets, Sequences

CONSTANTS Proc, IntTask, Type, ANY, INTERRUPT, NO_TASK, HARD_INT, NULL

ASSUME IpcStepsAssumption ==
    /\ IsFiniteSet(Proc) /\ IntTask \subseteq Proc
    /\ ANY \notin Proc /\ INTERRUPT \notin Proc /\ NO_TASK \notin Proc /\ NULL \notin Proc
    /\ ANY # INTERRUPT /\ ANY # NO_TASK /\ INTERRUPT # NO_TASK
    /\ HARD_INT \notin Type

VARIABLES
    flags, p_msg, recv_from, send_to, has_int_msg,
    q_sending,     \* q_sending[p]: the first process that waits to send to p
    next_sending,  \* next_sending[p]: who waits behind p in the queue p is in
    buf,           \* buf[p]: the MESSAGE p passes to its system calls
    halted,        \* "no", or why the kernel stopped: "deadlock", "assert"
    call           \* the system call under way: its next statement, its
                   \* caller, and the process it sends to or receives from

pcb  == <<flags, p_msg, recv_from, send_to>>
list == <<q_sending, next_sending>>
vars == <<pcb, list, has_int_msg, buf, halted, call>>

SENDING   == "SENDING"
RECEIVING == "RECEIVING"

User == [pc |-> "user", who |-> NULL, peer |-> NULL]

Init ==
    /\ flags = [p \in Proc |-> {}]
    /\ p_msg = [p \in Proc |-> FALSE]
    /\ recv_from = [p \in Proc |-> NO_TASK]
    /\ send_to = [p \in Proc |-> NO_TASK]
    /\ has_int_msg = [p \in Proc |-> FALSE]
    /\ q_sending = [p \in Proc |-> NULL]
    /\ next_sending = [p \in Proc |-> NULL]
    /\ \E t \in Type : buf = [p \in Proc |-> [source |-> p, type |-> t]]
    /\ halted = "no"
    /\ call = User

-----------------------------------------------------------------------------
(***************************************************************************)
(* Helpers.                                                                *)
(***************************************************************************)

Awaits(p, s) == RECEIVING \in flags[p] /\ recv_from[p] \in {s, ANY}

SendingTo(s, d) == SENDING \in flags[s] /\ send_to[s] = d

Deadlock(src, dest) ==
    \A T \in SUBSET Proc :
        (dest \in T /\ \A p \in T : SENDING \in flags[p] => send_to[p] \in T)
            => src \in T

\* The list that starts at head, as a sequence (at most one entry per process).
Chain(head) ==
    LET node[i \in 1 .. Cardinality(Proc)] ==
            IF i = 1 THEN head
            ELSE IF node[i - 1] = NULL THEN NULL ELSE next_sending[node[i - 1]]
        length == Cardinality({i \in 1 .. Cardinality(Proc) : node[i] # NULL})
    IN  [i \in 1 .. length |-> node[i]]

At(pc) == halted = "no" /\ call.pc = pc

Goto(pc) == call' = [call EXCEPT !.pc = pc]

\* assert(ok): go on, or stop the kernel.
Asserts(ok) == halted' = IF ok THEN halted ELSE "assert"

\* A copy through a null p_msg writes over physical address 0 and reaches no
\* process.
Deliver(d, m) == buf' = IF p_msg[d] THEN [buf EXCEPT ![d] = m] ELSE buf

-----------------------------------------------------------------------------
(***************************************************************************)
(* msg_send(p, d, msg).                                                    *)
(***************************************************************************)

SendEnter(p, d, t) ==
    /\ At("user") /\ flags[p] = {}
    /\ buf' = [buf EXCEPT ![p] = [source |-> p, type |-> t]]
    /\ IF Deadlock(p, d)
         THEN halted' = "deadlock" /\ UNCHANGED call
         ELSE call' = [pc |-> "send.test", who |-> p, peer |-> d] /\ UNCHANGED halted
    /\ UNCHANGED <<pcb, list, has_int_msg>>

SendMeet ==
    /\ At("send.test")
    /\ Awaits(call.peer, call.who)
    /\ Goto("send.assert")
    /\ UNCHANGED <<pcb, list, has_int_msg, buf, halted>>

\* Mutant: the new sender is linked behind the first one, not the last.
SendQueueSecond ==
    LET p == call.who
        d == call.peer
        q == Chain(q_sending[d])
    IN
    /\ At("send.test")
    /\ ~ Awaits(d, p)
    /\ flags' = [flags EXCEPT ![p] = @ \cup {SENDING}]
    /\ send_to' = [send_to EXCEPT ![p] = d]
    /\ p_msg' = [p_msg EXCEPT ![p] = TRUE]
    /\ IF q = <<>>
         THEN q_sending' = [q_sending EXCEPT ![d] = p] /\ next_sending' = [next_sending EXCEPT ![p] = NULL]
         ELSE /\ next_sending' = [next_sending EXCEPT ![q[1]] = p, ![p] = next_sending[q[1]]]
              /\ UNCHANGED q_sending
    /\ call' = User
    /\ UNCHANGED <<recv_from, has_int_msg, buf, halted>>

SendQueue ==
    LET p == call.who
        d == call.peer
        q == Chain(q_sending[d])
    IN
    /\ At("send.test")
    /\ ~ Awaits(d, p)
    /\ flags' = [flags EXCEPT ![p] = @ \cup {SENDING}]
    /\ send_to' = [send_to EXCEPT ![p] = d]
    /\ p_msg' = [p_msg EXCEPT ![p] = TRUE]
    /\ IF q = <<>>
         THEN q_sending' = [q_sending EXCEPT ![d] = p] /\ next_sending' = [next_sending EXCEPT ![p] = NULL]
         ELSE /\ next_sending' = [next_sending EXCEPT ![q[Len(q)]] = p, ![p] = NULL]
              /\ UNCHANGED q_sending
    /\ Asserts(flags'[p] = {SENDING} /\ recv_from[p] = NO_TASK)
    /\ call' = User
    /\ UNCHANGED <<recv_from, has_int_msg, buf>>

SendAssert ==
    /\ At("send.assert")
    /\ Asserts(p_msg[call.peer])
    /\ Goto("send.copy")
    /\ UNCHANGED <<pcb, list, has_int_msg, buf>>

SendCopy ==
    /\ At("send.copy")
    /\ Deliver(call.peer, buf[call.who])
    /\ Goto("send.p_msg")
    /\ UNCHANGED <<pcb, list, has_int_msg, halted>>

SendClearMsg ==
    /\ At("send.p_msg")
    /\ p_msg' = [p_msg EXCEPT ![call.peer] = FALSE]
    /\ Goto("send.flags")
    /\ UNCHANGED <<flags, recv_from, send_to, list, has_int_msg, buf, halted>>

SendClearFlags ==
    /\ At("send.flags")
    /\ flags' = [flags EXCEPT ![call.peer] = @ \ {RECEIVING}]
    /\ Goto("send.recv_from")
    /\ UNCHANGED <<p_msg, recv_from, send_to, list, has_int_msg, buf, halted>>

SendWake ==
    LET d == call.peer IN
    /\ At("send.recv_from")
    /\ recv_from' = [recv_from EXCEPT ![d] = NO_TASK]
    /\ Asserts(flags[d] = {} /\ ~ p_msg[d] /\ send_to[d] = NO_TASK)
    /\ call' = User
    /\ UNCHANGED <<flags, p_msg, send_to, list, has_int_msg, buf>>

(***************************************************************************)
(* msg_receive(p, s, msg).  TTY and HD, the tasks handlers inform, receive *)
(* from ANY or INTERRUPT here: HD also asks SYS for the time (get_ticks),  *)
(* and what an interrupt pending at that moment does is in Ipc already.    *)
(***************************************************************************)

Sources(p) ==
    IF p \in IntTask THEN {ANY, INTERRUPT} ELSE (Proc \ {p}) \cup {ANY}

ReceiveEnter(p, s) ==
    /\ At("user") /\ flags[p] = {}
    /\ buf' = [buf EXCEPT ![p].source = p]
    /\ call' = [pc |-> IF has_int_msg[p] /\ s \in {ANY, INTERRUPT} THEN "recv.int" ELSE "recv.queue",
                who |-> p, peer |-> s]
    /\ UNCHANGED <<pcb, list, has_int_msg, halted>>

ReceiveInterrupt ==
    /\ At("recv.int")
    /\ buf' = [buf EXCEPT ![call.who] = [source |-> INTERRUPT, type |-> HARD_INT]]
    /\ Goto("recv.clear")
    /\ UNCHANGED <<pcb, list, has_int_msg, halted>>

ReceiveClear ==
    /\ At("recv.clear")
    /\ has_int_msg' = [has_int_msg EXCEPT ![call.who] = FALSE]
    /\ call' = User
    /\ UNCHANGED <<pcb, list, buf, halted>>

\* Mutant: only the first of the queue is considered.
FirstSenderReady(p, s) ==
    q_sending[p] # NULL /\ (s = ANY \/ q_sending[p] = s)

SenderReady(p, s) ==
    IF s = ANY THEN q_sending[p] # NULL ELSE s \in Proc /\ SendingTo(s, p)

\* Mutant: the sender keeps pointing into the list it left.
ReceiveQueuedStale ==
    LET p    == call.who
        q    == Chain(q_sending[p])
        from == IF call.peer = ANY THEN q_sending[p] ELSE call.peer
        prev == CHOOSE r \in {q[i] : i \in DOMAIN q} : next_sending[r] = from
    IN
    /\ At("recv.queue")
    /\ SenderReady(p, call.peer)
    /\ IF from = q_sending[p]
         THEN q_sending' = [q_sending EXCEPT ![p] = next_sending[from]] /\ UNCHANGED next_sending
         ELSE next_sending' = [next_sending EXCEPT ![prev] = next_sending[from]] /\ UNCHANGED q_sending
    /\ buf' = [buf EXCEPT ![p] = buf[from]]
    /\ p_msg' = [p_msg EXCEPT ![from] = FALSE]
    /\ send_to' = [send_to EXCEPT ![from] = NO_TASK]
    /\ flags' = [flags EXCEPT ![from] = @ \ {SENDING}]
    /\ call' = User
    /\ UNCHANGED <<recv_from, has_int_msg, halted>>

\* prev is the list node before p_from, NULL when p_from is the first.
ReceiveQueued ==
    LET p    == call.who
        s    == call.peer
        q    == Chain(q_sending[p])
        from == IF s = ANY THEN q_sending[p] ELSE s
        prev == IF from = q_sending[p] THEN NULL
                ELSE CHOOSE r \in {q[i] : i \in DOMAIN q} : next_sending[r] = from
    IN
    /\ At("recv.queue")
    /\ SenderReady(p, s)
    /\ IF prev = NULL
         THEN /\ q_sending' = [q_sending EXCEPT ![p] = next_sending[from]]
              /\ next_sending' = [next_sending EXCEPT ![from] = NULL]
         ELSE /\ next_sending' = [next_sending EXCEPT ![prev] = next_sending[from], ![from] = NULL]
              /\ UNCHANGED q_sending
    /\ buf' = [buf EXCEPT ![p] = buf[from]]
    /\ p_msg' = [p_msg EXCEPT ![from] = FALSE]
    /\ send_to' = [send_to EXCEPT ![from] = NO_TASK]
    /\ flags' = [flags EXCEPT ![from] = @ \ {SENDING}]
    /\ Asserts(flags[from] = {SENDING} /\ p_msg[from] /\ flags[p] = {} /\ ~ p_msg[p])
    /\ call' = User
    /\ UNCHANGED <<recv_from, has_int_msg>>

ReceiveFlags ==
    /\ At("recv.queue")
    /\ ~ SenderReady(call.who, call.peer)
    /\ flags' = [flags EXCEPT ![call.who] = @ \cup {RECEIVING}]
    /\ Goto("recv.p_msg")
    /\ UNCHANGED <<p_msg, recv_from, send_to, list, has_int_msg, buf, halted>>

\* Mutant: the assertion that has_int_msg is 0 (377) is made true.
ReceiveMsgForgets ==
    /\ At("recv.p_msg")
    /\ p_msg' = [p_msg EXCEPT ![call.who] = TRUE]
    /\ has_int_msg' = [has_int_msg EXCEPT ![call.who] = FALSE]
    /\ Goto("recv.recv_from")
    /\ UNCHANGED <<flags, recv_from, send_to, list, buf, halted>>

ReceiveMsg ==
    /\ At("recv.p_msg")
    /\ p_msg' = [p_msg EXCEPT ![call.who] = TRUE]
    /\ Goto("recv.recv_from")
    /\ UNCHANGED <<flags, recv_from, send_to, list, has_int_msg, buf, halted>>

ReceiveFrom ==
    /\ At("recv.recv_from")
    /\ recv_from' = [recv_from EXCEPT ![call.who] = call.peer]
    /\ Goto("recv.block")
    /\ UNCHANGED <<flags, p_msg, send_to, list, has_int_msg, buf, halted>>

ReceiveBlock ==
    /\ At("recv.block")
    /\ Asserts(flags[call.who] # {})
    /\ Goto("recv.return")
    /\ UNCHANGED <<pcb, list, has_int_msg, buf>>

ReceiveReturn ==
    LET p == call.who IN
    /\ At("recv.return")
    /\ Asserts(/\ flags[p] = {RECEIVING} /\ p_msg[p] /\ recv_from[p] # NO_TASK
              /\ send_to[p] = NO_TASK /\ ~ has_int_msg[p])
    /\ call' = User
    /\ UNCHANGED <<pcb, list, has_int_msg, buf>>

(***************************************************************************)
(* inform_int(p), between any two steps above.                             *)
(***************************************************************************)

InformInt(p) ==
    /\ halted = "no"
    /\ IF Awaits(p, INTERRUPT)
         THEN /\ Deliver(p, [buf[p] EXCEPT !.source = INTERRUPT, !.type = HARD_INT])
              /\ p_msg' = [p_msg EXCEPT ![p] = FALSE]
              /\ has_int_msg' = [has_int_msg EXCEPT ![p] = FALSE]
              /\ flags' = [flags EXCEPT ![p] = @ \ {RECEIVING}]
              /\ recv_from' = [recv_from EXCEPT ![p] = NO_TASK]
              /\ Asserts(flags'[p] = {} /\ send_to[p] = NO_TASK)
         ELSE /\ has_int_msg' = [has_int_msg EXCEPT ![p] = TRUE]
              /\ UNCHANGED <<flags, p_msg, recv_from, buf, halted>>
    /\ UNCHANGED <<send_to, list, call>>

SendStep == SendMeet \/ SendQueue \/ SendAssert \/ SendCopy \/ SendClearMsg \/ SendClearFlags \/ SendWake

ReceiveStep ==
    \/ ReceiveInterrupt \/ ReceiveClear \/ ReceiveQueued \/ ReceiveFlags
    \/ ReceiveMsg \/ ReceiveFrom \/ ReceiveBlock \/ ReceiveReturn

Next ==
    \/ \E p \in Proc : \E d \in Proc \ {p}, t \in Type : SendEnter(p, d, t)
    \/ \E p \in Proc : \E s \in Sources(p) : ReceiveEnter(p, s)
    \/ SendStep
    \/ ReceiveStep
    \/ \E p \in IntTask : InformInt(p)

Spec == Init /\ [][Next]_vars

-----------------------------------------------------------------------------
(***************************************************************************)
(* Properties.                                                             *)
(***************************************************************************)

\* The linked lists are the queues they stand for, whenever interrupts strike:
\* each ends, holds exactly the senders to its process, and no process is in
\* two lists or points on after it left one.
ListsExact ==
    /\ \A d \in Proc :
         LET q == Chain(q_sending[d]) IN
         /\ {q[i] : i \in DOMAIN q} = {p \in Proc : SendingTo(p, d)}
         /\ Len(q) = Cardinality({p \in Proc : SendingTo(p, d)})
    /\ \A p \in Proc : SENDING \notin flags[p] => next_sending[p] = NULL

\* Interrupts leave no process asleep beside the one it waits for.
NoMissedRendezvous ==
    call.pc = "user" => \A p, d \in Proc : ~ (SendingTo(p, d) /\ Awaits(d, p))

\* An interrupt stays pending, or in its task's hand as the message HARD_INT,
\* until the task's next call, with one exception: it strikes when a sender has
\* cleared the task's p_msg and not yet its flags (proc.c:191-192).
Told(t) == buf[t].source = INTERRUPT

InterruptsKept ==
    [][\A t \in IntTask :
          /\ InformInt(t) => has_int_msg'[t] \/ Told(t)' \/ (call.pc = "send.flags" /\ call.peer = t)
          /\ has_int_msg[t] => has_int_msg'[t] \/ Told(t)'
          /\ Told(t) => Told(t)' \/ call'.who = t \/ halted' = "deadlock"]_vars

\* proc.c:106, 186, 201-204, 373-377: "assert(...)" in msg_send, msg_receive
\* and block always holds.  Fails: an interrupt between the test of has_int_msg
\* (258) and the assignment of recv_from (369) is left pending, and 377 fails;
\* one between 369 and 106 clears flags, and block's assertion fails.
AssertsHold == halted # "assert"
=============================================================================
