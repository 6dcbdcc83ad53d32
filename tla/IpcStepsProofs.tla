--------------------------- MODULE IpcStepsProofs ---------------------------
(***************************************************************************)
(* Proofs about IpcSteps for every finite set of processes: msg_send and   *)
(* msg_receive statement by statement, with inform_int between any two of  *)
(* them.                                                                   *)
(*                                                                         *)
(* The first part proves the invariant StepsInv of Spec, the second that   *)
(* a call no interrupt cuts into is one step of Ipc.                       *)
(***************************************************************************)
EXTENDS IpcStepsAtomic, Functions, FiniteSetTheorems, SequenceTheorems, WellFoundedInduction, TLAPS

\* The statements at which a call may be in msg_send and in msg_receive.
SendPc == {"send.test", "send.assert", "send.copy", "send.p_msg", "send.flags", "send.recv_from"}

RecvPc ==
    {"recv.int", "recv.clear", "recv.queue", "recv.p_msg", "recv.recv_from", "recv.block",
     "recv.return"}

Message == [source : Proc \cup {INTERRUPT}, type : Type \cup {HARD_INT}]

\* Type correctness of the kernel's data and of the call under way.
TypeOK ==
    /\ flags \in [Proc -> SUBSET {SENDING, RECEIVING}]
    /\ p_msg \in [Proc -> BOOLEAN]
    /\ recv_from \in [Proc -> Proc \cup {ANY, INTERRUPT, NO_TASK}]
    /\ send_to \in [Proc -> Proc \cup {NO_TASK}]
    /\ has_int_msg \in [Proc -> BOOLEAN]
    /\ q_sending \in [Proc -> Proc \cup {NULL}]
    /\ next_sending \in [Proc -> Proc \cup {NULL}]
    /\ buf \in [Proc -> Message]
    /\ halted \in {"no", "deadlock", "assert"}
    /\ call \in [pc : {"user"} \cup SendPc \cup RecvPc,
                 who : Proc \cup {NULL}, peer : Proc \cup {ANY, INTERRUPT, NULL}]

\* A PCB between two steps that change it: not blocked, blocked in a SEND,
\* blocked in a RECEIVE.
Idle(p) ==
    flags[p] = {} /\ p_msg[p] = FALSE /\ send_to[p] = NO_TASK /\ recv_from[p] = NO_TASK

Sender(p) ==
    flags[p] = {SENDING} /\ p_msg[p] = TRUE /\ send_to[p] \in Proc /\ recv_from[p] = NO_TASK

Receiver(p) ==
    flags[p] = {RECEIVING} /\ p_msg[p] = TRUE /\ send_to[p] = NO_TASK /\ recv_from[p] # NO_TASK

\* A receiver whose p_msg the sender has cleared and not yet its flags.
HalfWoken(p) ==
    flags[p] = {RECEIVING} /\ p_msg[p] = FALSE /\ send_to[p] = NO_TASK /\ recv_from[p] # NO_TASK

\* A receiver that has set its flags, and perhaps p_msg, and not yet recv_from.
HalfAsleep(p, m) ==
    flags[p] = {RECEIVING} /\ p_msg[p] = m /\ send_to[p] = NO_TASK /\ recv_from[p] = NO_TASK

Pcbs ==
    \A p \in Proc :
        \/ Idle(p) \/ Sender(p) \/ Receiver(p)
        \/ call.peer = p /\ call.pc \in {"send.flags", "send.recv_from"}
        \/ call.who = p /\ call.pc \in {"recv.p_msg", "recv.recv_from"}

\* What the call under way has established at each of its statements, and no
\* interrupt has undone.
Calls ==
    /\ call.pc = "user" => call = User
    /\ call.pc \in SendPc =>
          /\ call.who \in Proc /\ call.peer \in Proc \ {call.who}
          /\ Idle(call.who) /\ ~ Told(call.who)
    /\ call.pc \in {"send.assert", "send.copy", "send.p_msg"} => Idle(call.peer) \/ Receiver(call.peer)
    /\ call.pc = "send.flags" => Idle(call.peer) \/ HalfWoken(call.peer)
    /\ call.pc = "send.recv_from" =>
          flags[call.peer] = {} /\ p_msg[call.peer] = FALSE /\ send_to[call.peer] = NO_TASK
    /\ call.pc \in RecvPc => call.who \in Proc /\ call.peer \in Sources(call.who)
    /\ call.pc \in {"recv.int", "recv.clear", "recv.queue"} => Idle(call.who)
    /\ call.pc = "recv.clear" => Told(call.who)
    /\ call.pc = "recv.queue" => ~ Told(call.who)
    /\ call.pc = "recv.p_msg" => HalfAsleep(call.who, FALSE)
    /\ call.pc = "recv.recv_from" => HalfAsleep(call.who, TRUE)
    /\ call.pc \in {"recv.p_msg", "recv.recv_from"} => ~ SenderReady(call.who, call.peer)
    /\ call.pc \in {"recv.block", "recv.return"} => Idle(call.who) \/ Receiver(call.who)

\* The list that starts at q_sending[d] is Q, which holds the senders to d.
Linked(Q, d) ==
    /\ Q \in Seq(Proc) /\ IsInjective(Q)
    /\ Range(Q) = {p \in Proc : SendingTo(p, d)}
    /\ q_sending[d] = IF Q = <<>> THEN NULL ELSE Q[1]
    /\ \A i \in 1 .. Len(Q) : next_sending[Q[i]] = IF i = Len(Q) THEN NULL ELSE Q[i + 1]

Lists ==
    /\ \A d \in Proc : \E Q \in Seq(Proc) : Linked(Q, d)
    /\ \A p \in Proc : SENDING \notin flags[p] => next_sending[p] = NULL

\* No process asleep in a RECEIVE beside one asleep in a SEND it would take,
\* at no step of a call.
NoneMissed == \A p, d \in Proc : ~ (SendingTo(p, d) /\ Awaits(d, p))

\* A task waits for an interrupt beside a pending one only until the assertion
\* of msg_receive that has_int_msg is 0.
NoneIgnored ==
    \A p \in Proc : (Awaits(p, INTERRUPT) /\ has_int_msg[p] /\ halted = "no")
                       => (call.pc \in {"recv.block", "recv.return"} /\ call.who = p)

\* A process blocked in a RECEIVE has no old interrupt message in its buffer.
NoneStale == \A p \in Proc : RECEIVING \in flags[p] => ~ Told(p)

(***************************************************************************)
(* The inductive invariant.  That no rendezvous is missed needs to know    *)
(* what a call in the middle has established and no interrupt can undo     *)
(* (Calls), which needs the shapes a PCB can be caught in (Pcbs); that     *)
(* interrupts are kept needs that no old one lies in the buffer of a       *)
(* receiver (NoneStale) and that none is pending beside the task that      *)
(* waits for it, up to the assertion of proc.c:377 (NoneIgnored).  The     *)
(* lists hold the senders only if no sender is in two of them (Linked).    *)
(***************************************************************************)
StepsInv ==
    /\ TypeOK
    /\ Pcbs
    /\ Calls
    /\ Lists
    /\ NoneMissed
    /\ NoneIgnored
    /\ NoneStale
-----------------------------------------------------------------------------
(***************************************************************************)
(* Chain: a list that ends and repeats no node is read off its pointers.   *)
(***************************************************************************)

\* Chain for any array of pointers: what a lemma can speak about before and
\* after a step.
ChainOf(next, head) ==
    LET node[i \in 1 .. Cardinality(Proc)] ==
            IF i = 1 THEN head
            ELSE IF node[i - 1] = NULL THEN NULL ELSE next[node[i - 1]]
        length == Cardinality({i \in 1 .. Cardinality(Proc) : node[i] # NULL})
    IN  [i \in 1 .. length |-> node[i]]

\* The equation of the recursive function node in Chain.
Nodes(f, N, next, head) ==
    f = [i \in 1 .. N |-> IF i = 1 THEN head
                          ELSE IF f[i - 1] = NULL THEN NULL ELSE next[f[i - 1]]]

\* There is one such function: two would differ at a least place.
LEMMA NodesUnique ==
    ASSUME NEW N \in Nat, NEW next, NEW head, NEW f, NEW g,
           Nodes(f, N, next, head), Nodes(g, N, next, head)
    PROVE  f = g
<1> USE DEF Nodes
<1> DEFINE D == {i \in 1 .. N : f[i] # g[i]}
<1>1. D = {}
  <2> SUFFICES ASSUME D # {} PROVE FALSE
    OBVIOUS
  <2>1. D \in SUBSET Nat
    OBVIOUS
  <2>2. PICK x \in D : \A y \in D : <<y, x>> \notin OpToRel(<, Nat)
    <3> HIDE DEF D
    <3> QED BY <2>1, WFMin, NatLessThanWellFounded, Zenon
  <2>3. x \in 1 .. N /\ f[x] # g[x]
    OBVIOUS
  <2>4. x # 1
    <3>1. ASSUME x = 1 PROVE f[x] = head /\ g[x] = head
      BY <2>3, <3>1
    <3> QED BY <2>3, <3>1
  <2>5. x - 1 \in 1 .. N /\ x - 1 < x /\ x - 1 \in Nat /\ x \in Nat
    BY <2>3, <2>4
  <2>6. f[x - 1] = g[x - 1]
    <3> SUFFICES ASSUME x - 1 \in D PROVE FALSE
      BY <2>5
    <3>1. <<x - 1, x>> \in OpToRel(<, Nat)
      BY <2>5 DEF OpToRel
    <3> QED BY <2>2, <3>1, Zenon
  <2>7. f[x] = IF f[x - 1] = NULL THEN NULL ELSE next[f[x - 1]]
    BY <2>3, <2>4
  <2>8. g[x] = IF g[x - 1] = NULL THEN NULL ELSE next[g[x - 1]]
    BY <2>3, <2>4
  <2> QED BY <2>3, <2>6, <2>7, <2>8
<1>2. \A i \in 1 .. N : f[i] = g[i]
  BY <1>1
<1>3. f = [i \in 1 .. N |-> f[i]] /\ g = [i \in 1 .. N |-> g[i]]
  OBVIOUS
<1> QED BY <1>2, <1>3

\* A list of processes without repetition is no longer than there are processes.
LEMMA ListFits ==
    ASSUME NEW Q \in Seq(Proc), IsInjective(Q)
    PROVE  /\ Cardinality(Proc) \in Nat /\ Len(Q) \in Nat /\ DOMAIN Q = 1 .. Len(Q)
           /\ Len(Q) <= Cardinality(Proc)
           /\ Cardinality(1 .. Len(Q)) = Len(Q)
           /\ Cardinality(Range(Q)) = Len(Q)
<1>1. IsFiniteSet(Proc)
  BY IpcStepsAssumption
<1>2. Len(Q) \in Nat /\ DOMAIN Q = 1 .. Len(Q) /\ Q \in [1 .. Len(Q) -> Proc]
  BY LenProperties
<1>3. Q \in Injection(1 .. Len(Q), Proc)
  BY <1>2 DEF Injection, IsInjective
<1>4. IsFiniteSet(1 .. Len(Q)) /\ Cardinality(1 .. Len(Q)) = Len(Q)
  <2>1. Cardinality(1 .. Len(Q)) = IF 1 > Len(Q) THEN 0 ELSE Len(Q) - 1 + 1
    BY <1>2, FS_Interval
  <2>2. IsFiniteSet(1 .. Len(Q))
    BY <1>2, FS_Interval
  <2> QED BY <1>2, <2>1, <2>2
<1>5. Cardinality(1 .. Len(Q)) <= Cardinality(Proc)
  BY <1>1, <1>3, FS_Injection
<1>6. Cardinality(Range(Q)) = Len(Q)
  <2>1. Q \in Surjection(1 .. Len(Q), Range(Q))
    BY <1>2 DEF Surjection, Range
  <2>2. Q \in Injection(1 .. Len(Q), Range(Q))
    BY <1>2, <1>3 DEF Injection, IsInjective, Range
  <2>3. Q \in Bijection(1 .. Len(Q), Range(Q))
    BY <2>1, <2>2 DEF Bijection
  <2>4. ExistsBijection(1 .. Len(Q), Range(Q))
    BY <2>3 DEF ExistsBijection
  <2> QED BY <2>4, <1>4, FS_Bijection
<1>7. Cardinality(Proc) \in Nat
  BY <1>1, FS_CardinalityType
<1> QED BY <1>2, <1>4, <1>5, <1>6, <1>7

\* Chain follows the pointers of a list that ends and repeats no node, and
\* returns its nodes in order.
LEMMA ChainIsList ==
    ASSUME NEW next, NEW head, NEW Q \in Seq(Proc), IsInjective(Q),
           head = IF Q = <<>> THEN NULL ELSE Q[1],
           \A i \in 1 .. Len(Q) : next[Q[i]] = IF i = Len(Q) THEN NULL ELSE Q[i + 1]
    PROVE  ChainOf(next, head) = Q
<1> DEFINE N == Cardinality(Proc)
           w == [i \in 1 .. N |-> IF i <= Len(Q) THEN Q[i] ELSE NULL]
           node == CHOOSE f : f = [i \in 1 .. N |-> IF i = 1 THEN head
                                   ELSE IF f[i - 1] = NULL THEN NULL ELSE next[f[i - 1]]]
<1>1. N \in Nat /\ Len(Q) \in Nat /\ Len(Q) <= N
  BY ListFits
<1>d. Cardinality(1 .. Len(Q)) = Len(Q) /\ DOMAIN Q = 1 .. Len(Q)
  BY ListFits
<1>2. \A i \in 1 .. Len(Q) : Q[i] \in Proc /\ Q[i] # NULL
  BY ElementOfSeq, IpcStepsAssumption
<1>3. ChainOf(next, head) = [i \in 1 .. Cardinality({j \in 1 .. N : node[j] # NULL}) |-> node[i]]
  BY DEF ChainOf
<1> HIDE DEF N
<1>0. w = [i \in 1 .. N |-> w[i]] /\ \A i \in 1 .. N : w[i] = IF i <= Len(Q) THEN Q[i] ELSE NULL
  OBVIOUS
<1> HIDE DEF w, node
<1>4. Nodes(w, N, next, head)
  <2> SUFFICES ASSUME NEW i \in 1 .. N
               PROVE  w[i] = IF i = 1 THEN head
                             ELSE IF w[i - 1] = NULL THEN NULL ELSE next[w[i - 1]]
    BY <1>0 DEF Nodes
  <2>0. w[i] = IF i <= Len(Q) THEN Q[i] ELSE NULL
    BY <1>0
  <2>1. CASE i = 1
    <3>1. CASE Q = <<>>
      BY <2>0, <2>1, <3>1, <1>1, EmptySeq
    <3>2. CASE Q # <<>>
      <4>1. 1 <= Len(Q)
        BY <3>2, EmptySeq
      <4> QED BY <2>0, <2>1, <3>2, <4>1
    <3> QED BY <3>1, <3>2
  <2>2. CASE i # 1
    <3>1. i - 1 \in 1 .. N /\ w[i - 1] = IF i - 1 <= Len(Q) THEN Q[i - 1] ELSE NULL
      BY <2>2, <1>0, <1>1
    <3>2. CASE i - 1 <= Len(Q)
      <4> DEFINE k == i - 1
      <4>1. k \in 1 .. Len(Q) /\ w[k] = Q[k] /\ k + 1 = i
        <5>1. i \in Nat /\ i >= 1
          BY <1>1
        <5> QED BY <2>2, <3>1, <3>2, <1>1, <5>1
      <4> HIDE DEF k
      <4>2. w[k] # NULL /\ next[w[k]] = IF k = Len(Q) THEN NULL ELSE Q[i]
        BY <4>1, <1>2
      <4> QED BY <2>0, <2>2, <4>1, <4>2, <1>1 DEF k
    <3>3. CASE ~ (i - 1 <= Len(Q))
      <4>1. i \in Nat /\ i >= 1
        BY <1>1
      <4>2. ~ (i <= Len(Q))
        BY <4>1, <3>3, <1>1
      <4> QED BY <2>0, <2>2, <3>1, <3>3, <4>2
    <3> QED BY <3>2, <3>3
  <2> QED BY <2>1, <2>2
<1>5. Nodes(node, N, next, head)
  BY <1>4, Zenon DEF node, Nodes
<1>6. node = w
  BY <1>1, <1>4, <1>5, NodesUnique
<1>7. {j \in 1 .. N : node[j] # NULL} = 1 .. Len(Q)
  <2>1. \A j \in 1 .. N : node[j] # NULL <=> j <= Len(Q)
    BY <1>0, <1>1, <1>2, <1>6
  <2>2. \A j \in Nat : j \in 1 .. N /\ j <= Len(Q) <=> j \in 1 .. Len(Q)
    BY <1>1
  <2>3. 1 .. N \subseteq Nat /\ 1 .. Len(Q) \subseteq Nat
    BY <1>1
  <2> QED BY <2>1, <2>2, <2>3, Zenon
<1>8. ChainOf(next, head) = [i \in 1 .. Len(Q) |-> node[i]]
  BY <1>d, <1>3, <1>7
<1>9. \A i \in 1 .. Len(Q) : node[i] = Q[i]
  BY <1>0, <1>1, <1>6
<1>10. Q = [i \in 1 .. Len(Q) |-> Q[i]]
  BY <1>d
<1> QED BY <1>8, <1>9, <1>10

\* The queue of a well-linked list, before and after a step.
LEMMA ChainRead ==
    ASSUME NEW Q, NEW d \in Proc, Linked(Q, d)
    PROVE  Chain(q_sending[d]) = Q
<1>1. Chain(q_sending[d]) = ChainOf(next_sending, q_sending[d])
  BY DEF Chain, ChainOf
<1> QED BY <1>1, ChainIsList DEF Linked

\* The same after the step.
LEMMA ChainReadNext ==
    ASSUME NEW Q, NEW d \in Proc, Linked(Q, d)'
    PROVE  Chain(q_sending[d])' = Q
<1>1. Chain(q_sending[d])' = ChainOf(next_sending', q_sending'[d])
  BY DEF Chain, ChainOf
<1> QED BY <1>1, ChainIsList DEF Linked

-----------------------------------------------------------------------------
(***************************************************************************)
(* The sequence a list stands for, when a sender joins or leaves it.  What *)
(* Append and Dequeue do to the members of a queue is proved of Ipc.       *)
(***************************************************************************)

\* The lemmas about queues, for the state Ipc is in.
QP == INSTANCE IpcProofs WITH
    flags <- Seen.flags, p_msg <- Seen.p_msg, recv_from <- Seen.recv_from,
    send_to <- Seen.send_to, has_int_msg <- Seen.has_int_msg, q_sending <- Seen.q,
    buf <- Seen.buf, halted <- Seen.halted

\* What a queue holds after a process joins it.
LEMMA AppendMembers ==
    ASSUME NEW Q \in Seq(Proc), NEW p \in Proc, IsInjective(Q), p \notin Range(Q)
    PROVE  /\ Append(Q, p) \in Seq(Proc)
           /\ Range(Append(Q, p)) = Range(Q) \cup {p}
           /\ IsInjective(Append(Q, p))
           /\ Len(Append(Q, p)) = Len(Q) + 1
           /\ \A i \in 1 .. Len(Q) : Append(Q, p)[i] = Q[i]
           /\ Append(Q, p)[Len(Q) + 1] = p
<1>1. \A f : QP!Range(f) = Range(f) /\ (QP!IsInjective(f) <=> IsInjective(f))
  BY DEF QP!Range, QP!IsInjective, Range, IsInjective
<1>2. /\ Append(Q, p) \in Seq(Proc)
      /\ QP!Range(Append(Q, p)) = QP!Range(Q) \cup {p}
      /\ (QP!IsInjective(Q) /\ p \notin QP!Range(Q)) => QP!IsInjective(Append(Q, p))
  BY QP!AppendMembers, IpcStepsAssumption
<1>3. Range(Append(Q, p)) = Range(Q) \cup {p} /\ IsInjective(Append(Q, p))
  BY <1>1, <1>2, Zenon
<1> QED BY <1>2, <1>3, AppendProperties

\* What a queue holds after Dequeue, and in which order: k is the place of the
\* process that leaves.
LEMMA DequeueMembers ==
    ASSUME NEW Q \in Seq(Proc), IsInjective(Q), NEW k \in DOMAIN Q
    PROVE  LET R == Whole!Dequeue(Q, Q[k]) IN
           /\ R \in Seq(Proc) /\ IsInjective(R)
           /\ Range(R) = Range(Q) \ {Q[k]}
           /\ Len(R) = Len(Q) - 1
           /\ \A i \in 1 .. Len(Q) - 1 : R[i] = IF i < k THEN Q[i] ELSE Q[i + 1]
<1> DEFINE R == Whole!Dequeue(Q, Q[k])
<1>1. \A f : QP!Range(f) = Range(f) /\ (QP!IsInjective(f) <=> IsInjective(f))
  BY DEF QP!Range, QP!IsInjective, Range, IsInjective
<1>2. Q[k] \in Range(Q)
  BY DEF Range
<1>3. /\ QP!Dequeue(Q, Q[k]) \in Seq(Proc)
      /\ QP!Range(QP!Dequeue(Q, Q[k])) = QP!Range(Q) \ {Q[k]}
      /\ QP!IsInjective(QP!Dequeue(Q, Q[k]))
  BY <1>1, <1>2, QP!DequeueMembers, IpcStepsAssumption
<1>4. R = QP!RemoveAt(Q, CHOOSE i \in DOMAIN Q : Q[i] = Q[k]) /\ R = QP!Dequeue(Q, Q[k])
  BY DEF Whole!Dequeue, Whole!RemoveAt, QP!Dequeue, QP!RemoveAt
<1>5. (CHOOSE i \in DOMAIN Q : Q[i] = Q[k]) = k
  BY DEF IsInjective
<1>6. Len(QP!RemoveAt(Q, k)) = Len(Q) - 1
      /\ \A i \in 1 .. Len(Q) - 1 : QP!RemoveAt(Q, k)[i] = IF i < k THEN Q[i] ELSE Q[i + 1]
  BY QP!RemoveAtElements, IpcStepsAssumption
<1>7. Len(R) = Len(Q) - 1 /\ \A i \in 1 .. Len(Q) - 1 : R[i] = IF i < k THEN Q[i] ELSE Q[i + 1]
  BY <1>4, <1>5, <1>6, Zenon
<1>8. R \in Seq(Proc) /\ IsInjective(R) /\ Range(R) = Range(Q) \ {Q[k]}
  BY <1>1, <1>3, <1>4, Zenon
<1> QED BY <1>7, <1>8

\* A member of one list is in no other, and a process that is no sender in none.
LEMMA ListsApart ==
    ASSUME NEW Q, NEW d, Linked(Q, d), NEW i \in 1 .. Len(Q)
    PROVE  Q[i] \in Proc /\ SendingTo(Q[i], d) /\ i \in DOMAIN Q /\ Q[i] \in Range(Q)
<1>1. i \in DOMAIN Q
  BY LenProperties DEF Linked
<1>2. Q[i] \in Range(Q)
  BY <1>1 DEF Range
<1> QED BY <1>1, <1>2 DEF Linked

\* msg_send links the new sender p behind the last one of L, the list of d.
LinkLast(L, p, d) ==
    IF L = <<>>
      THEN q_sending' = [q_sending EXCEPT ![d] = p] /\ next_sending' = [next_sending EXCEPT ![p] = NULL]
      ELSE /\ next_sending' = [next_sending EXCEPT ![L[Len(L)]] = p, ![p] = NULL]
           /\ UNCHANGED q_sending

\* A list to which msg_send links p stands for the longer queue, and the other
\* lists stay what they are.
LEMMA ListJoined ==
    ASSUME TypeOK, NEW p \in Proc, NEW d \in Proc, SENDING \notin flags[p],
           flags' = [flags EXCEPT ![p] = @ \cup {SENDING}],
           send_to' = [send_to EXCEPT ![p] = d],
           NEW L, Linked(L, d), LinkLast(L, p, d),
           NEW e \in Proc, NEW Q, Linked(Q, e), e = d => Q = L
    PROVE  Linked(IF e = d THEN Append(Q, p) ELSE Q, e)'
<1> USE DEF LinkLast
<1>1. \A q, a \in Proc : SendingTo(q, a)' <=> SendingTo(q, a) \/ (q = p /\ a = d)
  BY DEF SendingTo, TypeOK
<1>2. Q \in Seq(Proc) /\ IsInjective(Q) /\ Range(Q) = {q \in Proc : SendingTo(q, e)}
  BY DEF Linked
<1>3. Len(Q) \in Nat /\ \A i \in 1 .. Len(Q) : Q[i] # p /\ Q[i] \in Proc /\ i \in DOMAIN Q
  BY <1>2, ListsApart DEF SendingTo
<1>4. L # <<>> => Len(L) \in 1 .. Len(L)
  BY EmptySeq DEF Linked
<1>5. CASE e # d
  <2>1. q_sending'[e] = q_sending[e]
    BY <1>5 DEF TypeOK
  <2>2. \A i \in 1 .. Len(Q) : next_sending'[Q[i]] = next_sending[Q[i]]
    <3> SUFFICES ASSUME NEW i \in 1 .. Len(Q) PROVE next_sending'[Q[i]] = next_sending[Q[i]]
      OBVIOUS
    <3>1. L # <<>> => Q[i] # L[Len(L)]
      BY <1>4, <1>5, ListsApart DEF SendingTo
    <3> QED BY <1>3, <3>1 DEF TypeOK
  <2>3. Range(Q) = {q \in Proc : SendingTo(q, e)'}
    BY <1>1, <1>2, <1>5
  <2> QED BY <1>2, <1>5, <2>1, <2>2, <2>3 DEF Linked
<1>6. CASE e = d
  <2> DEFINE R == Append(Q, p)
  <2>0. L = Q /\ p \notin Range(Q)
    BY <1>2, <1>6 DEF SendingTo
  <2>1. /\ R \in Seq(Proc) /\ IsInjective(R) /\ Range(R) = Range(Q) \cup {p}
        /\ Len(R) = Len(Q) + 1 /\ R[Len(Q) + 1] = p
        /\ \A i \in 1 .. Len(Q) : R[i] = Q[i]
    BY <1>2, <2>0, AppendMembers
  <2> HIDE DEF R
  <2>2. Range(R) = {q \in Proc : SendingTo(q, e)'}
    BY <1>1, <1>2, <1>6, <2>1
  <2>3. R # <<>>
    BY <1>3, <2>1, EmptySeq
  <2>4. q_sending'[e] = R[1]
    <3>1. CASE Q = <<>>
      BY <1>6, <2>0, <2>1, <3>1, EmptySeq DEF TypeOK
    <3>2. CASE Q # <<>>
      <4>1. 1 \in 1 .. Len(Q)
        BY <1>2, <3>2, EmptySeq
      <4> QED BY <1>6, <2>0, <2>1, <3>2, <4>1 DEF Linked
    <3> QED BY <3>1, <3>2
  <2>5. ASSUME NEW i \in 1 .. Len(R)
        PROVE  next_sending'[R[i]] = IF i = Len(R) THEN NULL ELSE R[i + 1]
    <3>1. CASE i = Len(R)
      <4>1. R[i] = p
        BY <2>1, <3>1
      <4> QED BY <2>0, <3>1, <4>1 DEF TypeOK
    <3>2. CASE i # Len(R)
      <4>1. i \in 1 .. Len(Q) /\ R[i] = Q[i] /\ Q[i] # p /\ Q[i] \in Proc
        BY <1>3, <2>1, <3>2
      <4>2. Q # <<>>
        BY <4>1, EmptySeq
      <4>3. next_sending' = [next_sending EXCEPT ![Q[Len(Q)]] = p, ![p] = NULL]
        BY <2>0, <4>2
      <4>4. CASE i = Len(Q)
        <5>1. R[i + 1] = p
          BY <2>1, <4>4
        <5> QED BY <3>2, <4>1, <4>3, <4>4, <5>1 DEF TypeOK
      <4>5. CASE i # Len(Q)
        <5>1. i + 1 \in 1 .. Len(Q) /\ R[i + 1] = Q[i + 1]
          BY <1>3, <2>1, <4>1, <4>5
        <5>2. Q[i] # Q[Len(Q)]
          <6>1. Len(Q) \in DOMAIN Q /\ i \in DOMAIN Q
            BY <1>3, <4>1
          <6> QED BY <1>2, <4>5, <6>1 DEF IsInjective
        <5>3. next_sending[Q[i]] = Q[i + 1]
          BY <4>1, <4>5 DEF Linked
        <5> QED BY <3>2, <4>1, <4>3, <5>1, <5>2, <5>3 DEF TypeOK
      <4> QED BY <4>4, <4>5
    <3> QED BY <3>1, <3>2
  <2>6. Linked(R, e)'
    BY <2>1, <2>2, <2>3, <2>4, <2>5 DEF Linked
  <2> QED BY <1>6, <2>6 DEF R
<1> QED BY <1>5, <1>6

\* msg_receive takes the sender L[k] out of the list of p: the one before it,
\* or q_sending of p, now points to the one after it.
Unlink(L, k, p) ==
    IF k = 1
      THEN /\ q_sending' = [q_sending EXCEPT ![p] = next_sending[L[k]]]
           /\ next_sending' = [next_sending EXCEPT ![L[k]] = NULL]
      ELSE /\ next_sending' = [next_sending EXCEPT ![L[k - 1]] = next_sending[L[k]], ![L[k]] = NULL]
           /\ UNCHANGED q_sending

\* A list from which msg_receive takes L[k] stands for the shorter queue, and
\* the other lists stay what they are.
LEMMA ListLeft ==
    ASSUME TypeOK, NEW p \in Proc, NEW L, Linked(L, p), NEW k \in 1 .. Len(L),
           flags' = [flags EXCEPT ![L[k]] = @ \ {SENDING}],
           send_to' = [send_to EXCEPT ![L[k]] = NO_TASK],
           Unlink(L, k, p),
           NEW e \in Proc, NEW Q, Linked(Q, e), e = p => Q = L
    PROVE  Linked(IF e = p THEN Whole!Dequeue(L, L[k]) ELSE Q, e)'
<1> USE DEF Unlink
<1> DEFINE from == L[k]
<1>0. L \in Seq(Proc) /\ Len(L) \in Nat /\ k \in Nat /\ k >= 1 /\ k <= Len(L)
  BY LenProperties DEF Linked
<1>1. from \in Proc /\ SendingTo(from, p)
  BY ListsApart
<1>2. k # 1 => k - 1 \in 1 .. Len(L) /\ L[k - 1] \in Proc /\ SendingTo(L[k - 1], p)
  <2>1. k # 1 => k - 1 \in 1 .. Len(L)
    BY <1>0
  <2> QED BY <2>1, ListsApart
<1> HIDE DEF from
<1>3. \A q, a \in Proc : SendingTo(q, a)' <=> SendingTo(q, a) /\ q # from
  BY <1>1, IpcStepsAssumption DEF SendingTo, TypeOK, from
<1>4. Q \in Seq(Proc) /\ IsInjective(Q) /\ Range(Q) = {q \in Proc : SendingTo(q, e)}
  BY DEF Linked
<1>5. CASE e # p
  <2>1. q_sending'[e] = q_sending[e]
    BY <1>5 DEF TypeOK
  <2>2. \A i \in 1 .. Len(Q) : next_sending'[Q[i]] = next_sending[Q[i]]
    <3> SUFFICES ASSUME NEW i \in 1 .. Len(Q) PROVE next_sending'[Q[i]] = next_sending[Q[i]]
      OBVIOUS
    <3>1. Q[i] \in Proc /\ SendingTo(Q[i], e)
      BY ListsApart
    <3>2. Q[i] # from /\ (k # 1 => Q[i] # L[k - 1])
      BY <1>1, <1>2, <1>5, <3>1 DEF SendingTo
    <3> QED BY <3>1, <3>2 DEF TypeOK, from
  <2>3. Range(Q) = {q \in Proc : SendingTo(q, e)'}
    <3>1. ~ SendingTo(from, e)
      BY <1>1, <1>5 DEF SendingTo
    <3> QED BY <1>3, <1>4, <3>1
  <2> QED BY <1>4, <1>5, <2>1, <2>2, <2>3 DEF Linked
<1>6. CASE e = p
  <2> DEFINE R == Whole!Dequeue(L, L[k])
  <2>0. L = Q /\ DOMAIN L = 1 .. Len(L)
    BY <1>0, <1>6, LenProperties
  <2>1. /\ R \in Seq(Proc) /\ IsInjective(R) /\ Range(R) = Range(L) \ {from}
        /\ Len(R) = Len(L) - 1
        /\ \A i \in 1 .. Len(L) - 1 : R[i] = IF i < k THEN L[i] ELSE L[i + 1]
    <3>1. k \in DOMAIN L /\ IsInjective(L)
      BY <1>0, <1>4, <2>0
    <3>2. R \in Seq(Proc) /\ IsInjective(R) /\ Range(R) = Range(L) \ {L[k]}
          /\ Len(R) = Len(L) - 1
          /\ \A i \in 1 .. Len(L) - 1 : R[i] = IF i < k THEN L[i] ELSE L[i + 1]
      BY <1>0, <3>1, DequeueMembers
    <3> QED BY <3>2 DEF from
  <2> HIDE DEF R
  <2>2. Range(R) = {q \in Proc : SendingTo(q, e)'}
    BY <1>3, <1>4, <2>0, <2>1
  <2>3. \A i \in 1 .. Len(L) : /\ L[i] \in Proc
                               /\ next_sending[L[i]] = IF i = Len(L) THEN NULL ELSE L[i + 1]
    BY ListsApart DEF Linked
  <2>4. \A i, j \in 1 .. Len(L) : L[i] = L[j] => i = j
    BY <1>4, <2>0 DEF IsInjective
  <2>5. q_sending'[e] = IF R = <<>> THEN NULL ELSE R[1]
    <3>0. R = <<>> <=> Len(L) = 1
      BY <1>0, <2>1, EmptySeq
    <3>1. CASE k = 1
      <4>1. q_sending'[e] = next_sending[L[1]]
        BY <1>6, <3>1 DEF TypeOK
      <4>2. 1 \in 1 .. Len(L)
        BY <1>0
      <4>3. Len(L) # 1 => R[1] = L[2]
        <5>1. ASSUME Len(L) # 1 PROVE 1 \in 1 .. Len(L) - 1
          <6>1. Len(L) \in Nat /\ Len(L) >= 1
            BY <1>0
          <6>2. \A n \in Nat : n >= 1 /\ n # 1 => 1 \in 1 .. n - 1
            OBVIOUS
          <6> QED BY <5>1, <6>1, <6>2, Zenon
        <5>2. ~ (1 < k) /\ 1 + 1 = 2
          BY <3>1
        <5> QED BY <2>1, <5>1, <5>2
      <4>4. next_sending[L[1]] = IF 1 = Len(L) THEN NULL ELSE L[1 + 1]
        BY <2>3, <4>2, Zenon
      <4> QED BY <3>0, <4>1, <4>3, <4>4
    <3>2. CASE k # 1
      <4>1. q_sending'[e] = L[1] /\ Len(L) # 1
        <5>1. L # <<>>
          BY <1>0, EmptySeq
        <5> QED BY <1>0, <1>6, <3>2, <5>1 DEF Linked
      <4>2. R[1] = L[1]
        <5>1. 1 \in 1 .. Len(L) - 1 /\ 1 < k
          BY <1>0, <3>2
        <5> QED BY <2>1, <5>1
      <4> QED BY <3>0, <4>1, <4>2
    <3> QED BY <3>1, <3>2
  <2>6. ASSUME NEW i \in 1 .. Len(R)
        PROVE  next_sending'[R[i]] = IF i = Len(R) THEN NULL ELSE R[i + 1]
    <3>0. i \in Nat /\ i >= 1 /\ i <= Len(L) - 1 /\ i \in 1 .. Len(L) /\ i + 1 \in 1 .. Len(L)
      BY <1>0, <2>1
    <3>1. CASE i < k - 1
      <4>0. /\ i < k /\ i + 1 < k /\ i # Len(L) - 1 /\ i # Len(L) /\ k # 1 /\ i # k /\ i # k - 1
            /\ i \in 1 .. Len(L) - 1 /\ i + 1 \in 1 .. Len(L) - 1
        BY <1>0, <3>0, <3>1
      <4>1. R[i] = L[i] /\ R[i + 1] = L[i + 1] /\ i # Len(R) /\ i # Len(L) /\ k # 1 /\ i # k /\ i # k - 1
        BY <2>1, <4>0
      <4>2. L[i] # L[k] /\ L[i] # L[k - 1]
        BY <1>2, <2>4, <3>0, <4>1
      <4> QED BY <2>3, <3>0, <4>1, <4>2 DEF TypeOK
    <3>2. CASE i = k - 1
      <4>1. R[i] = L[k - 1] /\ k # 1 /\ i + 1 = k
        BY <1>0, <2>1, <3>0, <3>2
      <4>2. i # Len(R) => R[i + 1] = L[k + 1]
        BY <1>0, <2>1, <3>0, <3>2
      <4>3. L[k - 1] # L[k]
        BY <1>0, <1>2, <2>4, <4>1
      <4>4. next_sending'[R[i]] = next_sending[L[k]]
        BY <1>2, <4>1, <4>3 DEF TypeOK
      <4>5. i = Len(R) <=> k = Len(L)
        BY <1>0, <2>1, <3>0, <3>2
      <4> QED BY <2>3, <4>2, <4>4, <4>5
    <3>3. CASE i >= k
      <4>1. R[i] = L[i + 1] /\ i + 1 # k /\ (k # 1 => i + 1 # k - 1)
        BY <1>0, <2>1, <3>0, <3>3
      <4>2. i # Len(R) => R[i + 1] = L[(i + 1) + 1]
        BY <1>0, <2>1, <3>0, <3>3
      <4>3. L[i + 1] # L[k] /\ (k # 1 => L[i + 1] # L[k - 1])
        BY <1>2, <2>4, <3>0, <4>1
      <4>4. next_sending'[R[i]] = next_sending[L[i + 1]]
        BY <2>3, <3>0, <4>1, <4>3 DEF TypeOK
      <4>5. i = Len(R) <=> i + 1 = Len(L)
        BY <1>0, <2>1, <3>0
      <4> QED BY <2>3, <3>0, <4>2, <4>4, <4>5
    <3> QED BY <1>0, <3>0, <3>1, <3>2, <3>3
  <2>7. Linked(R, e)'
    BY <2>1, <2>2, <2>5, <2>6 DEF Linked
  <2> QED BY <1>6, <2>7 DEF R
<1> QED BY <1>5, <1>6

\* The node before L[k], found by following the list.
LEMMA NodeBefore ==
    ASSUME NEW p \in Proc, NEW L, Linked(L, p), NEW k \in 1 .. Len(L)
    PROVE  /\ L[k] = q_sending[p] <=> k = 1
           /\ k # 1 => (CHOOSE r \in {L[i] : i \in DOMAIN L} : next_sending[r] = L[k]) = L[k - 1]
<1>0. L \in Seq(Proc) /\ DOMAIN L = 1 .. Len(L)
  BY LenProperties DEF Linked
<1>1. Len(L) \in Nat /\ k \in Nat /\ k >= 1 /\ k <= Len(L)
  BY LenProperties DEF Linked
<1>2. \A i, j \in 1 .. Len(L) : L[i] = L[j] => i = j
  BY <1>0 DEF Linked, IsInjective
<1>3. \A i \in 1 .. Len(L) : /\ L[i] \in Proc /\ L[i] # NULL
                             /\ next_sending[L[i]] = IF i = Len(L) THEN NULL ELSE L[i + 1]
  BY ListsApart, IpcStepsAssumption DEF Linked
<1>4. q_sending[p] = L[1] /\ 1 \in 1 .. Len(L)
  <2>1. L # <<>>
    BY <1>1, EmptySeq
  <2> QED BY <1>1, <2>1 DEF Linked
<1>5. ASSUME k # 1
      PROVE  (CHOOSE r \in {L[i] : i \in DOMAIN L} : next_sending[r] = L[k]) = L[k - 1]
  <2>1. k - 1 \in 1 .. Len(L) /\ k - 1 # Len(L) /\ (k - 1) + 1 = k
    BY <1>1, <1>5
  <2>2. next_sending[L[k - 1]] = L[k]
    BY <1>3, <2>1
  <2>3. ASSUME NEW i \in 1 .. Len(L), next_sending[L[i]] = L[k] PROVE i = k - 1
    <3>1. i # Len(L) /\ L[i + 1] = L[k]
      BY <1>3, <2>3
    <3>2. i + 1 \in 1 .. Len(L)
      BY <1>1, <3>1
    <3>3. i + 1 = k
      BY <1>2, <3>1, <3>2
    <3> QED BY <3>3
  <2> QED BY <1>0, <2>1, <2>2, <2>3
<1> QED BY <1>2, <1>4, <1>5

-----------------------------------------------------------------------------
(***************************************************************************)
(* Steps that leave parts of the state alone.                              *)
(***************************************************************************)

\* Who sends decides the lists: a step that changes no sender keeps them.
LEMMA ListsKept ==
    ASSUME Lists, UNCHANGED <<q_sending, next_sending, send_to>>,
           \A q \in Proc : SENDING \in flags'[q] <=> SENDING \in flags[q]
    PROVE  Lists'
<1>1. \A q, d \in Proc : SendingTo(q, d)' <=> SendingTo(q, d)
  BY DEF SendingTo
<1>2. ASSUME NEW d \in Proc, NEW Q \in Seq(Proc), Linked(Q, d) PROVE Linked(Q, d)'
  BY <1>1, <1>2 DEF Linked
<1>3. \A d \in Proc : \E Q \in Seq(Proc) : Linked(Q, d)'
  BY <1>2 DEF Lists
<1>4. \A p \in Proc : SENDING \notin flags'[p] => next_sending'[p] = NULL
  BY DEF Lists
<1> QED BY <1>3, <1>4 DEF Lists

\* The PCB of a process that a step leaves alone has the shape it had.
LEMMA ShapeKept ==
    ASSUME NEW p, flags'[p] = flags[p], p_msg'[p] = p_msg[p],
           send_to'[p] = send_to[p], recv_from'[p] = recv_from[p]
    PROVE  /\ Idle(p)' <=> Idle(p)
           /\ Sender(p)' <=> Sender(p)
           /\ Receiver(p)' <=> Receiver(p)
           /\ HalfWoken(p)' <=> HalfWoken(p)
           /\ \A m : HalfAsleep(p, m)' <=> HalfAsleep(p, m)
  BY DEF Idle, Sender, Receiver, HalfWoken, HalfAsleep

\* A step that changes no PCB and no list.
LEMMA PcbsSame ==
    ASSUME StepsInv, UNCHANGED <<pcb, list>>
    PROVE  /\ UNCHANGED <<flags, p_msg, recv_from, send_to, q_sending, next_sending>>
           /\ Lists' /\ NoneMissed'
           /\ \A p : /\ Idle(p)' <=> Idle(p)
                     /\ Sender(p)' <=> Sender(p)
                     /\ Receiver(p)' <=> Receiver(p)
                     /\ HalfWoken(p)' <=> HalfWoken(p)
                     /\ \A m : HalfAsleep(p, m)' <=> HalfAsleep(p, m)
           /\ \A p, s : /\ Awaits(p, s)' <=> Awaits(p, s)
                        /\ SenderReady(p, s)' <=> SenderReady(p, s)
<1>1. UNCHANGED <<flags, p_msg, recv_from, send_to, q_sending, next_sending>>
  BY DEF pcb, list
<1>2. Lists'
  BY <1>1, ListsKept DEF StepsInv
<1>3. \A p : /\ Idle(p)' <=> Idle(p)
             /\ Sender(p)' <=> Sender(p)
             /\ Receiver(p)' <=> Receiver(p)
             /\ HalfWoken(p)' <=> HalfWoken(p)
             /\ \A m : HalfAsleep(p, m)' <=> HalfAsleep(p, m)
  BY <1>1, ShapeKept
<1>4. \A p, s : (Awaits(p, s)' <=> Awaits(p, s)) /\ (SendingTo(p, s)' <=> SendingTo(p, s))
  BY <1>1 DEF Awaits, SendingTo
<1>5. \A p, s : SenderReady(p, s)' <=> SenderReady(p, s)
  BY <1>1, <1>4 DEF SenderReady
<1>6. NoneMissed'
  BY <1>4 DEF StepsInv, NoneMissed
<1> QED BY <1>1, <1>2, <1>3, <1>4, <1>5, <1>6

\* The call moves to its next statement.
LEMMA GoneTo ==
    ASSUME TypeOK, NEW pc, Goto(pc)
    PROVE  call'.pc = pc /\ call'.who = call.who /\ call'.peer = call.peer
           /\ (pc \in SendPc \cup RecvPc =>
                 call' \in [pc : {"user"} \cup SendPc \cup RecvPc,
                            who : Proc \cup {NULL}, peer : Proc \cup {ANY, INTERRUPT, NULL}])
  BY DEF TypeOK, Goto

\* kernel_main starts with idle PCBs and empty lists.
LEMMA InitInv == Init => StepsInv
<1> SUFFICES ASSUME Init PROVE StepsInv
  OBVIOUS
<1> USE DEF Init
<1>1. TypeOK
  <2>1. buf \in [Proc -> Message]
    BY DEF Message
  <2> QED BY <2>1 DEF TypeOK, User
<1>2. \A p \in Proc : Idle(p)
  BY DEF Idle
<1>3. Pcbs
  BY <1>2 DEF Pcbs
<1>4. Calls
  BY DEF Calls, User, SendPc, RecvPc
<1>5. \A p, d \in Proc : ~ SendingTo(p, d) /\ RECEIVING \notin flags[p]
  BY DEF SendingTo
<1>6. Lists
  <2>1. ASSUME NEW d \in Proc PROVE Linked(<<>>, d)
    BY <1>5, EmptySeq DEF Linked, IsInjective, Range
  <2> QED BY <2>1, EmptySeq DEF Lists
<1>7. NoneMissed /\ NoneIgnored /\ NoneStale
  BY <1>5 DEF NoneMissed, NoneIgnored, NoneStale, Awaits
<1> QED BY <1>1, <1>3, <1>4, <1>6, <1>7 DEF StepsInv

\* A SEND begins: only the caller's own message changes, or the kernel stops.
LEMMA SendEnterInv ==
    ASSUME StepsInv, NEW p \in Proc, NEW d \in Proc \ {p}, NEW t \in Type, SendEnter(p, d, t)
    PROVE  StepsInv'
<1>0. TypeOK /\ Pcbs /\ Calls /\ Lists /\ NoneMissed /\ NoneIgnored /\ NoneStale
  BY DEF StepsInv
<1>1. /\ call.pc = "user" /\ halted = "no" /\ flags[p] = {} /\ UNCHANGED <<pcb, list>>
      /\ buf' = [buf EXCEPT ![p] = [source |-> p, type |-> t]] /\ UNCHANGED has_int_msg
  BY DEF SendEnter, At
<1>2. \/ halted' = "deadlock" /\ call' = call
      \/ halted' = "no" /\ call' = [pc |-> "send.test", who |-> p, peer |-> d]
  BY <1>1 DEF SendEnter
<1>3. \A q \in Proc : Told(q)' => q # p /\ Told(q)
  BY <1>0, <1>1, IpcStepsAssumption DEF Told, TypeOK
<1>4. TypeOK'
  <2>1. [source |-> p, type |-> t] \in Message
    BY DEF Message
  <2>2. buf' \in [Proc -> Message] /\ halted' \in {"no", "deadlock", "assert"}
    BY <1>0, <1>1, <1>2, <2>1 DEF TypeOK
  <2>3. call' \in [pc : {"user"} \cup SendPc \cup RecvPc,
                   who : Proc \cup {NULL}, peer : Proc \cup {ANY, INTERRUPT, NULL}]
    BY <1>0, <1>2 DEF TypeOK, SendPc
  <2> QED BY <1>0, <1>1, <2>2, <2>3, PcbsSame DEF TypeOK
<1>5. Idle(p)
  BY <1>0, <1>1 DEF Pcbs, Sender, Receiver
<1>6. Pcbs'
  BY <1>0, <1>1, PcbsSame DEF Pcbs
<1>7. Calls'
  <2>1. CASE call' = call
    BY <1>0, <1>1, <2>1 DEF Calls, SendPc, RecvPc
  <2>2. CASE call' = [pc |-> "send.test", who |-> p, peer |-> d]
    BY <1>1, <1>3, <1>5, <2>2, PcbsSame DEF Calls, SendPc, RecvPc
  <2> QED BY <1>2, <2>1, <2>2
<1>8. NoneIgnored'
  BY <1>0, <1>1, <1>2, PcbsSame DEF NoneIgnored
<1>9. NoneStale'
  BY <1>0, <1>1, <1>3, PcbsSame DEF NoneStale
<1> QED BY <1>1, <1>4, <1>6, <1>7, <1>8, <1>9, PcbsSame DEF StepsInv

\* The steps of msg_send that change no PCB.
LEMMA SendMeetInv == ASSUME StepsInv, SendMeet PROVE StepsInv'
<1>0. TypeOK /\ Pcbs /\ Calls /\ Lists /\ NoneMissed /\ NoneIgnored /\ NoneStale
  BY DEF StepsInv
<1>1. /\ call.pc = "send.test" /\ Awaits(call.peer, call.who) /\ Goto("send.assert")
      /\ UNCHANGED <<pcb, list, has_int_msg, buf, halted>>
  BY DEF SendMeet, At
<1>2. call'.pc = "send.assert" /\ call'.who = call.who /\ call'.peer = call.peer
  BY <1>0, <1>1, GoneTo
<1>3. TypeOK'
  BY <1>0, <1>1, GoneTo, PcbsSame DEF TypeOK, SendPc
<1>4. Pcbs'
  BY <1>0, <1>1, <1>2, PcbsSame DEF Pcbs
<1>5. Receiver(call.peer)
  <2>1. RECEIVING \in flags[call.peer] /\ call.peer \in Proc
    BY <1>0, <1>1 DEF Awaits, Calls, SendPc
  <2> QED BY <1>0, <1>1, <2>1 DEF Pcbs, Idle, Sender, SENDING, RECEIVING
<1>6. Calls'
  BY <1>0, <1>1, <1>2, <1>5, PcbsSame DEF Calls, SendPc, RecvPc, Told
<1>7. NoneIgnored' /\ NoneStale'
  BY <1>0, <1>1, <1>2, PcbsSame DEF NoneIgnored, NoneStale, Told
<1> QED BY <1>1, <1>3, <1>4, <1>6, <1>7, PcbsSame DEF StepsInv

\* The assertion of proc.c:186.
LEMMA SendAssertInv == ASSUME StepsInv, SendAssert PROVE StepsInv'
<1>0. TypeOK /\ Pcbs /\ Calls /\ Lists /\ NoneMissed /\ NoneIgnored /\ NoneStale
  BY DEF StepsInv
<1>1. /\ call.pc = "send.assert" /\ halted = "no" /\ Goto("send.copy")
      /\ UNCHANGED <<pcb, list, has_int_msg, buf>>
      /\ halted' = IF p_msg[call.peer] THEN "no" ELSE "assert"
  BY DEF SendAssert, At, Asserts
<1>2. call'.pc = "send.copy" /\ call'.who = call.who /\ call'.peer = call.peer
  BY <1>0, <1>1, GoneTo
<1>3. TypeOK'
  BY <1>0, <1>1, GoneTo, PcbsSame DEF TypeOK, SendPc
<1>4. Pcbs'
  BY <1>0, <1>1, <1>2, PcbsSame DEF Pcbs
<1>5. Calls'
  BY <1>0, <1>1, <1>2, PcbsSame DEF Calls, SendPc, RecvPc, Told
<1>6. NoneIgnored' /\ NoneStale'
  BY <1>0, <1>1, <1>2, PcbsSame DEF NoneIgnored, NoneStale, Told
<1> QED BY <1>1, <1>3, <1>4, <1>5, <1>6, PcbsSame DEF StepsInv

\* phys_copy from the sender to the receiver, who has no interrupt's message
\* to lose.
LEMMA SendCopyInv == ASSUME StepsInv, SendCopy PROVE StepsInv'
<1>0. TypeOK /\ Pcbs /\ Calls /\ Lists /\ NoneMissed /\ NoneIgnored /\ NoneStale
  BY DEF StepsInv
<1>1. /\ call.pc = "send.copy" /\ Goto("send.p_msg")
      /\ UNCHANGED <<pcb, list, has_int_msg, halted>>
      /\ buf' = IF p_msg[call.peer] THEN [buf EXCEPT ![call.peer] = buf[call.who]] ELSE buf
  BY DEF SendCopy, At, Deliver
<1>2. call'.pc = "send.p_msg" /\ call'.who = call.who /\ call'.peer = call.peer
  BY <1>0, <1>1, GoneTo
<1>3. call.who \in Proc /\ call.peer \in Proc /\ ~ Told(call.who)
  BY <1>0, <1>1 DEF Calls, SendPc
<1>4. buf' \in [Proc -> Message] /\ \A q \in Proc : Told(q)' => Told(q)
  BY <1>0, <1>1, <1>3 DEF TypeOK, Told
<1>5. TypeOK'
  BY <1>0, <1>1, <1>4, GoneTo, PcbsSame DEF TypeOK, SendPc
<1>6. Pcbs'
  BY <1>0, <1>1, <1>2, PcbsSame DEF Pcbs
<1>7. Calls'
  BY <1>0, <1>1, <1>2, <1>3, <1>4, PcbsSame DEF Calls, SendPc, RecvPc
<1>8. NoneIgnored' /\ NoneStale'
  BY <1>0, <1>1, <1>2, <1>4, PcbsSame DEF NoneIgnored, NoneStale
<1> QED BY <1>1, <1>5, <1>6, <1>7, <1>8, PcbsSame DEF StepsInv

\* The steps of msg_receive that change no PCB.
LEMMA ReceiveEnterInv ==
    ASSUME StepsInv, NEW p \in Proc, NEW s \in Sources(p), ReceiveEnter(p, s)
    PROVE  StepsInv'
<1>0. TypeOK /\ Pcbs /\ Calls /\ Lists /\ NoneMissed /\ NoneIgnored /\ NoneStale
  BY DEF StepsInv
<1>1. /\ call.pc = "user" /\ flags[p] = {} /\ UNCHANGED <<pcb, list, has_int_msg, halted>>
      /\ buf' = [buf EXCEPT ![p].source = p]
  BY DEF ReceiveEnter, At
<1>2. call'.who = p /\ call'.peer = s /\ call'.pc \in {"recv.int", "recv.queue"}
  BY DEF ReceiveEnter
<1>3. buf' \in [Proc -> Message] /\ \A q \in Proc : Told(q)' => q # p /\ Told(q)
  <2>1. [buf[p] EXCEPT !.source = p] \in Message /\ [buf[p] EXCEPT !.source = p].source = p
    BY <1>0 DEF TypeOK, Message
  <2>2. buf' = [buf EXCEPT ![p] = [buf[p] EXCEPT !.source = p]]
    BY <1>1
  <2> QED BY <1>0, <2>1, <2>2, IpcStepsAssumption DEF Told, TypeOK
<1>4. TypeOK'
  <2>1. s \in Proc \cup {ANY, INTERRUPT, NULL}
    BY DEF Sources
  <2>2. call' \in [pc : {"user"} \cup SendPc \cup RecvPc,
                   who : Proc \cup {NULL}, peer : Proc \cup {ANY, INTERRUPT, NULL}]
    BY <2>1 DEF ReceiveEnter, RecvPc
  <2> QED BY <1>0, <1>1, <1>3, <2>2, PcbsSame DEF TypeOK
<1>5. Idle(p)
  BY <1>0, <1>1 DEF Pcbs, Sender, Receiver
<1>6. Pcbs'
  BY <1>0, <1>1, PcbsSame DEF Pcbs
<1>7. Calls'
  BY <1>1, <1>2, <1>3, <1>5, PcbsSame DEF Calls, SendPc, RecvPc
<1>8. NoneIgnored' /\ NoneStale'
  BY <1>0, <1>1, <1>3, PcbsSame DEF NoneIgnored, NoneStale
<1> QED BY <1>1, <1>4, <1>6, <1>7, <1>8, PcbsSame DEF StepsInv

\* A pending interrupt becomes the message HARD_INT.
LEMMA ReceiveInterruptInv == ASSUME StepsInv, ReceiveInterrupt PROVE StepsInv'
<1>0. TypeOK /\ Pcbs /\ Calls /\ Lists /\ NoneMissed /\ NoneIgnored /\ NoneStale
  BY DEF StepsInv
<1>1. /\ call.pc = "recv.int" /\ Goto("recv.clear") /\ UNCHANGED <<pcb, list, has_int_msg, halted>>
      /\ buf' = [buf EXCEPT ![call.who] = [source |-> INTERRUPT, type |-> HARD_INT]]
  BY DEF ReceiveInterrupt, At
<1>2. call'.pc = "recv.clear" /\ call'.who = call.who /\ call'.peer = call.peer
  BY <1>0, <1>1, GoneTo
<1>3. call.who \in Proc /\ Idle(call.who)
  BY <1>0, <1>1 DEF Calls, RecvPc
<1>4. buf' \in [Proc -> Message] /\ Told(call.who)' /\ \A q \in Proc \ {call.who} : Told(q)' => Told(q)
  <2>1. [source |-> INTERRUPT, type |-> HARD_INT] \in Message
    BY DEF Message
  <2>2. buf \in [Proc -> Message]
    BY <1>0 DEF TypeOK
  <2>3. buf' \in [Proc -> Message]
    BY <1>1, <2>1, <2>2
  <2>4. buf'[call.who] = [source |-> INTERRUPT, type |-> HARD_INT]
    BY <1>1, <1>3, <2>2
  <2>5. UNCHANGED call.who => Told(call.who)'
    BY <2>4 DEF Told
  <2>6. \A q \in Proc \ {call.who} : Told(q)' => Told(q)
    BY <1>1, <2>2 DEF Told
  <2> QED BY <1>2, <2>3, <2>5, <2>6
<1>5. TypeOK'
  BY <1>0, <1>1, <1>4, GoneTo, PcbsSame DEF TypeOK, RecvPc
<1>6. Pcbs'
  BY <1>0, <1>1, <1>2, PcbsSame DEF Pcbs
<1>7. Calls'
  BY <1>0, <1>1, <1>2, <1>3, <1>4, PcbsSame DEF Calls, SendPc, RecvPc
<1>8. NoneIgnored' /\ NoneStale'
  BY <1>0, <1>1, <1>2, <1>3, <1>4, PcbsSame DEF NoneIgnored, NoneStale, Idle
<1> QED BY <1>1, <1>5, <1>6, <1>7, <1>8, PcbsSame DEF StepsInv

\* Only then it is no longer pending.
LEMMA ReceiveClearInv == ASSUME StepsInv, ReceiveClear PROVE StepsInv'
<1>0. TypeOK /\ Pcbs /\ Calls /\ Lists /\ NoneMissed /\ NoneIgnored /\ NoneStale
  BY DEF StepsInv
<1>1. /\ call.pc = "recv.clear" /\ call' = User /\ UNCHANGED <<pcb, list, buf, halted>>
      /\ has_int_msg' = [has_int_msg EXCEPT ![call.who] = FALSE]
  BY DEF ReceiveClear, At
<1>2. call'.pc = "user" /\ call.who \in Proc
  BY <1>0, <1>1 DEF Calls, RecvPc, User
<1>3. has_int_msg' \in [Proc -> BOOLEAN] /\ \A q \in Proc : has_int_msg'[q] => has_int_msg[q]
  BY <1>0, <1>1, <1>2 DEF TypeOK
<1>4. TypeOK'
  BY <1>0, <1>1, <1>3, PcbsSame DEF TypeOK, User
<1>5. Pcbs'
  BY <1>0, <1>1, <1>2, PcbsSame DEF Pcbs
<1>6. Calls'
  BY <1>1, <1>2 DEF Calls, SendPc, RecvPc
<1>7. NoneIgnored' /\ NoneStale'
  BY <1>0, <1>1, <1>2, <1>3, PcbsSame DEF NoneIgnored, NoneStale, Told
<1> QED BY <1>1, <1>4, <1>5, <1>6, <1>7, PcbsSame DEF StepsInv

\* block(): its assertion may stop the kernel.
LEMMA ReceiveBlockInv == ASSUME StepsInv, ReceiveBlock PROVE StepsInv'
<1>0. TypeOK /\ Pcbs /\ Calls /\ Lists /\ NoneMissed /\ NoneIgnored /\ NoneStale
  BY DEF StepsInv
<1>1. /\ call.pc = "recv.block" /\ halted = "no" /\ Goto("recv.return")
      /\ UNCHANGED <<pcb, list, has_int_msg, buf>> /\ halted' \in {"no", "assert"}
  BY DEF ReceiveBlock, At, Asserts
<1>2. call'.pc = "recv.return" /\ call'.who = call.who /\ call'.peer = call.peer
  BY <1>0, <1>1, GoneTo
<1>3. TypeOK'
  BY <1>0, <1>1, GoneTo, PcbsSame DEF TypeOK, RecvPc
<1>4. Pcbs'
  BY <1>0, <1>1, <1>2, PcbsSame DEF Pcbs
<1>5. Calls'
  BY <1>0, <1>1, <1>2, PcbsSame DEF Calls, SendPc, RecvPc
<1>6. NoneIgnored' /\ NoneStale'
  BY <1>0, <1>1, <1>2, PcbsSame DEF NoneIgnored, NoneStale, Told
<1> QED BY <1>1, <1>3, <1>4, <1>5, <1>6, PcbsSame DEF StepsInv

\* The assertions at the end of msg_receive may stop the kernel, which is when
\* NoneIgnored ends.
LEMMA ReceiveReturnInv == ASSUME StepsInv, ReceiveReturn PROVE StepsInv'
<1>0. TypeOK /\ Pcbs /\ Calls /\ Lists /\ NoneMissed /\ NoneIgnored /\ NoneStale
  BY DEF StepsInv
<1>1. /\ call.pc = "recv.return" /\ halted = "no" /\ call' = User
      /\ UNCHANGED <<pcb, list, has_int_msg, buf>>
      /\ halted' \in {"no", "assert"} /\ (has_int_msg[call.who] => halted' = "assert")
  BY DEF ReceiveReturn, At, Asserts
<1>2. call'.pc = "user"
  BY <1>1 DEF User
<1>3. TypeOK'
  BY <1>0, <1>1, PcbsSame DEF TypeOK, User
<1>4. Pcbs'
  BY <1>0, <1>1, <1>2, PcbsSame DEF Pcbs
<1>5. Calls'
  BY <1>1, <1>2 DEF Calls, SendPc, RecvPc
<1>6. NoneIgnored' /\ NoneStale'
  BY <1>0, <1>1, <1>2, PcbsSame DEF NoneIgnored, NoneStale, Told
<1> QED BY <1>1, <1>3, <1>4, <1>5, <1>6, PcbsSame DEF StepsInv

\* The steps of msg_send that take the receiver's PCB apart.
LEMMA SendClearMsgInv == ASSUME StepsInv, SendClearMsg PROVE StepsInv'
<1>0. TypeOK /\ Pcbs /\ Calls /\ Lists /\ NoneMissed /\ NoneIgnored /\ NoneStale
  BY DEF StepsInv
<1>1. /\ call.pc = "send.p_msg" /\ Goto("send.flags")
      /\ p_msg' = [p_msg EXCEPT ![call.peer] = FALSE]
      /\ UNCHANGED <<flags, recv_from, send_to, q_sending, next_sending, has_int_msg, buf, halted>>
  BY DEF SendClearMsg, At, list
<1>2. call'.pc = "send.flags" /\ call'.who = call.who /\ call'.peer = call.peer
  BY <1>0, <1>1, GoneTo
<1>3. /\ call.who \in Proc /\ call.peer \in Proc \ {call.who} /\ Idle(call.who) /\ ~ Told(call.who)
      /\ Idle(call.peer) \/ Receiver(call.peer)
  BY <1>0, <1>1 DEF Calls, SendPc
<1>4. p_msg'[call.peer] = FALSE /\ \A q \in Proc \ {call.peer} : p_msg'[q] = p_msg[q]
  BY <1>0, <1>1, <1>3 DEF TypeOK
<1>5. TypeOK'
  BY <1>0, <1>1, GoneTo DEF TypeOK, SendPc
<1>6. \A q \in Proc \ {call.peer} : /\ Idle(q)' <=> Idle(q)
                                    /\ Sender(q)' <=> Sender(q)
                                    /\ Receiver(q)' <=> Receiver(q)
  BY <1>1, <1>4, ShapeKept
<1>7. Pcbs'
  BY <1>0, <1>1, <1>2, <1>6 DEF Pcbs
<1>8. (Idle(call.peer) \/ HalfWoken(call.peer))'
  BY <1>1, <1>2, <1>3, <1>4 DEF Idle, Receiver, HalfWoken
<1>9. Calls'
  BY <1>1, <1>2, <1>3, <1>6, <1>8 DEF Calls, SendPc, RecvPc, Told
<1>10. Lists'
  BY <1>0, <1>1, ListsKept
<1>11. NoneMissed' /\ NoneIgnored' /\ NoneStale'
  BY <1>0, <1>1, <1>2 DEF NoneMissed, NoneIgnored, NoneStale, Told, SendingTo, Awaits
<1> QED BY <1>5, <1>7, <1>9, <1>10, <1>11 DEF StepsInv

\* The receiver is no longer RECEIVING and still has its recv_from.
LEMMA SendClearFlagsInv == ASSUME StepsInv, SendClearFlags PROVE StepsInv'
<1> USE DEF SENDING, RECEIVING
<1>0. TypeOK /\ Pcbs /\ Calls /\ Lists /\ NoneMissed /\ NoneIgnored /\ NoneStale
  BY DEF StepsInv
<1>1. /\ call.pc = "send.flags" /\ Goto("send.recv_from")
      /\ flags' = [flags EXCEPT ![call.peer] = @ \ {RECEIVING}]
      /\ UNCHANGED <<p_msg, recv_from, send_to, q_sending, next_sending, has_int_msg, buf, halted>>
  BY DEF SendClearFlags, At, list
<1>2. call'.pc = "send.recv_from" /\ call'.who = call.who /\ call'.peer = call.peer
  BY <1>0, <1>1, GoneTo
<1>3. /\ call.who \in Proc /\ call.peer \in Proc \ {call.who} /\ Idle(call.who) /\ ~ Told(call.who)
      /\ Idle(call.peer) \/ HalfWoken(call.peer)
  BY <1>0, <1>1 DEF Calls, SendPc
<1>4. flags'[call.peer] = {} /\ \A q \in Proc \ {call.peer} : flags'[q] = flags[q]
  BY <1>0, <1>1, <1>3 DEF TypeOK, Idle, HalfWoken
<1>5. TypeOK'
  BY <1>0, <1>1, GoneTo DEF TypeOK, SendPc
<1>6. \A q \in Proc \ {call.peer} : /\ Idle(q)' <=> Idle(q)
                                    /\ Sender(q)' <=> Sender(q)
                                    /\ Receiver(q)' <=> Receiver(q)
  BY <1>1, <1>4, ShapeKept
<1>7. Pcbs'
  BY <1>0, <1>1, <1>2, <1>6 DEF Pcbs
<1>8. (flags[call.peer] = {} /\ p_msg[call.peer] = FALSE /\ send_to[call.peer] = NO_TASK)'
  BY <1>1, <1>2, <1>3, <1>4 DEF Idle, HalfWoken
<1>9. Calls'
  BY <1>1, <1>2, <1>3, <1>6, <1>8 DEF Calls, SendPc, RecvPc, Told
<1>10. SENDING \notin flags[call.peer]
  BY <1>3 DEF Idle, HalfWoken
<1>11. \A q \in Proc : /\ SENDING \in flags'[q] <=> SENDING \in flags[q]
                       /\ RECEIVING \in flags'[q] => RECEIVING \in flags[q]
  BY <1>4, <1>10
<1>12. Lists'
  BY <1>0, <1>1, <1>11, ListsKept
<1>13. NoneMissed' /\ NoneIgnored' /\ NoneStale'
  BY <1>0, <1>1, <1>2, <1>11 DEF NoneMissed, NoneIgnored, NoneStale, Told, SendingTo, Awaits
<1> QED BY <1>5, <1>7, <1>9, <1>12, <1>13 DEF StepsInv

\* The receiver is idle again.
LEMMA SendWakeInv == ASSUME StepsInv, SendWake PROVE StepsInv'
<1>0. TypeOK /\ Pcbs /\ Calls /\ Lists /\ NoneMissed /\ NoneIgnored /\ NoneStale
  BY DEF StepsInv
<1>1. /\ call.pc = "send.recv_from" /\ call' = User
      /\ recv_from' = [recv_from EXCEPT ![call.peer] = NO_TASK]
      /\ UNCHANGED <<flags, p_msg, send_to, q_sending, next_sending, has_int_msg, buf>>
      /\ halted = "no" /\ halted' \in {"no", "assert"}
  BY DEF SendWake, At, list, Asserts
<1>2. call'.pc = "user"
  BY <1>1 DEF User
<1>3. /\ call.peer \in Proc
      /\ flags[call.peer] = {} /\ p_msg[call.peer] = FALSE /\ send_to[call.peer] = NO_TASK
  BY <1>0, <1>1 DEF Calls, SendPc
<1>4. recv_from'[call.peer] = NO_TASK /\ \A q \in Proc \ {call.peer} : recv_from'[q] = recv_from[q]
  BY <1>0, <1>1, <1>3 DEF TypeOK
<1>5. TypeOK'
  BY <1>0, <1>1 DEF TypeOK, User
<1>6. Pcbs'
  <2>1. ASSUME NEW q \in Proc, q = call.peer
        PROVE  flags'[q] = {} /\ p_msg'[q] = FALSE /\ send_to'[q] = NO_TASK /\ recv_from'[q] = NO_TASK
    BY <1>1, <1>3, <1>4, <2>1
  <2>2. ASSUME NEW q \in Proc, q # call.peer PROVE (Idle(q) \/ Sender(q) \/ Receiver(q))'
    BY <1>0, <1>1, <1>4, <2>2, ShapeKept DEF Pcbs
  <2> QED BY <2>1, <2>2 DEF Pcbs, Idle
<1>7. Calls'
  BY <1>1, <1>2 DEF Calls, SendPc, RecvPc
<1>8. Lists'
  BY <1>0, <1>1, ListsKept
<1>9. \A q \in Proc : \A s : Awaits(q, s)' => Awaits(q, s)
  BY <1>1, <1>3, <1>4 DEF Awaits
<1>10. NoneMissed' /\ NoneIgnored' /\ NoneStale'
  BY <1>0, <1>1, <1>9 DEF NoneMissed, NoneIgnored, NoneStale, Told, SendingTo
<1> QED BY <1>5, <1>6, <1>7, <1>8, <1>10 DEF StepsInv

\* The steps of msg_receive that put its caller to sleep.
LEMMA ReceiveFlagsInv == ASSUME StepsInv, ReceiveFlags PROVE StepsInv'
<1> USE DEF SENDING, RECEIVING
<1>0. TypeOK /\ Pcbs /\ Calls /\ Lists /\ NoneMissed /\ NoneIgnored /\ NoneStale
  BY DEF StepsInv
<1>1. /\ call.pc = "recv.queue" /\ ~ SenderReady(call.who, call.peer) /\ Goto("recv.p_msg")
      /\ flags' = [flags EXCEPT ![call.who] = @ \cup {RECEIVING}]
      /\ UNCHANGED <<p_msg, recv_from, send_to, q_sending, next_sending, has_int_msg, buf, halted>>
  BY DEF ReceiveFlags, At, list
<1>2. call'.pc = "recv.p_msg" /\ call'.who = call.who /\ call'.peer = call.peer
  BY <1>0, <1>1, GoneTo
<1>3. /\ call.who \in Proc /\ call.peer \in Sources(call.who) /\ Idle(call.who) /\ ~ Told(call.who)
  BY <1>0, <1>1 DEF Calls, RecvPc
<1>4. flags'[call.who] = {RECEIVING} /\ \A q \in Proc \ {call.who} : flags'[q] = flags[q]
  BY <1>0, <1>1, <1>3 DEF TypeOK, Idle
<1>5. TypeOK'
  BY <1>0, <1>1, GoneTo DEF TypeOK, RecvPc
<1>6. \A q \in Proc \ {call.who} : /\ Idle(q)' <=> Idle(q)
                                   /\ Sender(q)' <=> Sender(q)
                                   /\ Receiver(q)' <=> Receiver(q)
  BY <1>1, <1>4, ShapeKept
<1>7. Pcbs'
  BY <1>0, <1>1, <1>2, <1>6 DEF Pcbs
<1>8. HalfAsleep(call.who, FALSE)'
  BY <1>1, <1>2, <1>3, <1>4 DEF Idle, HalfAsleep
<1>9. \A q \in Proc : SENDING \in flags'[q] <=> SENDING \in flags[q]
  BY <1>3, <1>4 DEF Idle
<1>10. ~ SenderReady(call.who, call.peer)'
  BY <1>1, <1>2, <1>3, <1>9 DEF SenderReady, SendingTo
<1>11. Calls'
  BY <1>1, <1>2, <1>3, <1>8, <1>10 DEF Calls, SendPc, RecvPc, Sources
<1>12. Lists'
  BY <1>0, <1>1, <1>9, ListsKept
<1>13. \A q \in Proc : \A s : s # NO_TASK /\ Awaits(q, s)' => Awaits(q, s)
  BY <1>1, <1>3, <1>4, IpcStepsAssumption DEF Awaits, Idle
<1>14. NoneMissed' /\ NoneIgnored'
  BY <1>0, <1>1, <1>9, <1>13, IpcStepsAssumption DEF NoneMissed, NoneIgnored, SendingTo
<1>15. NoneStale'
  BY <1>0, <1>1, <1>3, <1>4 DEF NoneStale, Told
<1> QED BY <1>5, <1>7, <1>11, <1>12, <1>14, <1>15 DEF StepsInv

\* The caller has RECEIVING, then p_msg.
LEMMA ReceiveMsgInv == ASSUME StepsInv, ReceiveMsg PROVE StepsInv'
<1>0. TypeOK /\ Pcbs /\ Calls /\ Lists /\ NoneMissed /\ NoneIgnored /\ NoneStale
  BY DEF StepsInv
<1>1. /\ call.pc = "recv.p_msg" /\ Goto("recv.recv_from")
      /\ p_msg' = [p_msg EXCEPT ![call.who] = TRUE]
      /\ UNCHANGED <<flags, recv_from, send_to, q_sending, next_sending, has_int_msg, buf, halted>>
  BY DEF ReceiveMsg, At, list
<1>2. call'.pc = "recv.recv_from" /\ call'.who = call.who /\ call'.peer = call.peer
  BY <1>0, <1>1, GoneTo
<1>3. /\ call.who \in Proc /\ call.peer \in Sources(call.who) /\ HalfAsleep(call.who, FALSE)
      /\ ~ SenderReady(call.who, call.peer)
  BY <1>0, <1>1 DEF Calls, RecvPc
<1>4. p_msg'[call.who] = TRUE /\ \A q \in Proc \ {call.who} : p_msg'[q] = p_msg[q]
  BY <1>0, <1>1, <1>3 DEF TypeOK
<1>5. TypeOK'
  BY <1>0, <1>1, GoneTo DEF TypeOK, RecvPc
<1>6. \A q \in Proc \ {call.who} : /\ Idle(q)' <=> Idle(q)
                                   /\ Sender(q)' <=> Sender(q)
                                   /\ Receiver(q)' <=> Receiver(q)
  BY <1>1, <1>4, ShapeKept
<1>7. Pcbs'
  BY <1>0, <1>1, <1>2, <1>6 DEF Pcbs
<1>8. HalfAsleep(call.who, TRUE)'
  BY <1>1, <1>2, <1>3, <1>4 DEF HalfAsleep
<1>9. ~ SenderReady(call.who, call.peer)'
  BY <1>1, <1>2, <1>3 DEF SenderReady, SendingTo
<1>10. Calls'
  BY <1>1, <1>2, <1>3, <1>8, <1>9 DEF Calls, SendPc, RecvPc, Sources
<1>11. Lists'
  BY <1>0, <1>1, ListsKept
<1>12. NoneMissed' /\ NoneIgnored' /\ NoneStale'
  BY <1>0, <1>1, <1>2 DEF NoneMissed, NoneIgnored, NoneStale, Told, SendingTo, Awaits
<1> QED BY <1>5, <1>7, <1>10, <1>11, <1>12 DEF StepsInv

\* From here on an interrupt wakes the caller, and a sender would: none waits.
LEMMA ReceiveFromInv == ASSUME StepsInv, ReceiveFrom PROVE StepsInv'
<1> USE DEF SENDING, RECEIVING
<1>0. TypeOK /\ Pcbs /\ Calls /\ Lists /\ NoneMissed /\ NoneIgnored /\ NoneStale
  BY DEF StepsInv
<1>1. /\ call.pc = "recv.recv_from" /\ Goto("recv.block")
      /\ recv_from' = [recv_from EXCEPT ![call.who] = call.peer]
      /\ UNCHANGED <<flags, p_msg, send_to, q_sending, next_sending, has_int_msg, buf, halted>>
  BY DEF ReceiveFrom, At, list
<1>2. call'.pc = "recv.block" /\ call'.who = call.who /\ call'.peer = call.peer
  BY <1>0, <1>1, GoneTo
<1>3. /\ call.who \in Proc /\ call.peer \in Sources(call.who) /\ HalfAsleep(call.who, TRUE)
      /\ ~ SenderReady(call.who, call.peer)
  BY <1>0, <1>1 DEF Calls, RecvPc
<1>4. call.peer \in Proc \cup {ANY, INTERRUPT} /\ call.peer # NO_TASK
  BY <1>3, IpcStepsAssumption DEF Sources
<1>5. recv_from'[call.who] = call.peer /\ \A q \in Proc \ {call.who} : recv_from'[q] = recv_from[q]
  BY <1>0, <1>1, <1>3 DEF TypeOK
<1>6. TypeOK'
  BY <1>0, <1>1, <1>4, GoneTo DEF TypeOK, RecvPc
<1>7. \A q \in Proc \ {call.who} : /\ Idle(q)' <=> Idle(q)
                                   /\ Sender(q)' <=> Sender(q)
                                   /\ Receiver(q)' <=> Receiver(q)
  BY <1>1, <1>5, ShapeKept
<1>8. Receiver(call.who)'
  BY <1>1, <1>2, <1>3, <1>4, <1>5 DEF HalfAsleep, Receiver
<1>9. Pcbs'
  BY <1>0, <1>1, <1>2, <1>7, <1>8 DEF Pcbs
<1>10. Calls'
  BY <1>1, <1>2, <1>3, <1>8 DEF Calls, SendPc, RecvPc, Sources
<1>11. Lists'
  BY <1>0, <1>1, ListsKept
<1>12. NoneMissed'
  <2> SUFFICES ASSUME NEW q \in Proc, NEW d \in Proc, SendingTo(q, d)', Awaits(d, q)' PROVE FALSE
    BY DEF NoneMissed
  <2>1. SendingTo(q, d)
    BY <1>1 DEF SendingTo
  <2>2. CASE d # call.who
    BY <1>0, <1>1, <1>5, <2>1, <2>2 DEF NoneMissed, Awaits
  <2>3. CASE d = call.who
    <3>1. call.peer \in {q, ANY}
      BY <1>5, <2>3 DEF Awaits
    <3>2. CASE call.peer = ANY
      <4>1. PICK Q \in Seq(Proc) : Linked(Q, d)
        BY <1>0 DEF Lists
      <4>2. q_sending[d] = NULL
        BY <1>3, <2>3, <3>2 DEF SenderReady
      <4>3. Q = <<>>
        <5>1. CASE Q # <<>>
          <6>1. 1 \in 1 .. Len(Q)
            BY <5>1, EmptySeq
          <6>2. Q[1] \in Proc /\ q_sending[d] = Q[1]
            BY <4>1, <5>1, <6>1, ListsApart DEF Linked
          <6> QED BY <4>2, <6>2, IpcStepsAssumption
        <5> QED BY <5>1
      <4>4. q \in Range(Q)
        BY <2>1, <4>1 DEF Linked
      <4> QED BY <4>3, <4>4 DEF Range
    <3>3. CASE call.peer = q
      BY <1>3, <2>1, <2>3, <3>3, IpcStepsAssumption DEF SenderReady
    <3> QED BY <3>1, <3>2, <3>3
  <2> QED BY <2>2, <2>3
<1>13. NoneIgnored'
  BY <1>0, <1>1, <1>2, <1>5 DEF NoneIgnored, Awaits
<1>14. NoneStale'
  BY <1>0, <1>1 DEF NoneStale, Told
<1> QED BY <1>6, <1>9, <1>10, <1>11, <1>12, <1>13, <1>14 DEF StepsInv

\* msg_send queues its caller.
LEMMA SendQueueLists ==
    ASSUME StepsInv, SendQueue, NEW p, NEW d, p = call.who, d = call.peer
    PROVE  /\ p \in Proc /\ d \in Proc \ {p} /\ Idle(p)
           /\ \A e \in Proc : \A Q : Linked(Q, e) => Linked(IF e = d THEN Append(Q, p) ELSE Q, e)'
           /\ \A L : Linked(L, d) => LinkLast(L, p, d)
<1>0. TypeOK /\ Calls /\ Lists
  BY DEF StepsInv
<1>1. p \in Proc /\ d \in Proc \ {p} /\ Idle(p)
  BY <1>0 DEF Calls, SendPc, SendQueue, At
<1>2. SENDING \notin flags[p]
  BY <1>1 DEF Idle
<1>3. PICK L \in Seq(Proc) : Linked(L, d)
  BY <1>0, <1>1 DEF Lists
<1>4. Chain(q_sending[d]) = L
  BY <1>1, <1>3, ChainRead
<1>5. /\ flags' = [flags EXCEPT ![p] = @ \cup {SENDING}]
      /\ send_to' = [send_to EXCEPT ![p] = d]
  BY DEF SendQueue
<1>7. LinkLast(L, p, d)
  BY <1>4 DEF SendQueue, LinkLast
<1>6. ASSUME NEW e \in Proc, NEW Q, Linked(Q, e)
      PROVE  Linked(IF e = d THEN Append(Q, p) ELSE Q, e)'
  <2>1. e = d => Q = L
    BY <1>3, <1>4, <1>6, ChainRead
  <2> QED BY <1>0, <1>1, <1>2, <1>3, <1>5, <1>6, <1>7, <2>1, ListJoined
<1>8. ASSUME NEW M, Linked(M, d) PROVE LinkLast(M, p, d)
  <2>1. M = L
    BY <1>1, <1>3, <1>4, <1>8, ChainRead
  <2> QED BY <1>7, <2>1
<1> QED BY <1>1, <1>6, <1>8

\* The caller becomes a sender, the last of the list.
LEMMA SendQueueInv == ASSUME StepsInv, SendQueue PROVE StepsInv'
<1> USE DEF SENDING, RECEIVING
<1> PICK p, d : p = call.who /\ d = call.peer
  OBVIOUS
<1>0. TypeOK /\ Pcbs /\ Calls /\ Lists /\ NoneMissed /\ NoneIgnored /\ NoneStale
  BY DEF StepsInv
<1>1. /\ p \in Proc /\ d \in Proc \ {p} /\ Idle(p)
      /\ \A e \in Proc : \A Q : Linked(Q, e) => Linked(IF e = d THEN Append(Q, p) ELSE Q, e)'
      /\ \A L : Linked(L, d) => LinkLast(L, p, d)
  BY SendQueueLists
<1>2. /\ call.pc = "send.test" /\ halted = "no" /\ ~ Awaits(d, p) /\ call' = User
      /\ flags' = [flags EXCEPT ![p] = @ \cup {SENDING}]
      /\ send_to' = [send_to EXCEPT ![p] = d]
      /\ p_msg' = [p_msg EXCEPT ![p] = TRUE]
      /\ UNCHANGED <<recv_from, has_int_msg, buf>>
  BY DEF SendQueue, At
<1>3. halted' \in {"no", "assert"}
  BY <1>2 DEF SendQueue, Asserts
<1>4. PICK L \in Seq(Proc) : Linked(L, d)
  BY <1>0, <1>1 DEF Lists
<1>5. LinkLast(L, p, d)
  BY <1>1, <1>4
<1>6. call'.pc = "user"
  BY <1>2 DEF User
<1>7. /\ flags'[p] = {SENDING} /\ send_to'[p] = d /\ p_msg'[p] = TRUE /\ recv_from'[p] = NO_TASK
      /\ \A q \in Proc \ {p} : flags'[q] = flags[q] /\ send_to'[q] = send_to[q] /\ p_msg'[q] = p_msg[q]
  BY <1>0, <1>1, <1>2 DEF TypeOK, Idle
<1>8. TypeOK'
  <2>1. q_sending' \in [Proc -> Proc \cup {NULL}] /\ next_sending' \in [Proc -> Proc \cup {NULL}]
    BY <1>0, <1>1, <1>5, ListsApart, EmptySeq DEF TypeOK, LinkLast
  <2>2. flags' \in [Proc -> SUBSET {SENDING, RECEIVING}]
    BY <1>0, <1>2 DEF TypeOK
  <2>3. send_to' \in [Proc -> Proc \cup {NO_TASK}] /\ p_msg' \in [Proc -> BOOLEAN]
    BY <1>0, <1>1, <1>2 DEF TypeOK
  <2>4. call' \in [pc : {"user"} \cup SendPc \cup RecvPc,
                   who : Proc \cup {NULL}, peer : Proc \cup {ANY, INTERRUPT, NULL}]
    BY <1>2 DEF User
  <2> QED BY <1>0, <1>2, <1>3, <2>1, <2>2, <2>3, <2>4 DEF TypeOK
<1>9. Sender(p)'
  BY <1>1, <1>7 DEF Sender
<1>10. Pcbs'
  <2>1. ASSUME NEW q \in Proc, q # p PROVE (Idle(q) \/ Sender(q) \/ Receiver(q))'
    BY <1>0, <1>2, <1>7, <2>1, ShapeKept DEF Pcbs
  <2> QED BY <1>9, <2>1 DEF Pcbs
<1>11. Calls'
  BY <1>2, <1>6 DEF Calls, SendPc, RecvPc
<1>12. Lists'
  <2>1. ASSUME NEW e \in Proc PROVE \E Q \in Seq(Proc) : Linked(Q, e)'
    <3>1. PICK Q \in Seq(Proc) : Linked(Q, e)
      BY <1>0, <2>1 DEF Lists
    <3>2. Linked(IF e = d THEN Append(Q, p) ELSE Q, e)'
      BY <1>1, <3>1
    <3> QED BY <3>2 DEF Linked
  <2>2. ASSUME NEW q \in Proc, SENDING \notin flags'[q] PROVE next_sending'[q] = NULL
    <3>1. q # p /\ SENDING \notin flags[q]
      BY <1>7, <2>2
    <3>2. L # <<>> => L[Len(L)] # q
      <4>1. L # <<>> => Len(L) \in 1 .. Len(L)
        BY EmptySeq
      <4> QED BY <1>4, <3>1, <4>1, ListsApart DEF SendingTo
    <3>3. next_sending'[q] = next_sending[q]
      BY <1>0, <1>5, <3>1, <3>2 DEF TypeOK, LinkLast
    <3> QED BY <1>0, <3>1, <3>3 DEF Lists
  <2> QED BY <2>1, <2>2 DEF Lists
<1>13. \A q \in Proc : \A s : Awaits(q, s)' => q # p /\ Awaits(q, s)
  BY <1>2, <1>7 DEF Awaits
<1>14. NoneMissed'
  BY <1>0, <1>2, <1>7, <1>13 DEF NoneMissed, SendingTo
<1>15. NoneIgnored' /\ NoneStale'
  BY <1>0, <1>2, <1>3, <1>7, <1>13 DEF NoneIgnored, NoneStale, Told
<1> QED BY <1>8, <1>10, <1>11, <1>12, <1>14, <1>15 DEF StepsInv

\* msg_receive takes a sender out of its queue: who it is and where it stands.
LEMMA ReceiveQueuedLists ==
    ASSUME StepsInv, ReceiveQueued,
           NEW p, p = call.who,
           NEW from, from = IF call.peer = ANY THEN q_sending[p] ELSE call.peer
    PROVE  /\ p \in Proc /\ Idle(p)
           /\ from \in Proc /\ SendingTo(from, p) /\ from # p
           /\ \A e \in Proc : \A Q : Linked(Q, e) =>
                 Linked(IF e = p THEN Whole!Dequeue(Q, from) ELSE Q, e)'
           /\ q_sending' \in [Proc -> Proc \cup {NULL}] /\ next_sending' \in [Proc -> Proc \cup {NULL}]
           /\ next_sending'[from] = NULL
           /\ \A q \in Proc : SENDING \notin flags[q] => next_sending'[q] = next_sending[q]
<1>0. TypeOK /\ Calls /\ Lists
  BY DEF StepsInv
<1>1. p \in Proc /\ Idle(p) /\ call.peer \in Sources(p) /\ SenderReady(p, call.peer)
  BY <1>0 DEF Calls, RecvPc, ReceiveQueued, At
<1>2. PICK L \in Seq(Proc) : Linked(L, p)
  BY <1>0, <1>1 DEF Lists
<1>3. Chain(q_sending[p]) = L
  BY <1>1, <1>2, ChainRead
<1>4. from \in Proc /\ SendingTo(from, p)
  <2>1. CASE call.peer = ANY
    <3>1. q_sending[p] # NULL /\ from = q_sending[p]
      BY <1>1, <2>1 DEF SenderReady
    <3>2. L # <<>>
      BY <1>2, <3>1 DEF Linked
    <3>3. 1 \in 1 .. Len(L)
      BY <3>2, EmptySeq
    <3> QED BY <1>2, <3>1, <3>2, <3>3, ListsApart DEF Linked
  <2>2. CASE call.peer # ANY
    BY <1>1, <2>2 DEF SenderReady
  <2> QED BY <2>1, <2>2
<1>5. PICK k \in 1 .. Len(L) : L[k] = from
  <2>1. from \in Range(L)
    BY <1>2, <1>4 DEF Linked
  <2>2. DOMAIN L = 1 .. Len(L)
    BY LenProperties
  <2> QED BY <2>1, <2>2 DEF Range
<1>6. from # p
  BY <1>1, <1>4 DEF Idle, SendingTo
<1>7. /\ flags' = [flags EXCEPT ![L[k]] = @ \ {SENDING}]
      /\ send_to' = [send_to EXCEPT ![L[k]] = NO_TASK]
  BY <1>5 DEF ReceiveQueued
<1>8. Unlink(L, k, p)
  <2> DEFINE prev == IF from = q_sending[p] THEN NULL
                     ELSE CHOOSE r \in {L[i] : i \in DOMAIN L} : next_sending[r] = from
  <2>1. IF prev = NULL
          THEN /\ q_sending' = [q_sending EXCEPT ![p] = next_sending[from]]
               /\ next_sending' = [next_sending EXCEPT ![from] = NULL]
          ELSE /\ next_sending' = [next_sending EXCEPT ![prev] = next_sending[from], ![from] = NULL]
               /\ UNCHANGED q_sending
    BY <1>3 DEF ReceiveQueued
  <2>2. /\ from = q_sending[p] <=> k = 1
        /\ k # 1 => (CHOOSE r \in {L[i] : i \in DOMAIN L} : next_sending[r] = from) = L[k - 1]
    BY <1>1, <1>2, <1>5, NodeBefore
  <2>3. k # 1 => L[k - 1] # NULL
    <3>1. k # 1 => k - 1 \in 1 .. Len(L)
      BY LenProperties
    <3> QED BY <1>2, <3>1, ListsApart, IpcStepsAssumption
  <2>4. k = 1 => prev = NULL
    BY <2>2
  <2>5. k # 1 => prev = L[k - 1] /\ prev # NULL
    BY <2>2, <2>3
  <2> HIDE DEF prev
  <2> QED BY <1>5, <2>1, <2>4, <2>5 DEF Unlink
<1>9. ASSUME NEW e \in Proc, NEW Q, Linked(Q, e)
      PROVE  Linked(IF e = p THEN Whole!Dequeue(Q, from) ELSE Q, e)'
  <2>1. e = p => Q = L
    BY <1>1, <1>3, <1>9, ChainRead
  <2>2. Linked(IF e = p THEN Whole!Dequeue(L, L[k]) ELSE Q, e)'
    BY <1>0, <1>1, <1>2, <1>7, <1>8, <1>9, <2>1, ListLeft
  <2> QED BY <1>5, <2>1, <2>2
<1>10. k # 1 => L[k - 1] \in Proc /\ SendingTo(L[k - 1], p) /\ L[k - 1] # from
  <2>1. k # 1 => k - 1 \in 1 .. Len(L) /\ k - 1 # k
    BY LenProperties
  <2>2. DOMAIN L = 1 .. Len(L)
    BY LenProperties
  <2>3. \A i, j \in 1 .. Len(L) : L[i] = L[j] => i = j
    BY <1>2, <2>2 DEF Linked, IsInjective
  <2>4. k # 1 => L[k - 1] # L[k]
    BY <2>1, <2>3
  <2> QED BY <1>2, <1>5, <2>1, <2>4, ListsApart
<1>11. /\ q_sending' \in [Proc -> Proc \cup {NULL}] /\ next_sending' \in [Proc -> Proc \cup {NULL}]
       /\ next_sending'[from] = NULL
       /\ \A q \in Proc : SENDING \notin flags[q] => next_sending'[q] = next_sending[q]
  <2>1. next_sending[from] \in Proc \cup {NULL}
    BY <1>0, <1>4 DEF TypeOK
  <2>2. CASE k = 1
    BY <1>0, <1>1, <1>4, <1>5, <1>8, <2>1, <2>2 DEF TypeOK, SendingTo, Unlink
  <2>3. CASE k # 1
    <3> DEFINE b == L[k - 1]
    <3>1. b \in Proc /\ SENDING \in flags[b] /\ b # from /\ SENDING \in flags[from]
      BY <1>4, <1>10, <2>3 DEF SendingTo
    <3> HIDE DEF b
    <3>2. next_sending' = [next_sending EXCEPT ![b] = next_sending[from], ![from] = NULL] /\ UNCHANGED q_sending
      BY <1>5, <1>8, <2>3 DEF Unlink, b
    <3> QED BY <1>0, <1>4, <2>1, <3>1, <3>2 DEF TypeOK
  <2> QED BY <2>2, <2>3
<1> QED BY <1>1, <1>4, <1>6, <1>9, <1>11

\* A sender leaves the list, idle again, and its message is the caller's.
LEMMA ReceiveQueuedInv == ASSUME StepsInv, ReceiveQueued PROVE StepsInv'
<1> USE DEF SENDING, RECEIVING
<1>0. TypeOK /\ Pcbs /\ Calls /\ Lists /\ NoneMissed /\ NoneIgnored /\ NoneStale
  BY DEF StepsInv
<1> PICK p, from : p = call.who /\ from = IF call.peer = ANY THEN q_sending[p] ELSE call.peer
  OBVIOUS
<1>1. /\ p \in Proc /\ Idle(p) /\ from \in Proc /\ SendingTo(from, p) /\ from # p
      /\ \A e \in Proc : \A Q : Linked(Q, e) => Linked(IF e = p THEN Whole!Dequeue(Q, from) ELSE Q, e)'
      /\ q_sending' \in [Proc -> Proc \cup {NULL}] /\ next_sending' \in [Proc -> Proc \cup {NULL}]
      /\ next_sending'[from] = NULL
      /\ \A q \in Proc : SENDING \notin flags[q] => next_sending'[q] = next_sending[q]
  BY ReceiveQueuedLists
<1>2. /\ call.pc = "recv.queue" /\ halted = "no" /\ call' = User
      /\ buf' = [buf EXCEPT ![p] = buf[from]]
      /\ p_msg' = [p_msg EXCEPT ![from] = FALSE]
      /\ send_to' = [send_to EXCEPT ![from] = NO_TASK]
      /\ flags' = [flags EXCEPT ![from] = @ \ {SENDING}]
      /\ UNCHANGED <<recv_from, has_int_msg>>
  BY DEF ReceiveQueued, At
<1>3. halted' \in {"no", "assert"}
  BY <1>2 DEF ReceiveQueued, Asserts
<1>4. call'.pc = "user"
  BY <1>2 DEF User
<1>5. Sender(from)
  BY <1>0, <1>1, <1>2 DEF Pcbs, SendingTo, Idle, Receiver
<1>6. /\ flags'[from] = {} /\ send_to'[from] = NO_TASK /\ p_msg'[from] = FALSE /\ recv_from'[from] = NO_TASK
      /\ \A q \in Proc \ {from} : flags'[q] = flags[q] /\ send_to'[q] = send_to[q] /\ p_msg'[q] = p_msg[q]
  BY <1>0, <1>1, <1>2, <1>5 DEF TypeOK, Sender
<1>7. TypeOK'
  <2>1. flags' \in [Proc -> SUBSET {SENDING, RECEIVING}]
    BY <1>0, <1>2 DEF TypeOK
  <2>2. /\ send_to' \in [Proc -> Proc \cup {NO_TASK}] /\ p_msg' \in [Proc -> BOOLEAN]
        /\ buf' \in [Proc -> Message]
    BY <1>0, <1>1, <1>2 DEF TypeOK
  <2>3. call' \in [pc : {"user"} \cup SendPc \cup RecvPc,
                   who : Proc \cup {NULL}, peer : Proc \cup {ANY, INTERRUPT, NULL}]
    BY <1>2 DEF User
  <2> QED BY <1>0, <1>1, <1>2, <1>3, <2>1, <2>2, <2>3 DEF TypeOK
<1>8. Pcbs'
  <2>1. ASSUME NEW q \in Proc, q # from PROVE (Idle(q) \/ Sender(q) \/ Receiver(q))'
    BY <1>0, <1>2, <1>6, <2>1, ShapeKept DEF Pcbs
  <2>2. Idle(from)'
    BY <1>6 DEF Idle
  <2> QED BY <2>1, <2>2 DEF Pcbs
<1>9. Calls'
  BY <1>2, <1>4 DEF Calls, SendPc, RecvPc
<1>10. Lists'
  <2>1. ASSUME NEW e \in Proc PROVE \E Q \in Seq(Proc) : Linked(Q, e)'
    <3>1. PICK Q \in Seq(Proc) : Linked(Q, e)
      BY <1>0, <2>1 DEF Lists
    <3>2. Linked(IF e = p THEN Whole!Dequeue(Q, from) ELSE Q, e)'
      BY <1>1, <3>1
    <3> QED BY <3>2 DEF Linked
  <2>2. ASSUME NEW q \in Proc, SENDING \notin flags'[q] PROVE next_sending'[q] = NULL
    <3>1. CASE q = from
      BY <1>1, <3>1
    <3>2. CASE q # from
      <4>1. SENDING \notin flags[q]
        BY <1>6, <2>2, <3>2
      <4> QED BY <1>0, <1>1, <4>1 DEF Lists
    <3> QED BY <3>1, <3>2
  <2> QED BY <2>1, <2>2 DEF Lists
<1>11. \A q \in Proc : \A s : /\ Awaits(q, s)' => Awaits(q, s)
                              /\ SendingTo(q, s)' => s = NO_TASK \/ SendingTo(q, s)
  BY <1>2, <1>6 DEF Awaits, SendingTo
<1>12. NoneMissed'
  BY <1>0, <1>11, IpcStepsAssumption DEF NoneMissed
<1>13. NoneIgnored'
  BY <1>0, <1>2, <1>3, <1>11 DEF NoneIgnored
<1>14. NoneStale'
  <2>1. \A q \in Proc \ {p} : Told(q)' => Told(q)
    BY <1>0, <1>2 DEF Told, TypeOK
  <2>2. \A q \in Proc : RECEIVING \in flags'[q] => RECEIVING \in flags[q] /\ q # p
    BY <1>1, <1>6 DEF Idle
  <2> QED BY <1>0, <2>1, <2>2 DEF NoneStale
<1> QED BY <1>7, <1>8, <1>9, <1>10, <1>12, <1>13, <1>14 DEF StepsInv

\* An interrupt between any two steps: it wakes its task, or stays pending.
LEMMA InformAwaited ==
    ASSUME StepsInv, NEW p \in Proc, Awaits(p, INTERRUPT)
    PROVE  /\ flags[p] = {RECEIVING} /\ send_to[p] = NO_TASK /\ recv_from[p] # NO_TASK
           /\ p_msg[p] = FALSE => call.pc = "send.flags" /\ call.peer = p
           /\ Receiver(p) \/ HalfWoken(p)
           /\ call.pc \in SendPc \cup {"recv.int", "recv.clear", "recv.queue", "recv.p_msg", "recv.recv_from"}
                 => p # call.who
           /\ call.peer = p => call.pc # "send.recv_from"
<1>0. TypeOK /\ Pcbs /\ Calls
  BY DEF StepsInv
<1>1. RECEIVING \in flags[p] /\ recv_from[p] # NO_TASK
  BY IpcStepsAssumption DEF Awaits
<1>2. ~ Idle(p) /\ ~ Sender(p) /\ \A m : ~ HalfAsleep(p, m)
  BY <1>1 DEF Idle, Sender, HalfAsleep, SENDING, RECEIVING
<1>3. call.pc \in SendPc \cup {"recv.int", "recv.clear", "recv.queue", "recv.p_msg", "recv.recv_from"}
         => p # call.who
  BY <1>0, <1>2 DEF Calls, SendPc, RecvPc
<1>4. call.pc = "send.recv_from" => p # call.peer
  BY <1>0, <1>1 DEF Calls
<1>5. Receiver(p) \/ (HalfWoken(p) /\ call.pc = "send.flags" /\ call.peer = p)
  BY <1>0, <1>2, <1>3, <1>4 DEF Pcbs, Calls, SendPc
<1> QED BY <1>1, <1>3, <1>4, <1>5 DEF Receiver, HalfWoken

\* inform_int keeps what the call it cuts into has established.
LEMMA InformIntInv ==
    ASSUME StepsInv, NEW p \in IntTask, InformInt(p)
    PROVE  StepsInv'
<1> USE DEF SENDING, RECEIVING
<1>0. TypeOK /\ Pcbs /\ Calls /\ Lists /\ NoneMissed /\ NoneIgnored /\ NoneStale
  BY DEF StepsInv
<1>1. p \in Proc
  BY IpcStepsAssumption
<1>2. halted = "no" /\ UNCHANGED <<send_to, q_sending, next_sending, call>>
  BY DEF InformInt, list
<1>3. CASE ~ Awaits(p, INTERRUPT)
  <2>1. /\ has_int_msg' = [has_int_msg EXCEPT ![p] = TRUE]
        /\ UNCHANGED <<flags, p_msg, recv_from, buf, halted>>
    BY <1>3 DEF InformInt
  <2>2. UNCHANGED <<pcb, list>>
    BY <1>2, <2>1 DEF pcb, list
  <2>3. TypeOK'
    BY <1>0, <1>1, <1>2, <2>1 DEF TypeOK
  <2>4. Pcbs' /\ Calls'
    BY <1>0, <1>2, <2>1, <2>2, PcbsSame DEF Pcbs, Calls, Told, Sources
  <2>5. NoneIgnored'
    BY <1>0, <1>1, <1>2, <1>3, <2>1, <2>2, PcbsSame DEF NoneIgnored, TypeOK
  <2>6. NoneStale'
    BY <1>0, <2>1 DEF NoneStale, Told
  <2> QED BY <2>2, <2>3, <2>4, <2>5, <2>6, PcbsSame DEF StepsInv
<1>4. CASE Awaits(p, INTERRUPT)
  <2>1. /\ has_int_msg' = [has_int_msg EXCEPT ![p] = FALSE]
        /\ p_msg' = [p_msg EXCEPT ![p] = FALSE]
        /\ flags' = [flags EXCEPT ![p] = @ \ {RECEIVING}]
        /\ recv_from' = [recv_from EXCEPT ![p] = NO_TASK]
        /\ Deliver(p, [buf[p] EXCEPT !.source = INTERRUPT, !.type = HARD_INT])
        /\ Asserts(flags'[p] = {} /\ send_to[p] = NO_TASK)
    BY <1>4 DEF InformInt
  <2>2. /\ flags[p] = {RECEIVING} /\ send_to[p] = NO_TASK
        /\ call.pc \in SendPc \cup {"recv.int", "recv.clear", "recv.queue", "recv.p_msg", "recv.recv_from"}
              => p # call.who
        /\ call.peer = p => call.pc # "send.recv_from"
    BY <1>1, <1>4, InformAwaited
  <2>3. /\ flags'[p] = {} /\ p_msg'[p] = FALSE /\ recv_from'[p] = NO_TASK /\ send_to'[p] = NO_TASK
        /\ \A q \in Proc \ {p} : /\ flags'[q] = flags[q] /\ p_msg'[q] = p_msg[q]
                                 /\ recv_from'[q] = recv_from[q] /\ send_to'[q] = send_to[q]
    BY <1>0, <1>1, <1>2, <2>1, <2>2 DEF TypeOK
  <2>4. halted' = "no"
    BY <1>2, <2>1, <2>2, <2>3 DEF Asserts
  <2>5. buf' \in [Proc -> Message] /\ \A q \in Proc \ {p} : buf'[q] = buf[q]
    <3>1. [buf[p] EXCEPT !.source = INTERRUPT, !.type = HARD_INT] \in Message
      BY <1>0, <1>1 DEF TypeOK, Message
    <3> QED BY <1>0, <1>1, <2>1, <3>1 DEF TypeOK, Deliver
  <2>6. TypeOK'
    BY <1>0, <1>1, <1>2, <2>1, <2>4, <2>5 DEF TypeOK
  <2>7. Idle(p)'
    BY <2>3 DEF Idle
  <2>8. \A q \in Proc \ {p} : /\ Idle(q)' <=> Idle(q)
                              /\ Sender(q)' <=> Sender(q)
                              /\ Receiver(q)' <=> Receiver(q)
                              /\ HalfWoken(q)' <=> HalfWoken(q)
                              /\ \A m : HalfAsleep(q, m)' <=> HalfAsleep(q, m)
                              /\ Told(q)' <=> Told(q)
    BY <2>3, <2>5, ShapeKept DEF Told
  <2>9. Pcbs'
    BY <1>0, <1>2, <2>7, <2>8 DEF Pcbs
  <2>10. \A q \in Proc : SENDING \in flags'[q] <=> SENDING \in flags[q]
    BY <2>2, <2>3
  <2>11. \A q, s : q \in Proc => (SenderReady(q, s)' <=> SenderReady(q, s))
    BY <1>2, <2>10 DEF SenderReady, SendingTo
  <2>12. Calls'
    <3>1. call'.pc = call.pc /\ call'.who = call.who /\ call'.peer = call.peer
      BY <1>2
    <3>2. /\ call.pc \in SendPc => (Idle(call.who) /\ ~ Told(call.who))'
          /\ call.pc \in {"send.assert", "send.copy", "send.p_msg"} => (Idle(call.peer) \/ Receiver(call.peer))'
          /\ call.pc = "send.flags" => (Idle(call.peer) \/ HalfWoken(call.peer))'
      BY <1>0, <2>2, <2>7, <2>8, <3>1 DEF Calls, SendPc
    <3>3. call.pc = "send.recv_from" =>
             (flags[call.peer] = {} /\ p_msg[call.peer] = FALSE /\ send_to[call.peer] = NO_TASK)'
      BY <1>0, <2>2, <2>3, <3>1 DEF Calls, SendPc
    <3>4. /\ call.pc \in {"recv.int", "recv.clear", "recv.queue"} => Idle(call.who)'
          /\ call.pc = "recv.clear" => Told(call.who)'
          /\ call.pc = "recv.queue" => ~ Told(call.who)'
          /\ call.pc = "recv.p_msg" => HalfAsleep(call.who, FALSE)'
          /\ call.pc = "recv.recv_from" => HalfAsleep(call.who, TRUE)'
          /\ call.pc \in {"recv.block", "recv.return"} => (Idle(call.who) \/ Receiver(call.who))'
      BY <1>0, <2>2, <2>7, <2>8, <3>1 DEF Calls, RecvPc
    <3>5. call.pc \in {"recv.p_msg", "recv.recv_from"} => ~ SenderReady(call.who, call.peer)'
      BY <1>0, <2>11, <3>1 DEF Calls, RecvPc
    <3> QED BY <1>0, <1>2, <3>1, <3>2, <3>3, <3>4, <3>5 DEF Calls, Sources
  <2>13. Lists'
    BY <1>0, <1>2, <2>10, ListsKept
  <2>14. \A q \in Proc : \A s : Awaits(q, s)' => Awaits(q, s) /\ q # p
    BY <2>3 DEF Awaits
  <2>15. NoneMissed'
    BY <1>0, <1>2, <2>10, <2>14 DEF NoneMissed, SendingTo
  <2>16. NoneIgnored'
    BY <1>0, <1>2, <2>1, <2>14 DEF NoneIgnored, TypeOK
  <2>17. NoneStale'
    BY <1>0, <2>3, <2>8 DEF NoneStale
  <2> QED BY <2>6, <2>9, <2>12, <2>13, <2>15, <2>16, <2>17 DEF StepsInv
<1> QED BY <1>3, <1>4

\* Every step of Next keeps the invariant.
LEMMA NextInv == StepsInv /\ [Next]_vars => StepsInv'
<1> SUFFICES ASSUME StepsInv, [Next]_vars PROVE StepsInv'
  OBVIOUS
<1>1. CASE \E p \in Proc : \E d \in Proc \ {p}, t \in Type : SendEnter(p, d, t)
  BY <1>1, SendEnterInv
<1>2. CASE \E p \in Proc : \E s \in Sources(p) : ReceiveEnter(p, s)
  BY <1>2, ReceiveEnterInv
<1>3. CASE SendStep
  BY <1>3, SendMeetInv, SendQueueInv, SendAssertInv, SendCopyInv, SendClearMsgInv,
     SendClearFlagsInv, SendWakeInv DEF SendStep
<1>4. CASE ReceiveStep
  BY <1>4, ReceiveInterruptInv, ReceiveClearInv, ReceiveQueuedInv, ReceiveFlagsInv,
     ReceiveMsgInv, ReceiveFromInv, ReceiveBlockInv, ReceiveReturnInv DEF ReceiveStep
<1>5. CASE \E p \in IntTask : InformInt(p)
  BY <1>5, InformIntInv
<1>6. CASE UNCHANGED vars
  <2>1. /\ UNCHANGED <<flags, p_msg, recv_from, send_to, has_int_msg, q_sending, next_sending>>
        /\ UNCHANGED <<buf, halted, call>>
    BY <1>6 DEF vars, pcb, list
  <2>2. UNCHANGED <<pcb, list>>
    BY <1>6 DEF vars
  <2>3. TypeOK' /\ NoneIgnored' /\ NoneStale'
    BY <2>1 DEF StepsInv, TypeOK, NoneIgnored, NoneStale, Awaits, Told
  <2>4. Pcbs /\ Calls
    BY DEF StepsInv
  <2>5. \A p : Told(p)' <=> Told(p)
    BY <2>1 DEF Told
  <2>6. Pcbs'
    BY <2>1, <2>2, <2>4, PcbsSame DEF Pcbs
  <2>7. Calls'
    BY <2>1, <2>2, <2>4, <2>5, PcbsSame DEF Calls, Sources
  <2> QED BY <2>2, <2>3, <2>6, <2>7, PcbsSame DEF StepsInv
<1> QED BY <1>1, <1>2, <1>3, <1>4, <1>5, <1>6 DEF Next

-----------------------------------------------------------------------------
(***************************************************************************)
(* The theorems.                                                           *)
(***************************************************************************)

\* The invariant holds before, after and in the middle of every system call.
THEOREM Invariance == Spec => []StepsInv
  BY InitInv, NextInv, PTL DEF Spec

\* For any number of processes, and wherever interrupts cut into the calls,
\* the linked lists of proc.c (211-222, 336-346) hold exactly the waiting
\* senders, each once, and end.
THEOREM ListsHoldSenders == Spec => []ListsExact
<1>1. StepsInv => ListsExact
  <2> SUFFICES ASSUME StepsInv PROVE ListsExact
    OBVIOUS
  <2>1. Lists
    BY DEF StepsInv
  <2>2. ASSUME NEW d \in Proc
        PROVE  LET q == Chain(q_sending[d]) IN
               /\ {q[i] : i \in DOMAIN q} = {p \in Proc : SendingTo(p, d)}
               /\ Len(q) = Cardinality({p \in Proc : SendingTo(p, d)})
    <3>1. PICK Q \in Seq(Proc) : Linked(Q, d)
      BY <2>1 DEF Lists
    <3>2. Chain(q_sending[d]) = Q
      BY <3>1, ChainRead
    <3>3. Range(Q) = {p \in Proc : SendingTo(p, d)} /\ IsInjective(Q)
      BY <3>1 DEF Linked
    <3>4. Cardinality(Range(Q)) = Len(Q)
      BY <3>3, ListFits
    <3>5. {Q[i] : i \in DOMAIN Q} = Range(Q)
      BY DEF Range
    <3> QED BY <3>2, <3>3, <3>4, <3>5
  <2> QED BY <2>1, <2>2 DEF ListsExact, Lists
<1> QED BY <1>1, Invariance, PTL

\* The test for a waiting partner and going to sleep are many statements, and
\* still no interrupt between them makes a sender and its receiver miss each
\* other.
THEOREM NothingMissed == Spec => []NoMissedRendezvous
<1>1. StepsInv => NoMissedRendezvous
  BY DEF StepsInv, NoneMissed, NoMissedRendezvous
<1> QED BY <1>1, Invariance, PTL

\* What an interrupt does with the message it brings.
LEMMA InformKeeps ==
    ASSUME StepsInv, NEW p \in IntTask, InformInt(p), NEW t \in IntTask
    PROVE  /\ p = t => has_int_msg'[t] \/ Told(t)' \/ (call.pc = "send.flags" /\ call.peer = t)
           /\ has_int_msg[t] => has_int_msg'[t] \/ Told(t)'
           /\ Told(t) => Told(t)'
<1>0. TypeOK /\ NoneIgnored /\ Calls
  BY DEF StepsInv
<1>1. p \in Proc /\ t \in Proc
  BY IpcStepsAssumption
<1>2. CASE ~ Awaits(p, INTERRUPT)
  <2>1. has_int_msg' = [has_int_msg EXCEPT ![p] = TRUE] /\ UNCHANGED buf
    BY <1>2 DEF InformInt
  <2> QED BY <1>0, <1>1, <2>1 DEF TypeOK, Told
<1>3. CASE Awaits(p, INTERRUPT)
  <2>1. /\ has_int_msg' = [has_int_msg EXCEPT ![p] = FALSE] /\ halted = "no"
        /\ buf' = IF p_msg[p] THEN [buf EXCEPT ![p] = [buf[p] EXCEPT !.source = INTERRUPT, !.type = HARD_INT]]
                  ELSE buf
    BY <1>3 DEF InformInt, Deliver
  <2>2. p_msg[p] = FALSE => call.pc = "send.flags" /\ call.peer = p
    BY <1>1, <1>3, InformAwaited
  <2>3. has_int_msg[p] => p_msg[p]
    <3>1. has_int_msg[p] => call.pc \in {"recv.block", "recv.return"}
      BY <1>0, <1>1, <1>3, <2>1 DEF NoneIgnored
    <3>2. p_msg[p] \in BOOLEAN
      BY <1>0, <1>1 DEF TypeOK
    <3> QED BY <2>2, <3>1, <3>2
  <2>4. p_msg[p] => Told(p)'
    <3>1. [buf[p] EXCEPT !.source = INTERRUPT, !.type = HARD_INT].source = INTERRUPT
      BY <1>0, <1>1 DEF TypeOK, Message
    <3> QED BY <1>0, <1>1, <2>1, <3>1 DEF TypeOK, Told
  <2>5. \A q \in Proc : Told(q) => Told(q)'
    <3>1. \A q \in Proc \ {p} : buf'[q] = buf[q]
      BY <1>0, <1>1, <2>1 DEF TypeOK
    <3>2. ~ p_msg[p] => buf' = buf
      BY <2>1
    <3> QED BY <2>4, <3>1, <3>2 DEF Told
  <2>6. \A q \in Proc \ {p} : has_int_msg'[q] = has_int_msg[q]
    BY <1>0, <1>1, <2>1 DEF TypeOK
  <2>7. p_msg[p] \in BOOLEAN
    BY <1>0, <1>1 DEF TypeOK
  <2> QED BY <1>1, <2>2, <2>3, <2>4, <2>5, <2>6, <2>7
<1> QED BY <1>2, <1>3

\* What the statements of system calls do with messages of interrupts.
LEMMA CallKeeps ==
    ASSUME StepsInv, NEW t \in Proc,
           \/ \E p \in Proc : \E d \in Proc \ {p}, m \in Type : SendEnter(p, d, m)
           \/ \E p \in Proc : \E s \in Sources(p) : ReceiveEnter(p, s)
           \/ SendStep
           \/ ReceiveStep
    PROVE  /\ has_int_msg[t] => has_int_msg'[t] \/ Told(t)'
           /\ Told(t) => Told(t)' \/ call'.who = t \/ halted' = "deadlock"
<1>0. TypeOK /\ Calls /\ NoneStale
  BY DEF StepsInv
<1>1. ASSUME NEW p \in Proc, NEW d \in Proc \ {p}, NEW m \in Type, SendEnter(p, d, m)
      PROVE  /\ UNCHANGED has_int_msg /\ \A q \in Proc \ {p} : buf'[q] = buf[q]
             /\ call'.who = p \/ halted' = "deadlock"
  BY <1>0, <1>1 DEF SendEnter, TypeOK
<1>2. ASSUME NEW p \in Proc, NEW s \in Sources(p), ReceiveEnter(p, s)
      PROVE  UNCHANGED has_int_msg /\ call'.who = p /\ \A q \in Proc \ {p} : buf'[q] = buf[q]
  BY <1>0, <1>2 DEF ReceiveEnter, TypeOK
<1>3. CASE SendCopy
  <2>1. /\ UNCHANGED has_int_msg /\ call.pc = "send.copy"
        /\ buf' = IF p_msg[call.peer] THEN [buf EXCEPT ![call.peer] = buf[call.who]] ELSE buf
    BY <1>3 DEF SendCopy, Deliver, At
  <2>2. call.peer \in Proc /\ (Idle(call.peer) \/ Receiver(call.peer))
    BY <1>0, <2>1 DEF Calls, SendPc
  <2>3. p_msg[call.peer] => ~ Told(call.peer)
    BY <1>0, <2>2 DEF Idle, Receiver, NoneStale
  <2>4. Told(t) => Told(t)'
    BY <1>0, <2>1, <2>2, <2>3 DEF TypeOK, Told
  <2> QED BY <2>1, <2>4
<1>4. CASE SendMeet \/ SendQueue \/ SendAssert \/ SendClearMsg \/ SendClearFlags \/ SendWake
  <2>1. UNCHANGED <<has_int_msg, buf>>
    BY <1>4 DEF SendMeet, SendQueue, SendAssert, SendClearMsg, SendClearFlags, SendWake
  <2> QED BY <2>1 DEF Told
<1>5. CASE ReceiveInterrupt
  <2>1. UNCHANGED has_int_msg
        /\ buf' = [buf EXCEPT ![call.who] = [source |-> INTERRUPT, type |-> HARD_INT]]
    BY <1>5 DEF ReceiveInterrupt
  <2> QED BY <1>0, <2>1 DEF TypeOK, Told
<1>6. CASE ReceiveClear
  <2>1. /\ has_int_msg' = [has_int_msg EXCEPT ![call.who] = FALSE] /\ UNCHANGED buf
        /\ call.pc = "recv.clear"
    BY <1>6 DEF ReceiveClear, At
  <2>2. Told(call.who) /\ call.who \in Proc
    BY <1>0, <2>1 DEF Calls, RecvPc
  <2> QED BY <1>0, <2>1, <2>2 DEF TypeOK, Told
<1>7. CASE ReceiveQueued
  <2>1. /\ UNCHANGED has_int_msg /\ call.pc = "recv.queue"
        /\ buf' = [buf EXCEPT ![call.who] = buf[IF call.peer = ANY THEN q_sending[call.who] ELSE call.peer]]
    BY <1>7 DEF ReceiveQueued, At
  <2>2. ~ Told(call.who)
    BY <1>0, <2>1 DEF Calls
  <2> QED BY <1>0, <2>1, <2>2 DEF TypeOK, Told
<1>8. CASE ReceiveFlags \/ ReceiveMsg \/ ReceiveFrom \/ ReceiveBlock \/ ReceiveReturn
  <2>1. UNCHANGED <<has_int_msg, buf>>
    BY <1>8 DEF ReceiveFlags, ReceiveMsg, ReceiveFrom, ReceiveBlock, ReceiveReturn
  <2> QED BY <2>1 DEF Told
<1>9. ASSUME NEW p \in Proc, UNCHANGED has_int_msg, \A q \in Proc \ {p} : buf'[q] = buf[q],
             call'.who = p \/ halted' = "deadlock"
      PROVE  /\ has_int_msg[t] => has_int_msg'[t] \/ Told(t)'
             /\ Told(t) => Told(t)' \/ call'.who = t \/ halted' = "deadlock"
  BY <1>9 DEF Told
<1>10. CASE \E p \in Proc : \E d \in Proc \ {p}, m \in Type : SendEnter(p, d, m)
  BY <1>1, <1>9, <1>10
<1>11. CASE \E p \in Proc : \E s \in Sources(p) : ReceiveEnter(p, s)
  BY <1>2, <1>9, <1>11
<1> QED BY <1>3, <1>4, <1>5, <1>6, <1>7, <1>8, <1>10, <1>11 DEF SendStep, ReceiveStep

\* What InterruptsKept says of one step.
KeptStep(t) ==
    /\ InformInt(t) => has_int_msg'[t] \/ Told(t)' \/ (call.pc = "send.flags" /\ call.peer = t)
    /\ has_int_msg[t] => has_int_msg'[t] \/ Told(t)'
    /\ Told(t) => Told(t)' \/ call'.who = t \/ halted' = "deadlock"

\* No interrupt is forgotten: it stays pending, or lies as HARD_INT in its
\* task's buffer, until the task itself makes its next call, but for the one
\* between proc.c:191 and 192.
THEOREM InterruptsStay == Spec => InterruptsKept
<1>1. StepsInv /\ [Next]_vars => [\A t \in IntTask : KeptStep(t)]_vars
  <2> SUFFICES ASSUME StepsInv, Next, NEW t \in IntTask PROVE KeptStep(t)
    OBVIOUS
  <2>1. InformInt(t) => has_int_msg'[t] \/ Told(t)' \/ (call.pc = "send.flags" /\ call.peer = t)
    BY InformKeeps
  <2>2. t \in Proc
    BY IpcStepsAssumption
  <2>3. /\ has_int_msg[t] => has_int_msg'[t] \/ Told(t)'
        /\ Told(t) => Told(t)' \/ call'.who = t \/ halted' = "deadlock"
    <3>1. CASE \E p \in IntTask : InformInt(p)
      BY <3>1, InformKeeps
    <3>2. CASE ~ \E p \in IntTask : InformInt(p)
      BY <2>2, <3>2, CallKeeps DEF Next
    <3> QED BY <3>1, <3>2
  <2> QED BY <2>1, <2>3 DEF KeptStep
<1>2. [\A t \in IntTask : KeptStep(t)]_vars
         => [\A t \in IntTask :
               /\ InformInt(t) => has_int_msg'[t] \/ Told(t)' \/ (call.pc = "send.flags" /\ call.peer = t)
               /\ has_int_msg[t] => has_int_msg'[t] \/ Told(t)'
               /\ Told(t) => Told(t)' \/ call'.who = t \/ halted' = "deadlock"]_vars
  BY DEF KeptStep
<1> QED BY <1>1, <1>2, Invariance, PTL DEF Spec, InterruptsKept


-----------------------------------------------------------------------------
(***************************************************************************)
(* The invariant of the history: what the statements a call has executed   *)
(* have changed since its entry, as long as no interrupt has cut into it   *)
(* and no assertion has stopped the kernel.                                *)
(***************************************************************************)

\* The queues the lists stand for.
Queues == [p \in Proc |-> Chain(q_sending[p])]

Hard == [source |-> INTERRUPT, type |-> HARD_INT]

\* What a SEND of p to d has changed, statement by statement.
SendingSince(p, d) ==
    /\ entry.halted = "no" /\ entry.flags[p] = {}
    /\ entry.recv_from = recv_from /\ entry.send_to = send_to
    /\ entry.has_int_msg = has_int_msg /\ entry.q = Queues
    /\ \E T \in SUBSET Proc :
          /\ d \in T /\ p \notin T
          /\ \A q \in T : SENDING \in entry.flags[q] => entry.send_to[q] \in T
    /\ \E t \in Type :
          buf = IF call.pc \in {"send.test", "send.assert", "send.copy"}
                THEN [entry.buf EXCEPT ![p] = [source |-> p, type |-> t]]
                ELSE [entry.buf EXCEPT ![p] = [source |-> p, type |-> t],
                                       ![d] = [source |-> p, type |-> t]]
    /\ p_msg = IF call.pc \in {"send.flags", "send.recv_from"}
               THEN [entry.p_msg EXCEPT ![d] = FALSE] ELSE entry.p_msg
    /\ flags = IF call.pc = "send.recv_from"
               THEN [entry.flags EXCEPT ![d] = @ \ {RECEIVING}] ELSE entry.flags
    /\ call.pc # "send.test" => RECEIVING \in entry.flags[d] /\ entry.recv_from[d] \in {p, ANY}
    /\ call.pc = "send.copy" => p_msg[d]

\* What a RECEIVE of p from s has changed.
ReceivingSince(p, s) ==
    /\ entry.halted = "no" /\ entry.flags[p] = {}
    /\ entry.send_to = send_to /\ entry.has_int_msg = has_int_msg /\ entry.q = Queues
    /\ entry.buf \in [Proc -> Message]
    /\ buf = IF call.pc = "recv.clear"
             THEN [entry.buf EXCEPT ![p] = Hard] ELSE [entry.buf EXCEPT ![p].source = p]
    /\ call.pc \in {"recv.int", "recv.clear"} <=> has_int_msg[p] /\ s \in {ANY, INTERRUPT}
    /\ flags = IF call.pc \in {"recv.int", "recv.clear", "recv.queue"}
               THEN entry.flags ELSE [entry.flags EXCEPT ![p] = @ \cup {RECEIVING}]
    /\ p_msg = IF call.pc \in {"recv.recv_from", "recv.block", "recv.return"}
               THEN [entry.p_msg EXCEPT ![p] = TRUE] ELSE entry.p_msg
    /\ recv_from = IF call.pc \in {"recv.block", "recv.return"}
                   THEN [entry.recv_from EXCEPT ![p] = s] ELSE entry.recv_from
    /\ call.pc \notin {"recv.int", "recv.clear", "recv.queue"} =>
          IF s = ANY THEN entry.q[p] = <<>>
          ELSE s \in Proc => SENDING \notin entry.flags[s] \/ entry.send_to[s] # p

\* Until an interrupt cuts into the call or an assertion fails.
SinceEntry ==
    (~ struck /\ halted = "no") =>
        /\ call.pc \in SendPc => SendingSince(call.who, call.peer)
        /\ call.pc \in RecvPc => ReceivingSince(call.who, call.peer)

\* A step that leaves the lists alone leaves the queues they stand for.
LEMMA QueuesSame == ASSUME UNCHANGED list PROVE Queues' = Queues
<1>1. next_sending' = next_sending /\ q_sending' = q_sending
  BY DEF list
<1>2. ASSUME NEW h, NEW h2, h = h2 PROVE ChainOf(next_sending, h) = ChainOf(next_sending', h2)
  BY <1>1, <1>2
<1>3. \A p : ChainOf(next_sending, q_sending[p]) = Chain(q_sending[p])
  BY DEF Chain, ChainOf
<1>4. \A p : ChainOf(next_sending', q_sending'[p]) = Chain(q_sending[p])'
  BY DEF Chain, ChainOf
<1>5. \A p \in Proc : Chain(q_sending[p])' = Chain(q_sending[p])
  BY <1>1, <1>2, <1>3, <1>4
<1> QED BY <1>5 DEF Queues

\* Between two calls Ipc is in the state the kernel is in, before the step
LEMMA SeenNow ==
    ASSUME call.pc = "user"
    PROVE  /\ Seen.flags = flags /\ Seen.p_msg = p_msg /\ Seen.recv_from = recv_from
           /\ Seen.send_to = send_to /\ Seen.has_int_msg = has_int_msg /\ Seen.q = Queues
           /\ Seen.buf = buf /\ Seen.halted = halted /\ Seen = Now
<1>1. Seen = Now
  BY DEF Seen
<1> QED BY <1>1 DEF Now, Queues

\* and after it.
LEMMA SeenNowNext ==
    ASSUME call'.pc = "user"
    PROVE  /\ Seen'.flags = flags' /\ Seen'.p_msg = p_msg' /\ Seen'.recv_from = recv_from'
           /\ Seen'.send_to = send_to' /\ Seen'.has_int_msg = has_int_msg' /\ Seen'.q = Queues'
           /\ Seen'.buf = buf' /\ Seen'.halted = halted' /\ Seen' = Now'
<1>1. Seen' = Now'
  BY DEF Seen
<1> QED BY <1>1 DEF Now, Queues

\* A step that changes nothing of it.
LEMMA NowSame ==
    ASSUME UNCHANGED <<flags, p_msg, recv_from, send_to, has_int_msg, list, buf, halted>>
    PROVE  Now' = Now
<1>1. UNCHANGED list /\ UNCHANGED <<flags, p_msg, recv_from, send_to, has_int_msg, buf, halted>>
  OBVIOUS
<1>2. Queues' = Queues
  BY <1>1, QueuesSame
<1> QED BY <1>1, <1>2 DEF Now, Queues

\* A SEND that goes on has found no deadlock.
LEMMA SendEnterSince ==
    ASSUME TypeOK, NEW p \in Proc, NEW d \in Proc \ {p}, NEW t \in Type, SendEnter(p, d, t),
           entry' = Now, call' # call
    PROVE  SinceEntry'
<1>1. /\ call'.pc = "send.test" /\ call'.who = p /\ call'.peer = d
      /\ ~ Deadlock(p, d) /\ halted = "no" /\ flags[p] = {}
      /\ buf' = [buf EXCEPT ![p] = [source |-> p, type |-> t]]
      /\ UNCHANGED <<flags, p_msg, recv_from, send_to, has_int_msg, halted>> /\ UNCHANGED list
  BY DEF SendEnter, At, pcb
<1>2. Queues' = Queues
  BY <1>1, QueuesSame
<1>3. /\ entry'.flags = flags /\ entry'.p_msg = p_msg /\ entry'.recv_from = recv_from
      /\ entry'.send_to = send_to /\ entry'.has_int_msg = has_int_msg /\ entry'.q = Queues
      /\ entry'.buf = buf /\ entry'.halted = halted
  BY DEF Now, Queues
<1>4. \E T \in SUBSET Proc :
         /\ d \in T /\ p \notin T
         /\ \A q \in T : SENDING \in entry'.flags[q] => entry'.send_to[q] \in T
  BY <1>1, <1>3 DEF Deadlock
<1>5. SendingSince(p, d)'
  BY <1>1, <1>2, <1>3, <1>4 DEF SendingSince
<1> QED BY <1>1, <1>5 DEF SinceEntry, SendPc, RecvPc

\* A RECEIVE has decided whether to take an interrupt.
LEMMA ReceiveEnterSince ==
    ASSUME TypeOK, NEW p \in Proc, NEW s \in Sources(p), ReceiveEnter(p, s), entry' = Now
    PROVE  SinceEntry'
<1>1. /\ call'.pc \in {"recv.int", "recv.queue"} /\ call'.who = p /\ call'.peer = s
      /\ call'.pc = "recv.int" <=> has_int_msg[p] /\ s \in {ANY, INTERRUPT}
      /\ halted = "no" /\ flags[p] = {}
      /\ buf' = [buf EXCEPT ![p].source = p]
      /\ UNCHANGED <<flags, p_msg, recv_from, send_to, has_int_msg, halted>> /\ UNCHANGED list
  BY DEF ReceiveEnter, At, pcb
<1>2. Queues' = Queues
  BY <1>1, QueuesSame
<1>3. /\ entry'.flags = flags /\ entry'.p_msg = p_msg /\ entry'.recv_from = recv_from
      /\ entry'.send_to = send_to /\ entry'.has_int_msg = has_int_msg /\ entry'.q = Queues
      /\ entry'.buf = buf /\ entry'.halted = halted
  BY DEF Now, Queues
<1>4. entry'.buf \in [Proc -> Message]
  BY <1>3 DEF TypeOK
<1>5. ReceivingSince(p, s)'
  BY <1>1, <1>2, <1>3, <1>4 DEF ReceivingSince
<1> QED BY <1>1, <1>5 DEF SinceEntry, SendPc, RecvPc

\* The statements of msg_send that leave its caller in the call.
LEMMA SendingSinceStep ==
    ASSUME StepsInv, SinceEntry, ~ struck, entry' = entry, halted' = "no",
           SendMeet \/ SendAssert \/ SendCopy \/ SendClearMsg \/ SendClearFlags
    PROVE  SinceEntry'
<1> PICK p, d : p = call.who /\ d = call.peer
  OBVIOUS
<1>0. TypeOK /\ Calls
  BY DEF StepsInv
<1>1. call.pc \in SendPc /\ halted = "no"
  BY DEF SendMeet, SendAssert, SendCopy, SendClearMsg, SendClearFlags, At, SendPc
<1>2. SendingSince(p, d)
  BY <1>1 DEF SinceEntry
<1>3. UNCHANGED <<recv_from, send_to, has_int_msg>> /\ UNCHANGED list
  BY DEF SendMeet, SendAssert, SendCopy, SendClearMsg, SendClearFlags, pcb
<1>4. Queues' = Queues
  BY <1>3, QueuesSame
<1>5. /\ entry'.halted = "no" /\ entry'.flags[p] = {}
      /\ entry'.recv_from = recv_from' /\ entry'.send_to = send_to'
      /\ entry'.has_int_msg = has_int_msg' /\ entry'.q = Queues'
      /\ \E T \in SUBSET Proc :
            /\ d \in T /\ p \notin T
            /\ \A q \in T : SENDING \in entry'.flags[q] => entry'.send_to[q] \in T
  BY <1>2, <1>3, <1>4 DEF SendingSince
<1>6. call'.who = p /\ call'.peer = d /\ call'.pc \in SendPc
  BY <1>0, GoneTo DEF SendMeet, SendAssert, SendCopy, SendClearMsg, SendClearFlags, SendPc
<1> SUFFICES SendingSince(p, d)'
  BY <1>6 DEF SinceEntry, SendPc, RecvPc
<1>7. CASE SendMeet
  <2>1. /\ call.pc = "send.test" /\ call'.pc = "send.assert" /\ Awaits(d, p)
        /\ UNCHANGED <<flags, p_msg, buf>>
    BY <1>0, <1>7, GoneTo DEF SendMeet, At, pcb
  <2> QED BY <1>2, <1>3, <1>5, <2>1 DEF SendingSince, Awaits
<1>8. CASE SendAssert
  <2>1. /\ call.pc = "send.assert" /\ call'.pc = "send.copy" /\ p_msg[d]
        /\ UNCHANGED <<flags, p_msg, buf>>
    BY <1>0, <1>1, <1>8, GoneTo DEF SendAssert, Asserts, At, pcb
  <2> QED BY <1>2, <1>3, <1>5, <2>1 DEF SendingSince
<1>9. CASE SendCopy
  <2>1. /\ call.pc = "send.copy" /\ call'.pc = "send.p_msg" /\ UNCHANGED <<flags, p_msg>>
        /\ buf' = IF p_msg[d] THEN [buf EXCEPT ![d] = buf[p]] ELSE buf
    BY <1>0, <1>9, GoneTo DEF SendCopy, Deliver, At, pcb
  <2>2. p_msg[d] /\ \E t \in Type : buf = [entry.buf EXCEPT ![p] = [source |-> p, type |-> t]]
    BY <1>2, <2>1 DEF SendingSince
  <2>3. PICK t \in Type : buf = [entry.buf EXCEPT ![p] = [source |-> p, type |-> t]]
    BY <2>2
  <2>4. buf[p] = [source |-> p, type |-> t]
    BY <1>0, <1>1, <2>3 DEF TypeOK, Calls
  <2>5. buf' = [entry'.buf EXCEPT ![p] = [source |-> p, type |-> t], ![d] = [source |-> p, type |-> t]]
    BY <2>1, <2>2, <2>3, <2>4
  <2> QED BY <1>2, <1>3, <1>5, <2>1, <2>5 DEF SendingSince
<1>10. CASE SendClearMsg
  <2>1. /\ call.pc = "send.p_msg" /\ call'.pc = "send.flags" /\ UNCHANGED <<flags, buf>>
        /\ p_msg' = [p_msg EXCEPT ![d] = FALSE]
    BY <1>0, <1>10, GoneTo DEF SendClearMsg, At
  <2> QED BY <1>2, <1>3, <1>5, <2>1 DEF SendingSince
<1>11. CASE SendClearFlags
  <2>1. /\ call.pc = "send.flags" /\ call'.pc = "send.recv_from" /\ UNCHANGED <<p_msg, buf>>
        /\ flags' = [flags EXCEPT ![d] = @ \ {RECEIVING}]
    BY <1>0, <1>11, GoneTo DEF SendClearFlags, At
  <2> QED BY <1>2, <1>3, <1>5, <2>1 DEF SendingSince
<1> QED BY <1>7, <1>8, <1>9, <1>10, <1>11

\* The statements of msg_receive that leave its caller in the call.
LEMMA ReceivingSinceStep ==
    ASSUME StepsInv, SinceEntry, ~ struck, entry' = entry, halted' = "no",
           ReceiveInterrupt \/ ReceiveFlags \/ ReceiveMsg \/ ReceiveFrom \/ ReceiveBlock
    PROVE  SinceEntry'
<1> PICK p, s : p = call.who /\ s = call.peer
  OBVIOUS
<1>0. TypeOK /\ Calls
  BY DEF StepsInv
<1>1. call.pc \in RecvPc /\ halted = "no"
  BY DEF ReceiveInterrupt, ReceiveFlags, ReceiveMsg, ReceiveFrom, ReceiveBlock, At, RecvPc
<1>2. ReceivingSince(p, s)
  BY <1>1 DEF SinceEntry
<1>3. UNCHANGED <<send_to, has_int_msg>> /\ UNCHANGED list
  BY DEF ReceiveInterrupt, ReceiveFlags, ReceiveMsg, ReceiveFrom, ReceiveBlock, pcb
<1>4. Queues' = Queues
  BY <1>3, QueuesSame
<1>5. /\ entry'.halted = "no" /\ entry'.flags[p] = {}
      /\ entry'.send_to = send_to' /\ entry'.has_int_msg = has_int_msg' /\ entry'.q = Queues'
      /\ entry'.buf \in [Proc -> Message]
  BY <1>2, <1>3, <1>4 DEF ReceivingSince
<1>6. call'.who = p /\ call'.peer = s /\ call'.pc \in RecvPc
  BY <1>0, GoneTo DEF ReceiveInterrupt, ReceiveFlags, ReceiveMsg, ReceiveFrom, ReceiveBlock, RecvPc
<1> SUFFICES ReceivingSince(p, s)'
  BY <1>6 DEF SinceEntry, SendPc, RecvPc
<1>7. CASE ReceiveInterrupt
  <2>1. /\ call.pc = "recv.int" /\ call'.pc = "recv.clear" /\ UNCHANGED <<flags, p_msg, recv_from>>
        /\ buf' = [buf EXCEPT ![p] = Hard]
    BY <1>0, <1>7, GoneTo DEF ReceiveInterrupt, At, pcb, Hard
  <2>2. buf = [entry.buf EXCEPT ![p].source = p]
    BY <1>2, <2>1 DEF ReceivingSince
  <2>3. buf' = [entry'.buf EXCEPT ![p] = Hard]
    BY <2>1, <2>2, <1>5
  <2> QED BY <1>2, <1>3, <1>5, <2>1, <2>3 DEF ReceivingSince
<1>8. CASE ReceiveFlags
  <2>1. /\ call.pc = "recv.queue" /\ call'.pc = "recv.p_msg" /\ UNCHANGED <<p_msg, recv_from, buf>>
        /\ flags' = [flags EXCEPT ![p] = @ \cup {RECEIVING}]
        /\ ~ SenderReady(p, s)
    BY <1>0, <1>8, GoneTo DEF ReceiveFlags, At
  <2>2. IF s = ANY THEN entry'.q[p] = <<>>
        ELSE s \in Proc => SENDING \notin entry'.flags[s] \/ entry'.send_to[s] # p
    <3>1. CASE s = ANY
      <4>1. p \in Proc /\ Lists
        BY <1>0, <1>1 DEF Calls, StepsInv
      <4>2. PICK Q \in Seq(Proc) : Linked(Q, p)
        BY <4>1 DEF Lists
      <4>3. q_sending[p] = NULL
        BY <2>1, <3>1 DEF SenderReady
      <4>4. Q = <<>>
        <5>1. Q # <<>> => Q[1] \in Proc
          BY EmptySeq, ElementOfSeq, LenProperties
        <5> QED BY <4>2, <4>3, <5>1, IpcStepsAssumption DEF Linked
      <4>5. Chain(q_sending[p]) = <<>>
        BY <4>1, <4>2, <4>4, ChainRead
      <4>6. entry.q = Queues
        BY <1>2 DEF ReceivingSince
      <4> QED BY <3>1, <4>1, <4>5, <4>6 DEF Queues
    <3>2. CASE s # ANY
      <4>1. entry.flags = flags /\ entry.send_to = send_to
        BY <1>2, <2>1 DEF ReceivingSince
      <4> QED BY <2>1, <3>2, <4>1 DEF SenderReady, SendingTo
    <3> QED BY <3>1, <3>2
  <2> QED BY <1>2, <1>3, <1>5, <2>1, <2>2 DEF ReceivingSince
<1>9. CASE ReceiveMsg
  <2>1. /\ call.pc = "recv.p_msg" /\ call'.pc = "recv.recv_from" /\ UNCHANGED <<flags, recv_from, buf>>
        /\ p_msg' = [p_msg EXCEPT ![p] = TRUE]
    BY <1>0, <1>9, GoneTo DEF ReceiveMsg, At
  <2> QED BY <1>2, <1>3, <1>5, <2>1 DEF ReceivingSince
<1>10. CASE ReceiveFrom
  <2>1. /\ call.pc = "recv.recv_from" /\ call'.pc = "recv.block" /\ UNCHANGED <<flags, p_msg, buf>>
        /\ recv_from' = [recv_from EXCEPT ![p] = s]
    BY <1>0, <1>10, GoneTo DEF ReceiveFrom, At
  <2> QED BY <1>2, <1>3, <1>5, <2>1 DEF ReceivingSince
<1>11. CASE ReceiveBlock
  <2>1. /\ call.pc = "recv.block" /\ call'.pc = "recv.return" /\ UNCHANGED <<flags, p_msg, recv_from, buf>>
    BY <1>0, <1>11, GoneTo DEF ReceiveBlock, At, pcb
  <2> QED BY <1>2, <1>3, <1>5, <2>1 DEF ReceivingSince
<1> QED BY <1>7, <1>8, <1>9, <1>10, <1>11

\* Every step keeps SinceEntry: an interrupt in the middle of a call ends it.
LEMMA SinceEntryKept ==
    ASSUME StepsInv, SinceEntry, [AtomicNext]_<<vars, entry, struck>>
    PROVE  SinceEntry'
<1>0. TypeOK /\ Calls
  BY DEF StepsInv
<1> SUFFICES ASSUME ~ struck', halted' = "no", call'.pc # "user" PROVE SinceEntry'
  BY DEF SinceEntry, SendPc, RecvPc
<1>1. CASE UNCHANGED <<vars, entry, struck>>
  <2>1. UNCHANGED <<flags, p_msg, recv_from, send_to, has_int_msg>> /\ UNCHANGED list
        /\ UNCHANGED <<buf, halted, call, entry, struck>>
    BY <1>1 DEF vars, pcb
  <2>2. Queues' = Queues
    BY <2>1, QueuesSame
  <2>3. \A p, d : SendingSince(p, d) => SendingSince(p, d)'
    BY <2>1, <2>2 DEF SendingSince
  <2>4. \A p, d : ReceivingSince(p, d) => ReceivingSince(p, d)'
    BY <2>1, <2>2 DEF ReceivingSince
  <2>5. call'.pc = call.pc /\ call'.who = call.who /\ call'.peer = call.peer /\ struck' = struck /\ halted' = halted
    BY <2>1
  <2>6. PICK p, d : p = call.who /\ d = call.peer
    OBVIOUS
  <2> QED BY <2>3, <2>4, <2>5, <2>6 DEF SinceEntry
<1>2. CASE AtomicNext /\ call.pc = "user"
  <2>1. entry' = Now
    BY <1>2 DEF AtomicNext
  <2>2. call' # call
    BY <1>2
  <2>3. ~ SendStep /\ ~ ReceiveStep
    BY <1>2 DEF SendStep, ReceiveStep, At, SendMeet, SendQueue, SendAssert, SendCopy, SendClearMsg,
       SendClearFlags, SendWake, ReceiveInterrupt, ReceiveClear, ReceiveQueued, ReceiveFlags,
       ReceiveMsg, ReceiveFrom, ReceiveBlock, ReceiveReturn
  <2>4. ~ \E p \in IntTask : InformInt(p)
    BY <2>2 DEF InformInt
  <2>5. \/ \E p \in Proc : \E d \in Proc \ {p}, t \in Type : SendEnter(p, d, t)
        \/ \E p \in Proc : \E s \in Sources(p) : ReceiveEnter(p, s)
    BY <1>2, <2>3, <2>4 DEF AtomicNext, Next
  <2> QED BY <1>0, <2>1, <2>2, <2>5, SendEnterSince, ReceiveEnterSince
<1>3. CASE AtomicNext /\ call.pc # "user"
  <2>1. entry' = entry /\ ~ struck /\ call' # call
    BY <1>3 DEF AtomicNext
  <2>2. ~ \E p \in IntTask : InformInt(p)
    BY <2>1 DEF InformInt
  <2>3. SendStep \/ ReceiveStep
    BY <1>3, <2>2 DEF AtomicNext, Next, SendEnter, ReceiveEnter, At
  <2>4. ~ SendQueue /\ ~ SendWake /\ ~ ReceiveClear /\ ~ ReceiveQueued /\ ~ ReceiveReturn
    BY DEF SendQueue, SendWake, ReceiveClear, ReceiveQueued, ReceiveReturn, User
  <2> QED BY <2>1, <2>3, <2>4, SendingSinceStep, ReceivingSinceStep DEF SendStep, ReceiveStep
<1> QED BY <1>1, <1>2, <1>3

-----------------------------------------------------------------------------
(***************************************************************************)
(* The statement with which a call returns is the call of Ipc.             *)
(***************************************************************************)

\* In the middle of a call Ipc is still in the state of its entry.
LEMMA SeenThen == ASSUME call.pc # "user" PROVE Seen = entry
  BY DEF Seen

\* The SEND that would close a cycle.
LEMMA DeadlockWhole ==
    ASSUME NEW p \in Proc, NEW d \in Proc \ {p}, NEW t \in Type, SendEnter(p, d, t), call' = call
    PROVE  Whole!Next
<1> DEFINE m == [source |-> p, type |-> t]
<1>1. /\ call.pc = "user" /\ halted = "no" /\ flags[p] = {} /\ Deadlock(p, d)
      /\ buf' = [buf EXCEPT ![p] = m] /\ halted' = "deadlock"
      /\ UNCHANGED <<flags, p_msg, recv_from, send_to, has_int_msg>> /\ UNCHANGED list
  BY DEF SendEnter, At, pcb
<1>2. Queues' = Queues
  BY <1>1, QueuesSame
<1>3. call'.pc = "user"
  BY <1>1
<1>4. Whole!Deadlock(p, d)
  BY <1>1, SeenNow DEF Deadlock, Whole!Deadlock, SENDING, Whole!SENDING
<1>5. Whole!Runnable(p)
  BY <1>1, SeenNow DEF Whole!Runnable
<1>6. Whole!Halt("deadlock") /\ Seen'.buf = [Seen.buf EXCEPT ![p] = m]
  BY <1>1, <1>2, <1>3, SeenNow, SeenNowNext DEF Whole!Halt
<1>7. Whole!SendDeadlock(p, d, m)
  BY <1>4, <1>6 DEF Whole!SendDeadlock
<1>8. Whole!Send(p, d, t)
  BY <1>5, <1>7 DEF Whole!Send
<1> QED BY <1>8 DEF Whole!Next

\* An interrupt between two calls.
LEMMA InformWhole ==
    ASSUME StepsInv, NEW p \in IntTask, InformInt(p), call.pc = "user"
    PROVE  Whole!Next
<1>0. TypeOK /\ p \in Proc
  BY IpcStepsAssumption DEF StepsInv
<1>1. halted = "no" /\ UNCHANGED <<send_to, call>> /\ UNCHANGED list
  BY DEF InformInt
<1>2. Queues' = Queues /\ call'.pc = "user"
  BY <1>1, QueuesSame
<1>3. Whole!Awaits(p, INTERRUPT) <=> Awaits(p, INTERRUPT)
  BY SeenNow DEF Whole!Awaits, Awaits, RECEIVING, Whole!RECEIVING
<1>4. CASE Awaits(p, INTERRUPT)
  <2>1. p_msg[p] = TRUE /\ flags[p] = {RECEIVING} /\ send_to[p] = NO_TASK
    BY <1>0, <1>4, InformAwaited DEF TypeOK
  <2>2. /\ has_int_msg' = [has_int_msg EXCEPT ![p] = FALSE]
        /\ p_msg' = [p_msg EXCEPT ![p] = FALSE]
        /\ flags' = [flags EXCEPT ![p] = @ \ {RECEIVING}]
        /\ recv_from' = [recv_from EXCEPT ![p] = NO_TASK]
        /\ buf' = [buf EXCEPT ![p] = [buf[p] EXCEPT !.source = INTERRUPT, !.type = HARD_INT]]
        /\ Asserts(flags'[p] = {} /\ send_to[p] = NO_TASK)
    BY <1>4, <2>1 DEF InformInt, Deliver
  <2>3. halted' = halted
    BY <1>0, <1>1, <2>1, <2>2 DEF Asserts, TypeOK
  <2>4. buf' = [buf EXCEPT ![p].source = INTERRUPT, ![p].type = HARD_INT]
    BY <1>0, <2>2 DEF TypeOK, Message
  <2>5. Whole!InformDirect(p)
    BY <1>1, <1>2, <1>3, <1>4, <2>2, <2>3, <2>4, SeenNow, SeenNowNext
       DEF Whole!InformDirect, Whole!Wake, RECEIVING, Whole!RECEIVING
  <2> QED BY <1>1, <2>5, SeenNow DEF Whole!InformInt, Whole!Next
<1>5. CASE ~ Awaits(p, INTERRUPT)
  <2>1. /\ has_int_msg' = [has_int_msg EXCEPT ![p] = TRUE]
        /\ UNCHANGED <<flags, p_msg, recv_from, buf, halted>>
    BY <1>5 DEF InformInt
  <2>2. Whole!InformLater(p)
    BY <1>1, <1>2, <1>3, <1>5, <2>1, SeenNow, SeenNowNext DEF Whole!InformLater
  <2> QED BY <1>1, <2>2, SeenNow DEF Whole!InformInt, Whole!Next
<1> QED BY <1>4, <1>5

\* msg_send to a process that waits for it.
LEMMA SendWakeWhole ==
    ASSUME StepsInv, SinceEntry, ~ struck, SendWake
    PROVE  Whole!Next
<1> PICK p, d : p = call.who /\ d = call.peer
  OBVIOUS
<1>0. call.pc = "send.recv_from" /\ halted = "no" /\ call'.pc = "user"
  BY DEF SendWake, At, User
<1>1. /\ p \in Proc /\ d \in Proc \ {p}
      /\ flags[d] = {} /\ p_msg[d] = FALSE /\ send_to[d] = NO_TASK
  BY <1>0 DEF StepsInv, Calls, SendPc
<1>2. SendingSince(p, d)
  BY <1>0 DEF SinceEntry, SendPc
<1>3. Seen = entry
  BY <1>0, SeenThen
<1>4. /\ recv_from' = [recv_from EXCEPT ![d] = NO_TASK] /\ halted' = "no"
      /\ UNCHANGED <<flags, p_msg, send_to, has_int_msg, buf>> /\ UNCHANGED list
  BY <1>0, <1>1 DEF SendWake, Asserts
<1>5. Queues' = Queues
  BY <1>4, QueuesSame
<1>6. /\ entry.halted = "no" /\ entry.flags[p] = {}
      /\ entry.recv_from = recv_from /\ entry.send_to = send_to
      /\ entry.has_int_msg = has_int_msg /\ entry.q = Queues
      /\ p_msg = [entry.p_msg EXCEPT ![d] = FALSE]
      /\ flags = [entry.flags EXCEPT ![d] = @ \ {RECEIVING}]
      /\ RECEIVING \in entry.flags[d] /\ entry.recv_from[d] \in {p, ANY}
  BY <1>0, <1>2 DEF SendingSince
<1>7. PICK t \in Type : buf = [entry.buf EXCEPT ![p] = [source |-> p, type |-> t],
                                                ![d] = [source |-> p, type |-> t]]
  BY <1>0, <1>2 DEF SendingSince
<1>8. ~ Whole!Deadlock(p, d)
  BY <1>2, <1>3 DEF SendingSince, Whole!Deadlock, SENDING, Whole!SENDING
<1>9. Whole!SendDirect(p, d, [source |-> p, type |-> t])
  <2>1. Whole!Awaits(d, p)
    BY <1>3, <1>6 DEF Whole!Awaits, RECEIVING, Whole!RECEIVING
  <2>2. Whole!Wake(d, RECEIVING)
    BY <1>0, <1>3, <1>4, <1>6, SeenNowNext DEF Whole!Wake
  <2> QED BY <1>0, <1>3, <1>4, <1>5, <1>6, <1>7, <1>8, <2>1, <2>2, SeenNowNext
          DEF Whole!SendDirect, RECEIVING, Whole!RECEIVING
<1>10. Whole!Send(p, d, t)
  BY <1>3, <1>6, <1>9 DEF Whole!Send, Whole!Runnable
<1> QED BY <1>1, <1>10 DEF Whole!Next

\* msg_send to a process that does not: the list stands for the longer queue.
LEMMA SendQueueWhole ==
    ASSUME StepsInv, SinceEntry, ~ struck, SendQueue
    PROVE  Whole!Next
<1> PICK p, d : p = call.who /\ d = call.peer
  OBVIOUS
<1>0. call.pc = "send.test" /\ halted = "no" /\ call'.pc = "user" /\ ~ Awaits(d, p)
  BY DEF SendQueue, At, User
<1>1. /\ p \in Proc /\ d \in Proc \ {p} /\ Idle(p)
      /\ \A e \in Proc : \A Q : Linked(Q, e) => Linked(IF e = d THEN Append(Q, p) ELSE Q, e)'
  BY SendQueueLists
<1>2. SendingSince(p, d)
  BY <1>0 DEF SinceEntry, SendPc
<1>3. Seen = entry
  BY <1>0, SeenThen
<1>t. TypeOK /\ Lists
  BY DEF StepsInv
<1>4. /\ flags' = [flags EXCEPT ![p] = @ \cup {SENDING}]
      /\ send_to' = [send_to EXCEPT ![p] = d]
      /\ p_msg' = [p_msg EXCEPT ![p] = TRUE]
      /\ Asserts(flags'[p] = {SENDING} /\ recv_from[p] = NO_TASK)
      /\ UNCHANGED <<recv_from, has_int_msg, buf>>
  BY DEF SendQueue
<1>5. halted' = "no"
  BY <1>0, <1>1, <1>4, <1>t DEF Asserts, Idle, TypeOK
<1>6. Queues' = [Queues EXCEPT ![d] = Append(@, p)]
  <2>1. ASSUME NEW e \in Proc
        PROVE  Chain(q_sending[e])' = IF e = d THEN Append(Chain(q_sending[e]), p) ELSE Chain(q_sending[e])
    <3>1. PICK Q \in Seq(Proc) : Linked(Q, e)
      BY <1>t DEF Lists
    <3>2. Chain(q_sending[e]) = Q
      BY <3>1, ChainRead
    <3>3. Chain(q_sending[e])' = IF e = d THEN Append(Q, p) ELSE Q
      BY <1>1, <3>1, ChainReadNext
    <3> QED BY <3>2, <3>3
  <2>2. Queues' = [e \in Proc |-> IF e = d THEN Append(Queues[e], p) ELSE Queues[e]]
    BY <2>1 DEF Queues
  <2>3. [Queues EXCEPT ![d] = Append(@, p)] = [e \in Proc |-> IF e = d THEN Append(Queues[e], p) ELSE Queues[e]]
    BY <1>1 DEF Queues
  <2> QED BY <2>2, <2>3
<1>7. /\ entry.halted = "no" /\ entry.flags = flags /\ entry.p_msg = p_msg
      /\ entry.recv_from = recv_from /\ entry.send_to = send_to
      /\ entry.has_int_msg = has_int_msg /\ entry.q = Queues
  BY <1>0, <1>2 DEF SendingSince
<1>8. PICK t \in Type : buf = [entry.buf EXCEPT ![p] = [source |-> p, type |-> t]]
  BY <1>0, <1>2 DEF SendingSince
<1>9. ~ Whole!Deadlock(p, d)
  BY <1>2, <1>3 DEF SendingSince, Whole!Deadlock, SENDING, Whole!SENDING
<1>10. Whole!SendBlock(p, d, [source |-> p, type |-> t])
  <2>1. ~ Whole!Awaits(d, p)
    BY <1>0, <1>3, <1>7 DEF Awaits, Whole!Awaits, RECEIVING, Whole!RECEIVING
  <2>2. Whole!Sleep(p, SENDING)
    BY <1>0, <1>3, <1>4, <1>7, SeenNowNext DEF Whole!Sleep
  <2> QED BY <1>0, <1>3, <1>4, <1>5, <1>6, <1>7, <1>8, <1>9, <2>1, <2>2, SeenNowNext
          DEF Whole!SendBlock, SENDING, Whole!SENDING
<1>11. Whole!Send(p, d, t)
  BY <1>1, <1>3, <1>7, <1>10 DEF Whole!Send, Whole!Runnable, Idle
<1> QED BY <1>1, <1>11 DEF Whole!Next

\* What the returning statements of msg_receive share.
LEMMA ReceiveCaller ==
    ASSUME StepsInv, SinceEntry, ~ struck, halted = "no", call.pc \in RecvPc,
           NEW p, p = call.who, NEW s, s = call.peer
    PROVE  /\ p \in Proc /\ s \in Whole!Sources(p) /\ Whole!Runnable(p)
           /\ ReceivingSince(p, s) /\ Seen = entry
           /\ Whole!IntReady(p, s) <=> call.pc \in {"recv.int", "recv.clear"}
<1>1. p \in Proc /\ s \in Sources(p)
  BY DEF StepsInv, Calls
<1>2. ReceivingSince(p, s)
  BY DEF SinceEntry
<1>3. Seen = entry
  BY SeenThen DEF RecvPc
<1>4. s \in Whole!Sources(p)
  BY <1>1 DEF Sources, Whole!Sources
<1>5. Whole!Runnable(p) /\ (Whole!IntReady(p, s) <=> call.pc \in {"recv.int", "recv.clear"})
  BY <1>2, <1>3 DEF ReceivingSince, Whole!Runnable, Whole!IntReady
<1> QED BY <1>1, <1>2, <1>3, <1>4, <1>5

\* msg_receive takes a pending interrupt.
LEMMA ReceiveClearWhole ==
    ASSUME StepsInv, SinceEntry, ~ struck, ReceiveClear
    PROVE  Whole!Next
<1> PICK p, s : p = call.who /\ s = call.peer
  OBVIOUS
<1>0. call.pc = "recv.clear" /\ halted = "no" /\ call'.pc = "user"
  BY DEF ReceiveClear, At, User
<1>1. /\ p \in Proc /\ s \in Whole!Sources(p) /\ Whole!Runnable(p)
      /\ ReceivingSince(p, s) /\ Seen = entry /\ Whole!IntReady(p, s)
  BY <1>0, ReceiveCaller DEF RecvPc
<1>2. /\ has_int_msg' = [has_int_msg EXCEPT ![p] = FALSE]
      /\ UNCHANGED <<flags, p_msg, recv_from, send_to, buf, halted>> /\ UNCHANGED list
  BY DEF ReceiveClear, pcb
<1>3. Queues' = Queues
  BY <1>2, QueuesSame
<1>4. /\ entry.flags = flags /\ entry.p_msg = p_msg /\ entry.recv_from = recv_from
      /\ entry.send_to = send_to /\ entry.has_int_msg = has_int_msg /\ entry.q = Queues
      /\ entry.halted = halted /\ buf = [entry.buf EXCEPT ![p] = Hard]
  BY <1>0, <1>1 DEF ReceivingSince
<1>5. Whole!ReceiveInterrupt(p, s)
  BY <1>0, <1>1, <1>2, <1>3, <1>4, SeenNowNext DEF Whole!ReceiveInterrupt, Hard
<1> QED BY <1>1, <1>5 DEF Whole!Receive, Whole!Next

\* msg_receive goes to sleep; its last assertion may stop the kernel.
LEMMA ReceiveReturnWhole ==
    ASSUME StepsInv, SinceEntry, ~ struck, ReceiveReturn
    PROVE  Whole!Next
<1> PICK p, s : p = call.who /\ s = call.peer
  OBVIOUS
<1>0. call.pc = "recv.return" /\ halted = "no" /\ call'.pc = "user"
  BY DEF ReceiveReturn, At, User
<1>1. /\ p \in Proc /\ s \in Whole!Sources(p) /\ Whole!Runnable(p)
      /\ ReceivingSince(p, s) /\ Seen = entry /\ ~ Whole!IntReady(p, s)
  BY <1>0, ReceiveCaller DEF RecvPc
<1>2. /\ Asserts(/\ flags[p] = {RECEIVING} /\ p_msg[p] /\ recv_from[p] # NO_TASK
                 /\ send_to[p] = NO_TASK /\ ~ has_int_msg[p])
      /\ UNCHANGED <<flags, p_msg, recv_from, send_to, has_int_msg, buf>> /\ UNCHANGED list
  BY DEF ReceiveReturn, pcb
<1>3. Queues' = Queues
  BY <1>2, QueuesSame
<1>4. /\ entry.send_to = send_to /\ entry.has_int_msg = has_int_msg /\ entry.q = Queues
      /\ entry.halted = "no" /\ buf = [entry.buf EXCEPT ![p].source = p]
      /\ flags = [entry.flags EXCEPT ![p] = @ \cup {RECEIVING}]
      /\ p_msg = [entry.p_msg EXCEPT ![p] = TRUE]
      /\ recv_from = [entry.recv_from EXCEPT ![p] = s]
      /\ IF s = ANY THEN entry.q[p] = <<>>
         ELSE s \in Proc => SENDING \notin entry.flags[s] \/ entry.send_to[s] # p
  BY <1>0, <1>1 DEF ReceivingSince
<1>5. flags[p] = {RECEIVING} /\ p_msg[p] /\ recv_from[p] # NO_TASK /\ send_to[p] = NO_TASK
  <2>1. Idle(p) \/ Receiver(p)
    BY <1>0 DEF StepsInv, Calls
  <2>2. flags \in [Proc -> SUBSET {SENDING, RECEIVING}]
    BY DEF StepsInv, TypeOK
  <2>3. DOMAIN entry.flags = Proc
    BY <1>4, <2>2
  <2>4. RECEIVING \in flags[p]
    BY <1>1, <1>4, <2>3
  <2> QED BY <2>1, <2>4 DEF Idle, Receiver
<1>6. halted' = IF has_int_msg[p] THEN "assert" ELSE "no"
  BY <1>0, <1>2, <1>5 DEF Asserts
<1>7. ~ Whole!SenderReady(p, s)
  BY <1>1, <1>4 DEF Whole!SenderReady, Whole!SendingTo, SENDING, Whole!SENDING
<1>8. Whole!Sleep(p, RECEIVING)
  BY <1>0, <1>1, <1>2, <1>4, SeenNowNext DEF Whole!Sleep
<1>9. Whole!ReceiveBlock(p, s)
  BY <1>0, <1>1, <1>2, <1>3, <1>4, <1>6, <1>7, <1>8, SeenNowNext
     DEF Whole!ReceiveBlock, RECEIVING, Whole!RECEIVING
<1> QED BY <1>1, <1>9 DEF Whole!Receive, Whole!Next

\* msg_receive takes a waiting sender, found and unlinked in its list.
LEMMA ReceiveQueuedWhole ==
    ASSUME StepsInv, SinceEntry, ~ struck, ReceiveQueued
    PROVE  Whole!Next
<1> PICK p, s : p = call.who /\ s = call.peer
  OBVIOUS
<1> PICK from : from = IF s = ANY THEN q_sending[p] ELSE s
  OBVIOUS
<1>0. call.pc = "recv.queue" /\ halted = "no" /\ call'.pc = "user" /\ SenderReady(p, s)
  BY DEF ReceiveQueued, At, User
<1>1. /\ p \in Proc /\ s \in Whole!Sources(p) /\ Whole!Runnable(p)
      /\ ReceivingSince(p, s) /\ Seen = entry /\ ~ Whole!IntReady(p, s)
  BY <1>0, ReceiveCaller DEF RecvPc
<1>2. /\ Idle(p) /\ from \in Proc /\ SendingTo(from, p) /\ from # p
      /\ \A e \in Proc : \A Q : Linked(Q, e) =>
            Linked(IF e = p THEN Whole!Dequeue(Q, from) ELSE Q, e)'
  BY ReceiveQueuedLists
<1>t. TypeOK /\ Pcbs /\ Lists
  BY DEF StepsInv
<1>3. Sender(from)
  BY <1>0, <1>2, <1>t DEF Pcbs, SendingTo, Idle, Receiver, SENDING, RECEIVING
<1>4. /\ buf' = [buf EXCEPT ![p] = buf[from]]
      /\ p_msg' = [p_msg EXCEPT ![from] = FALSE]
      /\ send_to' = [send_to EXCEPT ![from] = NO_TASK]
      /\ flags' = [flags EXCEPT ![from] = @ \ {SENDING}]
      /\ Asserts(flags[from] = {SENDING} /\ p_msg[from] /\ flags[p] = {} /\ ~ p_msg[p])
      /\ UNCHANGED <<recv_from, has_int_msg>>
  BY DEF ReceiveQueued
<1>5. halted' = "no"
  BY <1>0, <1>2, <1>3, <1>4 DEF Asserts, Idle, Sender
<1>6. Queues' = [Queues EXCEPT ![p] = Whole!Dequeue(@, from)]
  <2>1. ASSUME NEW e \in Proc
        PROVE  Chain(q_sending[e])' = IF e = p THEN Whole!Dequeue(Chain(q_sending[e]), from)
                                      ELSE Chain(q_sending[e])
    <3>1. PICK Q \in Seq(Proc) : Linked(Q, e)
      BY <1>t DEF Lists
    <3>2. Chain(q_sending[e]) = Q
      BY <3>1, ChainRead
    <3>3. Chain(q_sending[e])' = IF e = p THEN Whole!Dequeue(Q, from) ELSE Q
      BY <1>2, <3>1, ChainReadNext
    <3> QED BY <3>2, <3>3
  <2>2. Queues' = [e \in Proc |-> IF e = p THEN Whole!Dequeue(Queues[e], from) ELSE Queues[e]]
    BY <2>1 DEF Queues
  <2>3. [Queues EXCEPT ![p] = Whole!Dequeue(@, from)]
           = [e \in Proc |-> IF e = p THEN Whole!Dequeue(Queues[e], from) ELSE Queues[e]]
    BY <1>1 DEF Queues
  <2> QED BY <2>2, <2>3
<1>7. /\ entry.halted = "no" /\ entry.flags = flags /\ entry.p_msg = p_msg
      /\ entry.recv_from = recv_from /\ entry.send_to = send_to
      /\ entry.has_int_msg = has_int_msg /\ entry.q = Queues
      /\ entry.buf \in [Proc -> Message] /\ buf = [entry.buf EXCEPT ![p].source = p]
  BY <1>0, <1>1 DEF ReceivingSince
<1>8. Whole!SenderReady(p, s) /\ Whole!Chosen(p, s) = from
  <2>1. CASE s = ANY
    <3>1. PICK Q \in Seq(Proc) : Linked(Q, p)
      BY <1>1, <1>t DEF Lists
    <3>2. entry.q[p] = Q
      BY <1>1, <1>7, <3>1, ChainRead DEF Queues
    <3>3. q_sending[p] # NULL
      BY <1>0, <2>1 DEF SenderReady
    <3>4. Q # <<>> /\ Q[1] = from
      BY <2>1, <3>1, <3>3 DEF Linked
    <3>5. Head(Q) = Q[1]
      BY <3>1, <3>4
    <3> QED BY <1>1, <2>1, <3>2, <3>4, <3>5 DEF Whole!SenderReady, Whole!Chosen
  <2>2. CASE s # ANY
    BY <1>0, <1>1, <1>7, <2>2 DEF SenderReady, SendingTo, SENDING, Whole!SENDING,
       Whole!SenderReady, Whole!SendingTo, Whole!Chosen
  <2> QED BY <2>1, <2>2
<1>9. buf' = [entry.buf EXCEPT ![p] = entry.buf[from]]
  BY <1>1, <1>2, <1>4, <1>7
<1>10. Whole!Wake(from, SENDING)
  BY <1>0, <1>1, <1>4, <1>7, SeenNowNext DEF Whole!Wake
<1>11. Whole!ReceiveQueued(p, s)
  BY <1>0, <1>1, <1>4, <1>5, <1>6, <1>7, <1>8, <1>9, <1>10, SeenNowNext
     DEF Whole!ReceiveQueued, SENDING, Whole!SENDING
<1> QED BY <1>1, <1>11 DEF Whole!Receive, Whole!Next

\* Until a call returns, and when it begins, Ipc sees nothing; a call that
\* returns, the deadlock it dies of and an interrupt between two calls are
\* steps of Ipc.
LEMMA WholeStep ==
    ASSUME StepsInv, SinceEntry, [AtomicNext]_<<vars, entry, struck>>, ~ struck', Seen' # Seen
    PROVE  Whole!Next
<1>1. CASE UNCHANGED <<vars, entry, struck>>
  <2>1. UNCHANGED <<call, entry, struck>>
        /\ UNCHANGED <<flags, p_msg, recv_from, send_to, has_int_msg, list, buf, halted>>
    BY <1>1 DEF vars, pcb
  <2>2. Now' = Now
    BY <2>1, NowSame
  <2> QED BY <2>1, <2>2 DEF Seen
<1>2. CASE AtomicNext /\ call.pc = "user"
  <2>1. Seen = Now /\ entry' = Now
    BY <1>2 DEF AtomicNext, Seen
  <2>2. ~ SendStep /\ ~ ReceiveStep
    BY <1>2 DEF SendStep, ReceiveStep, At, SendMeet, SendQueue, SendAssert, SendCopy, SendClearMsg,
       SendClearFlags, SendWake, ReceiveInterrupt, ReceiveClear, ReceiveQueued, ReceiveFlags,
       ReceiveMsg, ReceiveFrom, ReceiveBlock, ReceiveReturn
  <2>3. call'.pc = "user"
    BY <2>1 DEF Seen
  <2>4. ASSUME NEW p \in Proc, NEW s \in Sources(p), ReceiveEnter(p, s) PROVE FALSE
    BY <2>3, <2>4 DEF ReceiveEnter
  <2>5. ASSUME NEW p \in Proc, NEW d \in Proc \ {p}, NEW t \in Type, SendEnter(p, d, t) PROVE Whole!Next
    <3>1. call' = call
      BY <2>3, <2>5 DEF SendEnter
    <3> QED BY <2>5, <3>1, DeadlockWhole
  <2>6. ASSUME NEW p \in IntTask, InformInt(p) PROVE Whole!Next
    BY <1>2, <2>6, InformWhole
  <2> QED BY <1>2, <2>2, <2>4, <2>5, <2>6 DEF AtomicNext, Next
<1>3. CASE AtomicNext /\ call.pc # "user"
  <2>1. entry' = entry /\ ~ struck /\ call' # call /\ Seen = entry
    BY <1>3, SeenThen DEF AtomicNext
  <2>2. call'.pc = "user"
    BY <2>1 DEF Seen
  <2>3. ~ \E p \in IntTask : InformInt(p)
    BY <2>1 DEF InformInt
  <2>4. SendStep \/ ReceiveStep
    BY <1>3, <2>3 DEF AtomicNext, Next, SendEnter, ReceiveEnter, At
  <2>5. TypeOK
    BY DEF StepsInv
  <2>6. ~ SendMeet /\ ~ SendAssert /\ ~ SendCopy /\ ~ SendClearMsg /\ ~ SendClearFlags
    BY <2>2, <2>5, GoneTo DEF SendMeet, SendAssert, SendCopy, SendClearMsg, SendClearFlags
  <2>7. ~ ReceiveInterrupt /\ ~ ReceiveFlags /\ ~ ReceiveMsg /\ ~ ReceiveFrom /\ ~ ReceiveBlock
    BY <2>2, <2>5, GoneTo DEF ReceiveInterrupt, ReceiveFlags, ReceiveMsg, ReceiveFrom, ReceiveBlock
  <2> QED BY <2>1, <2>4, <2>6, <2>7, SendQueueWhole, SendWakeWhole, ReceiveClearWhole,
             ReceiveQueuedWhole, ReceiveReturnWhole DEF SendStep, ReceiveStep
<1> QED BY <1>1, <1>2, <1>3

\* The entry of a call and its statements agree in every reachable state.
THEOREM EntryKept == AtomicSpec => [](StepsInv /\ SinceEntry)
<1>1. AtomicInit => StepsInv /\ SinceEntry
  BY InitInv DEF AtomicInit, SinceEntry, Init, User, SendPc, RecvPc
<1>2. StepsInv /\ SinceEntry /\ [AtomicNext]_<<vars, entry, struck>> => (StepsInv /\ SinceEntry)'
  <2>1. [AtomicNext]_<<vars, entry, struck>> => [Next]_vars
    BY DEF AtomicNext
  <2> QED BY <2>1, NextInv, SinceEntryKept
<1> QED BY <1>1, <1>2, PTL DEF AtomicSpec

\* For any number of processes, queues of any length and wherever interrupts
\* struck before, a system call that none cuts into is one step of Ipc.
THEOREM CallsAreSteps == AtomicSpec => CallsAreAtomic
<1>1. StepsInv /\ SinceEntry /\ [AtomicNext]_<<vars, entry, struck>> => [~ struck' => Whole!Next]_Seen
  BY WholeStep
<1> QED BY <1>1, EntryKept, PTL DEF AtomicSpec, CallsAreAtomic
=============================================================================
