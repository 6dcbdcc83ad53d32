----------------------------- MODULE IpcProofs -----------------------------
(***************************************************************************)
(* Proofs about Ipc for every set of processes, of tasks informed by       *)
(* interrupts and of message types: its safety properties, the refinement  *)
(* of Rendezvous and what a blocking call promises when it returns.        *)
(***************************************************************************)
EXTENDS Ipc, SequenceTheorems, TLAPS

(***************************************************************************)
(* The inductive invariant: the safety properties of Ipc need each other.  *)
(* A RECEIVE that wakes a queued sender keeps PcbConsistent only if the    *)
(* queue holds nothing but senders; it keeps QueuesExact only if no sender *)
(* is queued twice; a RECEIVE from ANY that goes to sleep misses nobody    *)
(* only if an empty queue means that nobody waits.                         *)
(***************************************************************************)
IpcInv ==
    /\ TypeOK
    /\ PcbConsistent
    /\ QueuesExact
    /\ NoSendCycle
    /\ NoMissedRendezvous
    /\ NoMissedInterrupt

-----------------------------------------------------------------------------
(***************************************************************************)
(* Lemmas about the sending queues.                                        *)
(***************************************************************************)

\* RemoveAt shifts what follows position n one place to the front.
LEMMA RemoveAtElements ==
    ASSUME NEW S, NEW q \in Seq(S), NEW n \in DOMAIN q
    PROVE  /\ RemoveAt(q, n) \in Seq(S)
           /\ Len(RemoveAt(q, n)) = Len(q) - 1
           /\ \A i \in 1 .. Len(q) - 1 :
                 RemoveAt(q, n)[i] = IF i < n THEN q[i] ELSE q[i + 1]
<1> DEFINE a == SubSeq(q, 1, n - 1)
           b == SubSeq(q, n + 1, Len(q))
<1>0. Len(q) \in Nat /\ n \in 1 .. Len(q) /\ DOMAIN q = 1 .. Len(q)
      /\ \A i \in 1 .. Len(q) : q[i] \in S
  BY LenProperties, ElementOfSeq
<1>1. a \in Seq(S) /\ Len(a) = n - 1 /\ \A i \in 1 .. n - 1 : a[i] = q[i]
  <2>1. \A i \in 1 .. n - 1 : q[i] \in S
    BY <1>0
  <2>2. /\ a \in Seq(S)
        /\ Len(a) = IF 1 <= n - 1 THEN (n - 1) - 1 + 1 ELSE 0
        /\ \A i \in 1 .. (n - 1) - 1 + 1 : a[i] = q[1 + i - 1]
    BY <1>0, <2>1, SubSeqProperties
  <2> QED BY <2>2, <1>0
<1>2. b \in Seq(S) /\ Len(b) = Len(q) - n /\ \A i \in 1 .. Len(q) - n : b[i] = q[n + i]
  <2>1. \A i \in n + 1 .. Len(q) : q[i] \in S
    BY <1>0
  <2>2. /\ b \in Seq(S)
        /\ Len(b) = IF n + 1 <= Len(q) THEN Len(q) - (n + 1) + 1 ELSE 0
        /\ \A i \in 1 .. Len(q) - (n + 1) + 1 : b[i] = q[(n + 1) + i - 1]
    BY <1>0, <2>1, SubSeqProperties
  <2> QED BY <2>2, <1>0
<1>3. /\ a \o b \in Seq(S)
      /\ Len(a \o b) = Len(a) + Len(b)
      /\ \A i \in 1 .. Len(a) + Len(b) : (a \o b)[i] = IF i <= Len(a) THEN a[i] ELSE b[i - Len(a)]
  BY <1>1, <1>2, ConcatProperties
<1>4. RemoveAt(q, n) = a \o b
  BY DEF RemoveAt
<1> HIDE DEF a, b
<1>5. \A i \in 1 .. Len(q) - 1 : (a \o b)[i] = IF i < n THEN q[i] ELSE q[i + 1]
  <2> SUFFICES ASSUME NEW i \in 1 .. Len(q) - 1
               PROVE (a \o b)[i] = IF i < n THEN q[i] ELSE q[i + 1]
    OBVIOUS
  <2>1. (a \o b)[i] = IF i <= n - 1 THEN a[i] ELSE b[i - (n - 1)]
    BY <1>0, <1>1, <1>2, <1>3
  <2>2. CASE i < n
    BY <2>1, <2>2, <1>0, <1>1
  <2>3. CASE ~ (i < n)
    <3>1. i - (n - 1) \in 1 .. Len(q) - n /\ n + (i - (n - 1)) = i + 1
      BY <2>3, <1>0
    <3> QED BY <3>1, <2>1, <2>3, <1>0, <1>2
  <2> QED BY <2>2, <2>3
<1>6. a \o b \in Seq(S) /\ Len(a \o b) = Len(q) - 1
  BY <1>0, <1>1, <1>2, <1>3
<1> QED BY <1>4, <1>5, <1>6, Zenon

\* What Append does to the members of a queue.
LEMMA AppendMembers ==
    ASSUME NEW S, NEW q \in Seq(S), NEW p \in S
    PROVE  /\ Append(q, p) \in Seq(S)
           /\ Range(Append(q, p)) = Range(q) \cup {p}
           /\ (IsInjective(q) /\ p \notin Range(q)) => IsInjective(Append(q, p))
<1>1. /\ Append(q, p) \in Seq(S)
      /\ Len(Append(q, p)) = Len(q) + 1
      /\ \A i \in 1 .. Len(q) : Append(q, p)[i] = q[i]
      /\ Append(q, p)[Len(q) + 1] = p
  BY AppendProperties
<1>2. DOMAIN q = 1 .. Len(q) /\ DOMAIN Append(q, p) = 1 .. Len(q) + 1 /\ Len(q) \in Nat
  BY <1>1, LenProperties
<1> DEFINE r == Append(q, p)
<1> HIDE DEF r
<1>3. Range(r) = Range(q) \cup {p}
  <2>1. Range(r) \subseteq Range(q) \cup {p}
    <3> SUFFICES ASSUME NEW i \in DOMAIN r PROVE r[i] \in Range(q) \cup {p}
      BY DEF Range
    <3>1. CASE i = Len(q) + 1
      BY <3>1, <1>1 DEF r
    <3>2. CASE i \in 1 .. Len(q)
      BY <3>2, <1>1, <1>2 DEF r, Range
    <3> QED BY <3>1, <3>2, <1>2 DEF r
  <2>2. p \in Range(r)
    <3>1. Len(q) + 1 \in DOMAIN r /\ r[Len(q) + 1] = p
      BY <1>1, <1>2 DEF r
    <3> QED BY <3>1 DEF Range
  <2>3. Range(q) \subseteq Range(r)
    <3> SUFFICES ASSUME NEW i \in DOMAIN q PROVE q[i] \in Range(r)
      BY DEF Range
    <3>1. i \in DOMAIN r /\ r[i] = q[i]
      BY <1>1, <1>2 DEF r
    <3> QED BY <3>1 DEF Range
  <2> QED BY <2>1, <2>2, <2>3
<1>4. ASSUME IsInjective(q), p \notin Range(q) PROVE IsInjective(r)
  <2> SUFFICES ASSUME NEW i \in 1 .. Len(q) + 1, NEW j \in 1 .. Len(q) + 1, r[i] = r[j] PROVE i = j
    BY <1>2 DEF IsInjective, r
  <2>1. \A k \in 1 .. Len(q) : q[k] # p
    BY <1>4, <1>2 DEF Range
  <2>2. CASE i \in 1 .. Len(q) /\ j \in 1 .. Len(q)
    BY <2>2, <1>1, <1>2, <1>4 DEF IsInjective, r
  <2> QED BY <2>1, <2>2, <1>1, <1>2 DEF r
<1> QED BY <1>1, <1>3, <1>4 DEF r

\* Dequeue removes its process and keeps every other.
LEMMA DequeueMembers ==
    ASSUME NEW S, NEW q \in Seq(S), IsInjective(q), NEW p \in Range(q)
    PROVE  /\ Dequeue(q, p) \in Seq(S)
           /\ Range(Dequeue(q, p)) = Range(q) \ {p}
           /\ IsInjective(Dequeue(q, p))
<1> DEFINE n == CHOOSE i \in DOMAIN q : q[i] = p
           r == RemoveAt(q, n)
<1>1. n \in DOMAIN q /\ q[n] = p
  BY DEF Range
<1> HIDE DEF n
<1>2. /\ r \in Seq(S)
      /\ Len(r) = Len(q) - 1
      /\ \A i \in 1 .. Len(q) - 1 : r[i] = IF i < n THEN q[i] ELSE q[i + 1]
  BY <1>1, RemoveAtElements
<1>3. DOMAIN q = 1 .. Len(q) /\ DOMAIN r = 1 .. Len(q) - 1 /\ Len(q) \in Nat
  BY <1>2, LenProperties
<1>4. Dequeue(q, p) = r
  BY DEF Dequeue, n
<1> HIDE DEF r
<1>5. Range(r) \subseteq Range(q) \ {p}
  <2> SUFFICES ASSUME NEW i \in 1 .. Len(q) - 1 PROVE r[i] \in Range(q) \ {p}
    BY <1>3 DEF Range
  <2> DEFINE k == IF i < n THEN i ELSE i + 1
  <2>1. k \in DOMAIN q /\ k # n /\ r[i] = q[k]
    BY <1>1, <1>2, <1>3
  <2>2. q[k] # p
    BY <2>1, <1>1 DEF IsInjective
  <2> QED BY <2>1, <2>2 DEF Range
<1>6. Range(q) \ {p} \subseteq Range(r)
  <2> SUFFICES ASSUME NEW k \in DOMAIN q, q[k] # p PROVE \E i \in DOMAIN r : r[i] = q[k]
    BY DEF Range
  <2> DEFINE i == IF k < n THEN k ELSE k - 1
  <2>1. i \in DOMAIN r /\ r[i] = q[k]
    BY <1>1, <1>2, <1>3
  <2> QED BY <2>1
<1>7. IsInjective(r)
  <2> SUFFICES ASSUME NEW i \in 1 .. Len(q) - 1, NEW j \in 1 .. Len(q) - 1, r[i] = r[j] PROVE i = j
    BY <1>3 DEF IsInjective
  <2> DEFINE k == IF i < n THEN i ELSE i + 1
             l == IF j < n THEN j ELSE j + 1
  <2>1. k \in DOMAIN q /\ l \in DOMAIN q /\ q[k] = q[l]
    BY <1>1, <1>2, <1>3
  <2>2. k = l
    BY <2>1 DEF IsInjective
  <2> QED BY <2>2, <1>1, <1>3
<1> QED BY <1>2, <1>4, <1>5, <1>6, <1>7

-----------------------------------------------------------------------------
(***************************************************************************)
(* deadlock() sees every cycle a new SEND would close.                     *)
(***************************************************************************)

\* If the walk from d does not meet p, then letting p wait for d leaves the
\* waiting senders without a cycle: a cycle through the new edge would, cut
\* down to the processes the walk meets, have been one before.
LEMMA NoNewCycle ==
    ASSUME TypeOK, NoSendCycle,
           NEW p \in Proc, NEW d \in Proc, flags[p] = {}, ~ Deadlock(p, d),
           flags' = [flags EXCEPT ![p] = @ \cup {SENDING}],
           send_to' = [send_to EXCEPT ![p] = d]
    PROVE  NoSendCycle'
<1> SUFFICES ASSUME NEW S \in SUBSET Proc, S # {},
                    \A q \in S : SENDING \in flags'[q] /\ send_to'[q] \in S
             PROVE  FALSE
  BY DEF NoSendCycle
<1>1. PICK T \in SUBSET Proc :
          d \in T /\ (\A q \in T : SENDING \in flags[q] => send_to[q] \in T) /\ p \notin T
  BY DEF Deadlock
<1>2. \A q \in Proc \ {p} : flags'[q] = flags[q] /\ send_to'[q] = send_to[q]
  BY DEF TypeOK
<1>3. p \in S
  <2> SUFFICES ASSUME p \notin S PROVE FALSE
    OBVIOUS
  <2>1. \A q \in S : SENDING \in flags[q] /\ send_to[q] \in S
    BY <1>2
  <2> QED BY <2>1 DEF NoSendCycle
<1>4. d \in S
  BY <1>3 DEF TypeOK
<1>5. \A q \in S \cap T : SENDING \in flags[q] /\ send_to[q] \in S \cap T
  BY <1>1, <1>2
<1>6. S \cap T # {} /\ S \cap T \in SUBSET Proc
  BY <1>1, <1>4
<1> QED BY <1>5, <1>6 DEF NoSendCycle

\* Waking a sender, or putting a process to sleep that is no sender, closes no
\* cycle either.
LEMMA NoCycleKept ==
    ASSUME NoSendCycle,
           \A q \in Proc : SENDING \in flags'[q] => SENDING \in flags[q] /\ send_to'[q] = send_to[q]
    PROVE  NoSendCycle'
<1> SUFFICES ASSUME NEW S \in SUBSET Proc, S # {},
                    \A q \in S : SENDING \in flags'[q] /\ send_to'[q] \in S
             PROVE  FALSE
  BY DEF NoSendCycle
<1> QED BY DEF NoSendCycle

-----------------------------------------------------------------------------
(***************************************************************************)
(* The invariant holds initially and every action keeps it.                *)
(***************************************************************************)

\* A status word has four values, and PcbConsistent leaves three.
LEMMA FlagValues ==
    ASSUME TypeOK, PcbConsistent, NEW p \in Proc
    PROVE  \/ flags[p] = {} /\ p_msg[p] = FALSE /\ send_to[p] = NO_TASK /\ recv_from[p] = NO_TASK
           \/ flags[p] = {SENDING} /\ p_msg[p] = TRUE /\ send_to[p] # NO_TASK /\ recv_from[p] = NO_TASK
           \/ flags[p] = {RECEIVING} /\ p_msg[p] = TRUE /\ send_to[p] = NO_TASK /\ recv_from[p] # NO_TASK
<1>1. SENDING # RECEIVING
  BY DEF SENDING, RECEIVING
<1>2. flags[p] \in SUBSET {SENDING, RECEIVING} /\ p_msg[p] \in BOOLEAN
  BY DEF TypeOK
<1>3. flags[p] = {} \/ flags[p] = {SENDING} \/ flags[p] = {RECEIVING}
  BY <1>2 DEF PcbConsistent
<1> QED BY <1>1, <1>2, <1>3 DEF PcbConsistent

\* The converse, for the state after a step.
LEMMA PcbFromValues ==
    ASSUME \A p \in Proc :
             \/ flags'[p] = {} /\ p_msg'[p] = FALSE /\ send_to'[p] = NO_TASK /\ recv_from'[p] = NO_TASK
             \/ flags'[p] = {SENDING} /\ p_msg'[p] = TRUE /\ send_to'[p] # NO_TASK /\ recv_from'[p] = NO_TASK
             \/ flags'[p] = {RECEIVING} /\ p_msg'[p] = TRUE /\ send_to'[p] = NO_TASK /\ recv_from'[p] # NO_TASK
    PROVE  PcbConsistent'
<1>1. SENDING # RECEIVING
  BY DEF SENDING, RECEIVING
<1> QED BY <1>1 DEF PcbConsistent

LEMMA InitInv == Init => IpcInv
<1> SUFFICES ASSUME Init PROVE IpcInv
  OBVIOUS
<1> USE DEF Init, SENDING, RECEIVING
<1>1. TypeOK
  <2>1. \A p \in Proc : q_sending[p] \in Seq(Proc)
    OBVIOUS
  <2>2. buf \in [Proc -> Message]
    BY DEF Message
  <2> QED BY <2>1, <2>2 DEF TypeOK
<1>2. PcbConsistent
  BY IpcAssumption DEF PcbConsistent
<1>3. QueuesExact
  <2> SUFFICES ASSUME NEW d \in Proc
               PROVE  Range(<<>>) = {p \in Proc : SendingTo(p, d)} /\ IsInjective(<<>>)
    BY DEF QueuesExact
  <2>1. \A p \in Proc : ~ SendingTo(p, d)
    BY DEF SendingTo
  <2> QED BY <2>1 DEF Range, IsInjective
<1>4. NoSendCycle
  BY DEF NoSendCycle
<1>5. NoMissedRendezvous /\ NoMissedInterrupt
  BY DEF NoMissedRendezvous, NoMissedInterrupt, SendingTo, Awaits
<1> QED BY <1>1, <1>2, <1>3, <1>4, <1>5 DEF IpcInv

\* Queues and senders stay what they are when nobody starts or ends a SEND.
LEMMA QueuesKept ==
    ASSUME QueuesExact, UNCHANGED <<q_sending, send_to>>,
           \A q \in Proc : SENDING \in flags'[q] <=> SENDING \in flags[q]
    PROVE  QueuesExact'
<1>1. \A q, d \in Proc : SendingTo(q, d)' <=> SendingTo(q, d)
  BY DEF SendingTo
<1> QED BY <1>1 DEF QueuesExact

LEMMA SendDirectInv ==
    ASSUME IpcInv, NEW p \in Proc, NEW d \in Proc \ {p}, NEW t \in Type, Runnable(p),
           SendDirect(p, d, [source |-> p, type |-> t])
    PROVE  IpcInv'
<1> USE DEF SENDING, RECEIVING
<1>1. TypeOK /\ PcbConsistent /\ QueuesExact /\ NoSendCycle /\ NoMissedRendezvous /\ NoMissedInterrupt
  BY DEF IpcInv
<1>2. /\ flags[d] = {RECEIVING}
      /\ flags' = [flags EXCEPT ![d] = {}]
      /\ p_msg' = [p_msg EXCEPT ![d] = FALSE]
      /\ recv_from' = [recv_from EXCEPT ![d] = NO_TASK]
      /\ UNCHANGED <<send_to, has_int_msg, q_sending, halted>>
  <2>1. flags[d] = {RECEIVING}
    BY <1>1, FlagValues DEF SendDirect, Awaits
  <2> QED BY <2>1 DEF SendDirect, Wake
<1>3. TypeOK'
  <2>1. [source |-> p, type |-> t] \in Message
    BY DEF Message
  <2> QED BY <1>1, <1>2, <2>1 DEF TypeOK, SendDirect
<1>4. PcbConsistent'
  <2>1. send_to[d] = NO_TASK
    BY <1>1, <1>2, FlagValues
  <2> QED BY <1>1, <1>2, <2>1, FlagValues, PcbFromValues DEF TypeOK
<1>5. \A q \in Proc : SENDING \in flags'[q] <=> SENDING \in flags[q]
  BY <1>1, <1>2 DEF TypeOK
<1>6. QueuesExact'
  BY <1>1, <1>2, <1>5, QueuesKept
<1>7. NoSendCycle'
  BY <1>1, <1>2, <1>5, NoCycleKept
<1>8. \A q \in Proc : RECEIVING \in flags'[q] => RECEIVING \in flags[q] /\ recv_from'[q] = recv_from[q]
  BY <1>1, <1>2 DEF TypeOK
<1>9. NoMissedRendezvous'
  BY <1>1, <1>2, <1>5, <1>8 DEF NoMissedRendezvous, SendingTo, Awaits
<1>10. NoMissedInterrupt'
  BY <1>1, <1>2, <1>8 DEF NoMissedInterrupt, Awaits
<1> QED BY <1>3, <1>4, <1>6, <1>7, <1>9, <1>10 DEF IpcInv

LEMMA SendBlockInv ==
    ASSUME IpcInv, NEW p \in Proc, NEW d \in Proc \ {p}, NEW t \in Type, Runnable(p),
           SendBlock(p, d, [source |-> p, type |-> t])
    PROVE  IpcInv'
<1> USE DEF SENDING, RECEIVING
<1>1. TypeOK /\ PcbConsistent /\ QueuesExact /\ NoSendCycle /\ NoMissedRendezvous /\ NoMissedInterrupt
  BY DEF IpcInv
<1>2. /\ flags[p] = {} /\ ~ Awaits(d, p)
      /\ flags' = [flags EXCEPT ![p] = {SENDING}]
      /\ p_msg' = [p_msg EXCEPT ![p] = TRUE]
      /\ send_to' = [send_to EXCEPT ![p] = d]
      /\ q_sending' = [q_sending EXCEPT ![d] = Append(@, p)]
      /\ UNCHANGED <<recv_from, has_int_msg, halted>>
  BY <1>1 DEF SendBlock, Runnable, Sleep, TypeOK
<1>3. TypeOK'
  <2>1. [source |-> p, type |-> t] \in Message
    BY DEF Message
  <2>2. Append(q_sending[d], p) \in Seq(Proc)
    BY <1>1, AppendMembers DEF TypeOK
  <2> QED BY <1>1, <1>2, <2>1, <2>2 DEF TypeOK, SendBlock
<1>4. PcbConsistent'
  <2>1. d # NO_TASK /\ recv_from[p] = NO_TASK
    BY <1>1, <1>2, FlagValues, IpcAssumption
  <2> QED BY <1>1, <1>2, <2>1, FlagValues, PcbFromValues DEF TypeOK
<1>5. \A q, e \in Proc : SendingTo(q, e)' <=> (SendingTo(q, e) \/ (q = p /\ e = d))
  BY <1>1, <1>2 DEF SendingTo, TypeOK
<1>6. QueuesExact'
  <2> SUFFICES ASSUME NEW e \in Proc
               PROVE  /\ Range(q_sending'[e]) = {q \in Proc : SendingTo(q, e)'}
                      /\ IsInjective(q_sending'[e])
    BY DEF QueuesExact
  <2>1. q_sending[e] \in Seq(Proc) /\ IsInjective(q_sending[e])
        /\ Range(q_sending[e]) = {q \in Proc : SendingTo(q, e)}
    BY <1>1 DEF QueuesExact, TypeOK
  <2>2. CASE e = d
    <3>1. p \notin Range(q_sending[e])
      BY <1>2, <2>1 DEF SendingTo
    <3>2. q_sending'[e] = Append(q_sending[e], p)
      BY <2>2, <1>1, <1>2 DEF TypeOK
    <3>3. Range(q_sending'[e]) = Range(q_sending[e]) \cup {p} /\ IsInjective(q_sending'[e])
      BY <2>1, <3>1, <3>2, AppendMembers
    <3> QED BY <2>1, <2>2, <3>3, <1>5
  <2>3. CASE e # d
    <3>1. q_sending'[e] = q_sending[e]
      BY <2>3, <1>1, <1>2 DEF TypeOK
    <3> QED BY <2>1, <2>3, <3>1, <1>5
  <2> QED BY <2>2, <2>3
<1>7. NoSendCycle'
  BY <1>1, <1>2, NoNewCycle DEF SendBlock, Sleep
<1>8. \A q \in Proc : RECEIVING \in flags'[q] <=> RECEIVING \in flags[q]
  BY <1>1, <1>2 DEF TypeOK
<1>9. NoMissedRendezvous'
  BY <1>1, <1>2, <1>5, <1>8 DEF NoMissedRendezvous, Awaits
<1>10. NoMissedInterrupt'
  BY <1>1, <1>2, <1>8 DEF NoMissedInterrupt, Awaits
<1> QED BY <1>3, <1>4, <1>6, <1>7, <1>9, <1>10 DEF IpcInv

\* The sender a RECEIVE picks does wait to send to the caller.
LEMMA ChosenSends ==
    ASSUME TypeOK, QueuesExact, NEW p \in Proc, NEW s \in Sources(p), SenderReady(p, s)
    PROVE  Chosen(p, s) \in Proc /\ SendingTo(Chosen(p, s), p)
<1>1. CASE s = ANY
  <2>1. q_sending[p] \in Seq(Proc) /\ q_sending[p] # <<>>
    BY <1>1 DEF TypeOK, SenderReady
  <2>2. 1 \in DOMAIN q_sending[p] /\ Head(q_sending[p]) = q_sending[p][1]
    BY <2>1
  <2>3. Chosen(p, s) \in Range(q_sending[p])
    BY <1>1, <2>2 DEF Range, Chosen
  <2> QED BY <2>3 DEF QueuesExact
<1>2. CASE s # ANY
  BY <1>2 DEF SenderReady, Chosen
<1> QED BY <1>1, <1>2

LEMMA ReceiveQueuedInv ==
    ASSUME IpcInv, NEW p \in Proc, NEW s \in Sources(p), Runnable(p), ReceiveQueued(p, s)
    PROVE  IpcInv'
<1> USE DEF SENDING, RECEIVING
<1> DEFINE from == Chosen(p, s)
<1>1. TypeOK /\ PcbConsistent /\ QueuesExact /\ NoSendCycle /\ NoMissedRendezvous /\ NoMissedInterrupt
  BY DEF IpcInv
<1>2. from \in Proc /\ SendingTo(from, p)
  BY <1>1, ChosenSends DEF ReceiveQueued
<1>3. /\ buf' = [buf EXCEPT ![p] = buf[from]]
      /\ q_sending' = [q_sending EXCEPT ![p] = Dequeue(@, from)]
      /\ Wake(from, SENDING)
      /\ send_to' = [send_to EXCEPT ![from] = NO_TASK]
      /\ UNCHANGED <<recv_from, has_int_msg, halted>>
  BY DEF ReceiveQueued
<1> HIDE DEF from
<1>4. /\ flags' = [flags EXCEPT ![from] = {}]
      /\ p_msg' = [p_msg EXCEPT ![from] = FALSE]
  <2>1. flags[from] = {SENDING}
    BY <1>1, <1>2, FlagValues DEF SendingTo
  <2> QED BY <1>3, <2>1 DEF Wake
<1>5. /\ Dequeue(q_sending[p], from) \in Seq(Proc)
      /\ Range(Dequeue(q_sending[p], from)) = Range(q_sending[p]) \ {from}
      /\ IsInjective(Dequeue(q_sending[p], from))
  <2>1. q_sending[p] \in Seq(Proc) /\ IsInjective(q_sending[p]) /\ from \in Range(q_sending[p])
    BY <1>1, <1>2 DEF TypeOK, QueuesExact
  <2> QED BY <2>1, DequeueMembers
<1>6. TypeOK'
  BY <1>1, <1>2, <1>3, <1>4, <1>5 DEF TypeOK
<1>7. PcbConsistent'
  <2>1. recv_from[from] = NO_TASK
    <3>1. SENDING \in flags[from] /\ SENDING # RECEIVING
      BY <1>2 DEF SendingTo
    <3> HIDE DEF SENDING, RECEIVING
    <3> QED BY <1>1, <1>2, <3>1, FlagValues
  <2> QED BY <1>1, <1>2, <1>3, <1>4, <2>1, FlagValues, PcbFromValues DEF TypeOK
<1>8. \A q, e \in Proc : SendingTo(q, e)' <=> (SendingTo(q, e) /\ q # from)
  BY <1>1, <1>2, <1>3, <1>4, IpcAssumption DEF SendingTo, TypeOK
<1>9. QueuesExact'
  <2> SUFFICES ASSUME NEW e \in Proc
               PROVE  /\ Range(q_sending'[e]) = {q \in Proc : SendingTo(q, e)'}
                      /\ IsInjective(q_sending'[e])
    BY DEF QueuesExact
  <2>1. IsInjective(q_sending[e]) /\ Range(q_sending[e]) = {q \in Proc : SendingTo(q, e)}
    BY <1>1 DEF QueuesExact
  <2>2. CASE e = p
    <3>1. q_sending'[e] = Dequeue(q_sending[p], from)
      BY <2>2, <1>1, <1>3 DEF TypeOK
    <3> QED BY <2>1, <2>2, <3>1, <1>5, <1>8
  <2>3. CASE e # p
    <3>1. q_sending'[e] = q_sending[e]
      BY <2>3, <1>1, <1>3 DEF TypeOK
    <3>2. ~ SendingTo(from, e)
      BY <2>3, <1>2 DEF SendingTo
    <3> QED BY <2>1, <3>1, <3>2, <1>8
  <2> QED BY <2>2, <2>3
<1>10. NoSendCycle'
  <2>1. \A q \in Proc : SENDING \in flags'[q] => SENDING \in flags[q] /\ send_to'[q] = send_to[q]
    BY <1>1, <1>2, <1>3, <1>4 DEF TypeOK
  <2> QED BY <1>1, <2>1, NoCycleKept
<1>11. \A q \in Proc : RECEIVING \in flags'[q] => RECEIVING \in flags[q]
  BY <1>1, <1>2, <1>4 DEF TypeOK
<1>12. NoMissedRendezvous'
  BY <1>1, <1>3, <1>8, <1>11 DEF NoMissedRendezvous, Awaits
<1>13. NoMissedInterrupt'
  BY <1>1, <1>3, <1>11 DEF NoMissedInterrupt, Awaits
<1> QED BY <1>6, <1>7, <1>9, <1>10, <1>12, <1>13 DEF IpcInv

LEMMA ReceiveBlockInv ==
    ASSUME IpcInv, NEW p \in Proc, NEW s \in Sources(p), Runnable(p), ReceiveBlock(p, s)
    PROVE  IpcInv'
<1> USE DEF SENDING, RECEIVING
<1>1. TypeOK /\ PcbConsistent /\ QueuesExact /\ NoSendCycle /\ NoMissedRendezvous /\ NoMissedInterrupt
  BY DEF IpcInv
<1>2. /\ flags[p] = {} /\ ~ IntReady(p, s) /\ ~ SenderReady(p, s)
      /\ flags' = [flags EXCEPT ![p] = {RECEIVING}]
      /\ p_msg' = [p_msg EXCEPT ![p] = TRUE]
      /\ recv_from' = [recv_from EXCEPT ![p] = s]
      /\ UNCHANGED <<send_to, has_int_msg, q_sending>>
  BY <1>1 DEF ReceiveBlock, Runnable, Sleep, TypeOK
<1>3. s \in Proc \cup {ANY, INTERRUPT} /\ s # NO_TASK
  BY IpcAssumption DEF Sources
<1>4. TypeOK'
  <2>1. [buf[p] EXCEPT !.source = p] \in Message
    BY <1>1 DEF TypeOK, Message
  <2>2. buf' \in [Proc -> Message]
    BY <1>1, <2>1 DEF TypeOK, ReceiveBlock
  <2> QED BY <1>1, <1>2, <1>3, <2>2 DEF TypeOK, ReceiveBlock
<1>5. PcbConsistent'
  <2>1. send_to[p] = NO_TASK
    BY <1>1, <1>2, FlagValues
  <2> QED BY <1>1, <1>2, <1>3, <2>1, FlagValues, PcbFromValues DEF TypeOK
<1>6. \A q \in Proc : SENDING \in flags'[q] <=> SENDING \in flags[q]
  BY <1>1, <1>2 DEF TypeOK
<1>7. QueuesExact'
  BY <1>1, <1>2, <1>6, QueuesKept
<1>8. NoSendCycle'
  BY <1>1, <1>2, <1>6, NoCycleKept
<1>9. NoMissedRendezvous'
  <2> SUFFICES ASSUME NEW q \in Proc, NEW d \in Proc, SendingTo(q, d)', Awaits(d, q)'
               PROVE  FALSE
    BY DEF NoMissedRendezvous
  <2>1. SendingTo(q, d)
    BY <1>2, <1>6 DEF SendingTo
  <2>2. CASE d = p
    <3>1. s \in {q, ANY}
      BY <2>2, <1>1, <1>2 DEF Awaits, TypeOK
    <3>2. CASE s = ANY
      <4>1. q \in Range(q_sending[p])
        BY <2>1, <2>2, <1>1 DEF QueuesExact
      <4>2. q_sending[p] = <<>>
        BY <3>2, <1>2 DEF SenderReady
      <4> QED BY <4>1, <4>2 DEF Range
    <3>3. CASE s # ANY
      BY <3>1, <3>3, <2>1, <2>2, <1>2 DEF SenderReady
    <3> QED BY <3>2, <3>3
  <2>3. CASE d # p
    BY <2>1, <2>3, <1>1, <1>2 DEF NoMissedRendezvous, Awaits, TypeOK
  <2> QED BY <2>2, <2>3
<1>10. NoMissedInterrupt'
  <2> SUFFICES ASSUME NEW q \in Proc, Awaits(q, INTERRUPT)', has_int_msg'[q] PROVE FALSE
    BY DEF NoMissedInterrupt
  <2>1. CASE q = p
    BY <2>1, <1>1, <1>2 DEF Awaits, IntReady, TypeOK
  <2>2. CASE q # p
    BY <2>2, <1>1, <1>2 DEF NoMissedInterrupt, Awaits, TypeOK
  <2> QED BY <2>1, <2>2
<1> QED BY <1>4, <1>5, <1>7, <1>8, <1>9, <1>10 DEF IpcInv

LEMMA InformDirectInv ==
    ASSUME IpcInv, NEW p \in IntTask, InformDirect(p)
    PROVE  IpcInv'
<1> USE DEF SENDING, RECEIVING
<1>1. TypeOK /\ PcbConsistent /\ QueuesExact /\ NoSendCycle /\ NoMissedRendezvous /\ NoMissedInterrupt
  BY DEF IpcInv
<1>2. p \in Proc
  BY IpcAssumption
<1>3. /\ flags' = [flags EXCEPT ![p] = {}]
      /\ p_msg' = [p_msg EXCEPT ![p] = FALSE]
      /\ recv_from' = [recv_from EXCEPT ![p] = NO_TASK]
      /\ has_int_msg' = [has_int_msg EXCEPT ![p] = FALSE]
      /\ UNCHANGED <<send_to, q_sending, halted>>
  <2>1. flags[p] = {RECEIVING}
    BY <1>1, <1>2, FlagValues DEF InformDirect, Awaits
  <2> QED BY <2>1 DEF InformDirect, Wake
<1>4. TypeOK'
  <2>1. [buf[p] EXCEPT !.source = INTERRUPT, !.type = HARD_INT] \in Message
    BY <1>1, <1>2 DEF TypeOK, Message
  <2>2. buf' \in [Proc -> Message]
    BY <1>1, <1>2, <2>1 DEF TypeOK, InformDirect
  <2> QED BY <1>1, <1>2, <1>3, <2>2 DEF TypeOK
<1>5. PcbConsistent'
  <2>1. RECEIVING \in flags[p]
    BY DEF InformDirect, Awaits
  <2>2. send_to[p] = NO_TASK
    BY <1>1, <1>2, <2>1, FlagValues
  <2> QED BY <1>1, <1>2, <1>3, <2>2, FlagValues, PcbFromValues DEF TypeOK
<1>6. \A q \in Proc : SENDING \in flags'[q] <=> SENDING \in flags[q]
  <2>1. SENDING \notin flags[p]
    <3>1. flags[p] = {RECEIVING}
      BY <1>1, <1>2, FlagValues DEF InformDirect, Awaits
    <3> QED BY <3>1
  <2> QED BY <1>1, <1>2, <1>3, <2>1 DEF TypeOK
<1>7. QueuesExact'
  BY <1>1, <1>3, <1>6, QueuesKept
<1>8. NoSendCycle'
  BY <1>1, <1>3, <1>6, NoCycleKept
<1>9. \A q \in Proc : RECEIVING \in flags'[q] => /\ RECEIVING \in flags[q]
                                               /\ recv_from'[q] = recv_from[q]
                                               /\ has_int_msg'[q] = has_int_msg[q]
  BY <1>1, <1>2, <1>3 DEF TypeOK
<1>10. NoMissedRendezvous'
  BY <1>1, <1>3, <1>6, <1>9 DEF NoMissedRendezvous, SendingTo, Awaits
<1>11. NoMissedInterrupt'
  BY <1>1, <1>9 DEF NoMissedInterrupt, Awaits
<1> QED BY <1>4, <1>5, <1>7, <1>8, <1>10, <1>11 DEF IpcInv

\* The steps that leave the PCBs' rendezvous fields alone.
LEMMA OtherInv ==
    ASSUME IpcInv, UNCHANGED <<flags, p_msg, recv_from, send_to, q_sending>>,
           has_int_msg' \in [Proc -> BOOLEAN], buf' \in [Proc -> Message],
           halted' \in {"no", "deadlock", "assert"},
           \A p \in Proc : has_int_msg'[p] => has_int_msg[p] \/ ~ Awaits(p, INTERRUPT)
    PROVE  IpcInv'
<1>1. TypeOK /\ PcbConsistent /\ QueuesExact /\ NoSendCycle /\ NoMissedRendezvous /\ NoMissedInterrupt
  BY DEF IpcInv
<1>2. TypeOK'
  BY <1>1 DEF TypeOK
<1>3. PcbConsistent'
  BY <1>1 DEF PcbConsistent
<1>4. QueuesExact'
  BY <1>1, QueuesKept
<1>5. NoSendCycle'
  BY <1>1, NoCycleKept
<1>6. NoMissedRendezvous'
  BY <1>1 DEF NoMissedRendezvous, SendingTo, Awaits
<1>7. NoMissedInterrupt'
  BY <1>1 DEF NoMissedInterrupt, Awaits
<1> QED BY <1>2, <1>3, <1>4, <1>5, <1>6, <1>7 DEF IpcInv

LEMMA NextInv == IpcInv /\ [Next]_vars => IpcInv'
<1> SUFFICES ASSUME IpcInv, [Next]_vars PROVE IpcInv'
  OBVIOUS
<1>0. TypeOK
  BY DEF IpcInv
<1>1. ASSUME NEW p \in Proc, NEW d \in Proc \ {p}, NEW t \in Type, Send(p, d, t) PROVE IpcInv'
  <2> DEFINE m == [source |-> p, type |-> t]
  <2>1. CASE SendDeadlock(p, d, m)
    <3>1. m \in Message
      BY DEF Message
    <3>2. buf' \in [Proc -> Message]
      BY <1>0, <2>1, <3>1 DEF SendDeadlock, TypeOK
    <3>3. UNCHANGED <<flags, p_msg, recv_from, send_to, has_int_msg, q_sending>> /\ halted' = "deadlock"
      BY <2>1 DEF SendDeadlock, Halt
    <3> QED BY <1>0, <3>2, <3>3, OtherInv DEF TypeOK
  <2>2. CASE SendDirect(p, d, m)
    BY <1>1, <2>2, SendDirectInv DEF Send
  <2>3. CASE SendBlock(p, d, m)
    BY <1>1, <2>3, SendBlockInv DEF Send
  <2> QED BY <1>1, <2>1, <2>2, <2>3 DEF Send
<1>2. ASSUME NEW p \in Proc, NEW s \in Sources(p), Receive(p, s) PROVE IpcInv'
  <2>1. CASE ReceiveInterrupt(p, s)
    <3>1. buf' \in [Proc -> Message]
      BY <1>0, <2>1 DEF ReceiveInterrupt, TypeOK, Message
    <3>2. has_int_msg' \in [Proc -> BOOLEAN] /\ \A q \in Proc : has_int_msg'[q] => has_int_msg[q]
      BY <1>0, <2>1 DEF ReceiveInterrupt, TypeOK
    <3>3. UNCHANGED <<flags, p_msg, recv_from, send_to, q_sending, halted>>
      BY <2>1 DEF ReceiveInterrupt
    <3> QED BY <1>0, <3>1, <3>2, <3>3, OtherInv DEF TypeOK
  <2>2. CASE ReceiveQueued(p, s)
    BY <1>2, <2>2, ReceiveQueuedInv DEF Receive
  <2>3. CASE ReceiveBlock(p, s)
    BY <1>2, <2>3, ReceiveBlockInv DEF Receive
  <2> QED BY <1>2, <2>1, <2>2, <2>3 DEF Receive
<1>3. ASSUME NEW p \in IntTask, InformInt(p) PROVE IpcInv'
  <2>1. CASE InformDirect(p)
    BY <2>1, InformDirectInv
  <2>2. CASE InformLater(p)
    <3>1. has_int_msg' \in [Proc -> BOOLEAN]
          /\ \A q \in Proc : has_int_msg'[q] => has_int_msg[q] \/ ~ Awaits(q, INTERRUPT)
      BY <1>0, <2>2, IpcAssumption DEF InformLater, TypeOK
    <3>2. UNCHANGED <<flags, p_msg, recv_from, send_to, q_sending, buf, halted>>
      BY <2>2 DEF InformLater
    <3> QED BY <1>0, <3>1, <3>2, OtherInv DEF TypeOK
  <2> QED BY <1>3, <2>1, <2>2 DEF InformInt
<1>4. CASE UNCHANGED vars
  <2>1. UNCHANGED <<flags, p_msg, recv_from, send_to, has_int_msg, q_sending, buf, halted>>
    BY <1>4 DEF vars
  <2> QED BY <1>0, <2>1, OtherInv DEF TypeOK
<1> QED BY <1>1, <1>2, <1>3, <1>4 DEF Next

-----------------------------------------------------------------------------
(***************************************************************************)
(* What a call does, as its callers see it: how each process stands to the *)
(* others, before and after.                                               *)
(***************************************************************************)

Free(p) == flags[p] = {}

Sends(p, d) == flags[p] = {SENDING} /\ send_to[p] = d

Waits(p, s) == flags[p] = {RECEIVING} /\ recv_from[p] = s

\* q stands to the others as it stood.
Still(q) ==
    /\ Free(q)' <=> Free(q)
    /\ \A d : Sends(q, d)' <=> Sends(q, d)
    /\ \A s : Waits(q, s)' <=> Waits(q, s)

\* A process is free, or blocked for one reason, on one process.
OneStanding(p) ==
    /\ \A d : Free(p) => ~ Sends(p, d) /\ ~ Waits(p, d)
    /\ \A d, s : Sends(p, d) => ~ Waits(p, s)
    /\ \A d, e : Sends(p, d) /\ Sends(p, e) => d = e
    /\ \A s, r : Waits(p, s) /\ Waits(p, r) => s = r

LEMMA Standing == \A p : OneStanding(p)
<1>1. {SENDING} # {RECEIVING} /\ {SENDING} # {} /\ {RECEIVING} # {}
  BY DEF SENDING, RECEIVING
<1> HIDE DEF SENDING, RECEIVING
<1> TAKE p
<1>2. \A d : Free(p) => ~ Sends(p, d) /\ ~ Waits(p, d)
  BY <1>1 DEF Free, Sends, Waits
<1>3. \A d, s : Sends(p, d) => ~ Waits(p, s)
  BY <1>1 DEF Sends, Waits
<1>4. \A d, e : Sends(p, d) /\ Sends(p, e) => d = e
  BY DEF Sends
<1>5. \A s, r : Waits(p, s) /\ Waits(p, r) => s = r
  BY DEF Waits
<1> QED BY <1>2, <1>3, <1>4, <1>5, Zenon DEF OneStanding

\* What is not touched stays.
LEMMA StillKept ==
    ASSUME NEW q, flags'[q] = flags[q], send_to'[q] = send_to[q], recv_from'[q] = recv_from[q]
    PROVE  Still(q)
  BY DEF Still, Free, Sends, Waits

\* deadlock() follows a chain of senders: it is at d, which sends, and goes on
\* with whom d sends to until it is at p.
LEMMA ChainGoesOn ==
    ASSUME IpcInv, NEW p \in Proc, NEW d \in Proc, Deadlock(p, d), p # d
    PROVE  \E e \in Proc : Sends(d, e) /\ (e # p => Deadlock(p, e))
<1>1. TypeOK /\ PcbConsistent
  BY DEF IpcInv
<1>2. \A q \in Proc : SENDING \in flags[q] => flags[q] = {SENDING} /\ send_to[q] \in Proc
  <2> TAKE q \in Proc
  <2>1. SENDING # RECEIVING
    BY DEF SENDING, RECEIVING
  <2>2. send_to[q] \in Proc \cup {NO_TASK}
    BY <1>1 DEF TypeOK
  <2> QED BY <1>1, <2>1, <2>2, FlagValues
<1>3. SENDING \in flags[d]
  <2>1. {d} \in SUBSET Proc /\ d \in {d} /\ p \notin {d}
    OBVIOUS
  <2> QED BY <2>1 DEF Deadlock
<1>4. PICK e \in Proc : flags[d] = {SENDING} /\ send_to[d] = e
  BY <1>2, <1>3
<1>5. Deadlock(p, e)
  <2> SUFFICES ASSUME NEW T \in SUBSET Proc, e \in T,
                      \A q \in T : SENDING \in flags[q] => send_to[q] \in T
               PROVE  p \in T
    BY DEF Deadlock
  <2>1. T \cup {d} \in SUBSET Proc /\ d \in T \cup {d}
    OBVIOUS
  <2>2. \A q \in T \cup {d} : SENDING \in flags[q] => send_to[q] \in T \cup {d}
    BY <1>4
  <2>3. p \in T \cup {d}
    BY <2>1, <2>2 DEF Deadlock
  <2> QED BY <2>3
<1> QED BY <1>4, <1>5 DEF Sends

\* So it ends at the first process that does not send.
LEMMA ChainEnds ==
    ASSUME IpcInv, NEW p \in Proc, NEW d \in Proc, Deadlock(p, d), p # d
    PROVE  \E e \in Proc : Sends(d, e) /\ (e # p => \E f \in Proc : Sends(e, f))
<1>1. PICK e \in Proc : Sends(d, e) /\ (e # p => Deadlock(p, e))
  BY ChainGoesOn
<1>2. e # p => \E f \in Proc : Sends(e, f)
  BY <1>1, ChainGoesOn
<1> QED BY <1>1, <1>2

\* A SEND: the kernel stops, the message is delivered, or the caller sleeps.
LEMMA SendOutcome ==
    ASSUME IpcInv, NEW p \in Proc, NEW d \in Proc \ {p}, NEW t \in Type, Send(p, d, t)
    PROVE  /\ Free(p) /\ UNCHANGED has_int_msg
           /\ buf'[p] = [source |-> p, type |-> t]
           /\ \A q \in Proc \ {p, d} : Still(q) /\ buf'[q] = buf[q]
           /\ \/ /\ Deadlock(p, d) /\ halted' = "deadlock"
                 /\ Still(p) /\ Still(d) /\ buf'[d] = buf[d]
              \/ /\ halted' = halted /\ \E s \in {p, ANY} : Waits(d, s)
                 /\ Free(p)' /\ Free(d)' /\ buf'[d] = [source |-> p, type |-> t]
              \/ /\ halted' = halted /\ ~ Waits(d, p) /\ ~ Waits(d, ANY)
                 /\ Sends(p, d)' /\ Still(d) /\ buf'[d] = buf[d]
<1> DEFINE m == [source |-> p, type |-> t]
<1>1. TypeOK /\ PcbConsistent
  BY DEF IpcInv
<1>2. flags[p] = {}
  BY DEF Send, Runnable
<1>3. SendDeadlock(p, d, m) \/ SendDirect(p, d, m) \/ SendBlock(p, d, m)
  BY DEF Send
<1> HIDE DEF m
<1>4. CASE SendDeadlock(p, d, m)
  <2>1. /\ \A q \in Proc : Still(q)
        /\ halted' = "deadlock" /\ Deadlock(p, d) /\ UNCHANGED has_int_msg
    BY <1>4, StillKept DEF SendDeadlock, Halt
  <2>2. buf'[p] = m /\ \A q \in Proc \ {p} : buf'[q] = buf[q]
    BY <1>1, <1>4 DEF SendDeadlock, TypeOK
  <2> QED BY <1>2, <2>1, <2>2 DEF Free, m
<1>5. CASE SendDirect(p, d, m)
  <2>1. flags[d] = {RECEIVING} /\ recv_from[d] \in {p, ANY}
    BY <1>1, <1>5, FlagValues DEF SendDirect, Awaits, SENDING, RECEIVING
  <2>2. flags' = [flags EXCEPT ![d] = {}] /\ recv_from' = [recv_from EXCEPT ![d] = NO_TASK]
        /\ UNCHANGED <<send_to, has_int_msg, halted>>
    BY <1>5, <2>1 DEF SendDirect, Wake
  <2>3. \A q \in Proc \ {d} : Still(q)
    <3> TAKE q \in Proc \ {d}
    <3>1. flags'[q] = flags[q] /\ send_to'[q] = send_to[q] /\ recv_from'[q] = recv_from[q]
      BY <1>1, <2>2 DEF TypeOK
    <3> QED BY <3>1, StillKept
  <2>4. buf'[p] = m /\ buf'[d] = m /\ \A q \in Proc \ {p, d} : buf'[q] = buf[q]
    BY <1>1, <1>5 DEF SendDirect, TypeOK
  <2>5. Free(p) /\ Free(p)' /\ Free(d)'
    BY <1>1, <1>2, <2>2 DEF Free, TypeOK
  <2>6. \E s \in {p, ANY} : Waits(d, s)
    BY <2>1 DEF Waits
  <2> QED BY <2>2, <2>3, <2>4, <2>5, <2>6 DEF m
<1>6. CASE SendBlock(p, d, m)
  <2>1. flags' = [flags EXCEPT ![p] = {SENDING}] /\ send_to' = [send_to EXCEPT ![p] = d]
        /\ UNCHANGED <<recv_from, has_int_msg, halted>>
    BY <1>1, <1>2, <1>6 DEF SendBlock, Sleep, TypeOK
  <2>2. \A q \in Proc \ {p} : Still(q)
    <3> TAKE q \in Proc \ {p}
    <3>1. flags'[q] = flags[q] /\ send_to'[q] = send_to[q] /\ recv_from'[q] = recv_from[q]
      BY <1>1, <2>1 DEF TypeOK
    <3> QED BY <3>1, StillKept
  <2>3. buf'[p] = m /\ \A q \in Proc \ {p} : buf'[q] = buf[q]
    BY <1>1, <1>6 DEF SendBlock, TypeOK
  <2>4. Free(p) /\ Sends(p, d)'
    BY <1>1, <1>2, <2>1 DEF Free, Sends, TypeOK
  <2>5. ~ Waits(d, p) /\ ~ Waits(d, ANY)
    BY <1>6 DEF SendBlock, Awaits, Waits
  <2> QED BY <2>1, <2>2, <2>3, <2>4, <2>5 DEF m
<1> QED BY <1>3, <1>4, <1>5, <1>6

\* A RECEIVE: an interrupt, a sender that waited, or the caller sleeps.
LEMMA ReceiveOutcome ==
    ASSUME IpcInv, NEW p \in Proc, NEW s \in Sources(p), Receive(p, s)
    PROVE  /\ Free(p)
           /\ \A q \in Proc \ {p} : has_int_msg'[q] = has_int_msg[q] /\ buf'[q] = buf[q]
           /\ \/ /\ has_int_msg[p] /\ ~ has_int_msg'[p] /\ halted' = halted
                 /\ buf'[p] = [source |-> INTERRUPT, type |-> HARD_INT]
                 /\ \A q \in Proc : Still(q)
              \/ /\ has_int_msg'[p] = has_int_msg[p] /\ halted' = halted
                 /\ \E e \in Proc \ {p} :
                       /\ Sends(e, p) /\ s \in {e, ANY}
                       /\ Free(e)' /\ buf'[p] = buf[e]
                       /\ \A q \in Proc \ {e} : Still(q)
              \/ /\ has_int_msg'[p] = has_int_msg[p]
                 /\ has_int_msg[p] \/ halted' = halted
                 /\ has_int_msg[p] => s \notin {ANY, INTERRUPT}
                 /\ \A e \in Proc : Sends(e, p) => s \notin {e, ANY}
                 /\ Waits(p, s)'
                 /\ \A q \in Proc \ {p} : Still(q)
<1>1. TypeOK /\ PcbConsistent /\ QueuesExact
  BY DEF IpcInv
<1>2. flags[p] = {}
  BY DEF Receive, Runnable
<1>3. s \in Proc \cup {ANY, INTERRUPT} /\ s # p
  BY IpcAssumption DEF Sources
<1>4. CASE ReceiveInterrupt(p, s)
  <2>1. \A q \in Proc : Still(q)
    BY <1>4, StillKept DEF ReceiveInterrupt
  <2>2. /\ has_int_msg[p] /\ ~ has_int_msg'[p] /\ halted' = halted
        /\ buf'[p] = [source |-> INTERRUPT, type |-> HARD_INT]
        /\ \A q \in Proc \ {p} : has_int_msg'[q] = has_int_msg[q] /\ buf'[q] = buf[q]
    BY <1>1, <1>4 DEF ReceiveInterrupt, IntReady, TypeOK
  <2> QED BY <1>2, <2>1, <2>2 DEF Free
<1>5. CASE ReceiveQueued(p, s)
  <2> DEFINE e == Chosen(p, s)
  <2>1. e \in Proc /\ SendingTo(e, p)
    BY <1>1, <1>5, ChosenSends DEF ReceiveQueued
  <2>2. /\ Wake(e, SENDING) /\ send_to' = [send_to EXCEPT ![e] = NO_TASK]
        /\ buf' = [buf EXCEPT ![p] = buf[e]]
        /\ UNCHANGED <<recv_from, has_int_msg, halted>>
    BY <1>5 DEF ReceiveQueued
  <2>3. s \in {e, ANY}
    BY DEF Chosen
  <2> HIDE DEF e
  <2>4. PICK from \in Proc : from = e
    BY <2>1
  <2>5. flags[from] = {SENDING} /\ send_to[from] = p
    BY <1>1, <2>1, <2>4, FlagValues DEF SendingTo, SENDING, RECEIVING
  <2>6. flags' = [flags EXCEPT ![from] = {}] /\ send_to' = [send_to EXCEPT ![from] = NO_TASK]
    BY <2>2, <2>4, <2>5 DEF Wake
  <2>7. \A q \in Proc \ {from} : Still(q)
    <3> TAKE q \in Proc \ {from}
    <3>1. flags'[q] = flags[q] /\ send_to'[q] = send_to[q] /\ recv_from'[q] = recv_from[q]
      BY <1>1, <2>2, <2>6 DEF TypeOK
    <3> QED BY <3>1, StillKept
  <2>8. /\ \A q \in Proc \ {p} : has_int_msg'[q] = has_int_msg[q] /\ buf'[q] = buf[q]
        /\ buf'[p] = buf[from] /\ has_int_msg'[p] = has_int_msg[p] /\ halted' = halted
    BY <1>1, <2>2, <2>4 DEF TypeOK
  <2>9. from # p
    BY <1>2, <2>5
  <2>10. Free(p) /\ Sends(from, p) /\ Free(from)'
    BY <1>1, <1>2, <2>5, <2>6 DEF Free, Sends, TypeOK
  <2>11. \E g \in Proc \ {p} : /\ Sends(g, p) /\ s \in {g, ANY}
                               /\ Free(g)' /\ buf'[p] = buf[g]
                               /\ \A q \in Proc \ {g} : Still(q)
    BY <2>3, <2>4, <2>7, <2>8, <2>9, <2>10
  <2> QED BY <2>8, <2>10, <2>11
<1>6. CASE ReceiveBlock(p, s)
  <2>1. /\ flags' = [flags EXCEPT ![p] = {RECEIVING}] /\ recv_from' = [recv_from EXCEPT ![p] = s]
        /\ UNCHANGED <<send_to, has_int_msg>>
    BY <1>1, <1>2, <1>6 DEF ReceiveBlock, Sleep, TypeOK
  <2>2. \A q \in Proc \ {p} : Still(q)
    <3> TAKE q \in Proc \ {p}
    <3>1. flags'[q] = flags[q] /\ send_to'[q] = send_to[q] /\ recv_from'[q] = recv_from[q]
      BY <1>1, <2>1 DEF TypeOK
    <3> QED BY <3>1, StillKept
  <2>3. \A q \in Proc \ {p} : buf'[q] = buf[q]
    BY <1>1, <1>6 DEF ReceiveBlock, TypeOK
  <2>4. has_int_msg[p] => s \notin {ANY, INTERRUPT}
    BY <1>6 DEF ReceiveBlock, IntReady
  <2>5. has_int_msg[p] \/ halted' = halted
    BY <1>6 DEF ReceiveBlock
  <2>6. Free(p) /\ Waits(p, s)'
    BY <1>1, <1>2, <2>1 DEF Free, Waits, TypeOK
  <2>7. \A e \in Proc : Sends(e, p) => s \notin {e, ANY}
    <3> SUFFICES ASSUME NEW e \in Proc, Sends(e, p), s \in {e, ANY} PROVE FALSE
      OBVIOUS
    <3>1. SendingTo(e, p)
      BY DEF SendingTo, Sends
    <3>2. e \in Range(q_sending[p])
      BY <1>1, <3>1 DEF QueuesExact
    <3>3. q_sending[p] # <<>>
      BY <3>2 DEF Range
    <3>4. SenderReady(p, s)
      BY <3>1, <3>3, IpcAssumption DEF SenderReady
    <3> QED BY <1>6, <3>4 DEF ReceiveBlock
  <2> QED BY <2>1, <2>2, <2>3, <2>4, <2>5, <2>6, <2>7
<1> QED BY <1>4, <1>5, <1>6 DEF Receive

\* An interrupt: its task goes on, or is left a message.
LEMMA InformOutcome ==
    ASSUME IpcInv, NEW p \in IntTask, InformInt(p)
    PROVE  /\ halted' = halted
           /\ \A q \in Proc \ {p} : Still(q) /\ buf'[q] = buf[q] /\ has_int_msg'[q] = has_int_msg[q]
           /\ \/ /\ \E s \in {INTERRUPT, ANY} : Waits(p, s)
                 /\ Free(p)' /\ buf'[p].source = INTERRUPT /\ ~ has_int_msg'[p]
              \/ /\ ~ Waits(p, INTERRUPT) /\ ~ Waits(p, ANY)
                 /\ Still(p) /\ buf'[p] = buf[p] /\ has_int_msg'[p]
<1>1. TypeOK /\ PcbConsistent
  BY DEF IpcInv
<1>2. p \in Proc
  BY IpcAssumption
<1>3. CASE InformDirect(p)
  <2>1. flags[p] = {RECEIVING} /\ recv_from[p] \in {INTERRUPT, ANY}
    BY <1>1, <1>2, <1>3, FlagValues DEF InformDirect, Awaits, SENDING, RECEIVING
  <2>2. flags' = [flags EXCEPT ![p] = {}] /\ recv_from' = [recv_from EXCEPT ![p] = NO_TASK]
        /\ UNCHANGED <<send_to, halted>>
    BY <1>3, <2>1 DEF InformDirect, Wake
  <2>3. \A q \in Proc \ {p} : Still(q)
    <3> TAKE q \in Proc \ {p}
    <3>1. flags'[q] = flags[q] /\ send_to'[q] = send_to[q] /\ recv_from'[q] = recv_from[q]
      BY <1>1, <2>2 DEF TypeOK
    <3> QED BY <3>1, StillKept
  <2>4. \A q \in Proc \ {p} : buf'[q] = buf[q] /\ has_int_msg'[q] = has_int_msg[q]
    BY <1>1, <1>2, <1>3 DEF InformDirect, TypeOK
  <2>5. buf'[p].source = INTERRUPT
    <3>1. buf[p] \in Message
      BY <1>1, <1>2 DEF TypeOK
    <3>2. buf'[p] = [buf[p] EXCEPT !.source = INTERRUPT, !.type = HARD_INT]
      BY <1>1, <1>2, <1>3 DEF InformDirect, TypeOK
    <3> QED BY <3>1, <3>2 DEF Message
  <2>6. Free(p)' /\ \E s \in {INTERRUPT, ANY} : Waits(p, s)
    BY <1>1, <1>2, <2>1, <2>2 DEF Free, Waits, TypeOK
  <2>7. ~ has_int_msg'[p]
    BY <1>1, <1>2, <1>3 DEF InformDirect, TypeOK
  <2> QED BY <2>2, <2>3, <2>4, <2>5, <2>6, <2>7
<1>4. CASE InformLater(p)
  <2>1. \A q \in Proc : Still(q) /\ buf'[q] = buf[q]
    BY <1>4, StillKept DEF InformLater
  <2>2. halted' = halted /\ \A q \in Proc \ {p} : has_int_msg'[q] = has_int_msg[q]
    BY <1>1, <1>4 DEF InformLater, TypeOK
  <2>3. has_int_msg'[p] /\ ~ Waits(p, INTERRUPT) /\ ~ Waits(p, ANY)
    BY <1>1, <1>2, <1>4 DEF InformLater, Awaits, Waits, TypeOK
  <2> QED BY <1>2, <2>1, <2>2, <2>3
<1> QED BY <1>3, <1>4 DEF InformInt

-----------------------------------------------------------------------------
(***************************************************************************)
(* The theorems.                                                           *)
(***************************************************************************)

\* The invariant holds in every reachable state of the kernel's IPC.
THEOREM Invariance == Spec => []IpcInv
  BY InitInv, NextInv, PTL DEF Spec

\* Type correctness of the process table.
THEOREM TypeCorrect == Spec => []TypeOK
<1>1. IpcInv => TypeOK
  BY DEF IpcInv
<1> QED BY <1>1, Invariance, PTL

\* Whatever processes call, the fields of every PCB agree: what the assertions
\* of msg_send and msg_receive test at the end of a call.
THEOREM PcbsAgree == Spec => []PcbConsistent
<1>1. IpcInv => PcbConsistent
  BY DEF IpcInv
<1> QED BY <1>1, Invariance, PTL

\* Every sending queue holds exactly the senders that wait in it, each once.
THEOREM QueuesHoldSenders == Spec => []QueuesExact
<1>1. IpcInv => QueuesExact
  BY DEF IpcInv
<1> QED BY <1>1, Invariance, PTL

\* deadlock() is complete: for any number of processes no set of them is ever
\* blocked sending to each other.
THEOREM DeadlockFree == Spec => []NoSendCycle
<1>1. IpcInv => NoSendCycle
  BY DEF IpcInv
<1> QED BY <1>1, Invariance, PTL

\* No wakeup is lost as long as interrupts do not cut into a system call: a
\* waiting sender and a receiver it suits never sleep side by side.
THEOREM NothingMissed == Spec => []NoMissedRendezvous
<1>1. IpcInv => NoMissedRendezvous
  BY DEF IpcInv
<1> QED BY <1>1, Invariance, PTL

\* Nor do a task that waits for an interrupt and a pending one.
THEOREM InterruptsTaken == Spec => []NoMissedInterrupt
<1>1. IpcInv => NoMissedInterrupt
  BY DEF IpcInv
<1> QED BY <1>1, Invariance, PTL

-----------------------------------------------------------------------------
(***************************************************************************)
(* The kernel's IPC implements Rendezvous, and what a process may rely on  *)
(* when a blocking call returns.                                           *)
(***************************************************************************)

\* The names Rendezvous gives to the states of a PCB.
LEMMA AwakeIsRunnable ==
    ASSUME IpcInv, NEW p \in Proc, Runnable(p)
    PROVE  Promise!Awake(p)
<1>1. send_to[p] = NO_TASK /\ recv_from[p] = NO_TASK
  <2>1. send_to[p] # NO_TASK <=> SENDING \in flags[p]
    BY DEF IpcInv, PcbConsistent
  <2>2. recv_from[p] # NO_TASK <=> RECEIVING \in flags[p]
    BY DEF IpcInv, PcbConsistent
  <2> QED BY <2>1, <2>2 DEF Runnable
<1> QED BY <1>1 DEF Runnable, Promise!Awake

LEMMA FitsIsAwaits ==
    ASSUME IpcInv, NEW d \in Proc, NEW s \in Proc \cup {ANY, INTERRUPT}
    PROVE  recv_from[d] \in {s, ANY} <=> Awaits(d, s)
<1>1. recv_from[d] # NO_TASK <=> RECEIVING \in flags[d]
  BY DEF IpcInv, PcbConsistent
<1>2. s # NO_TASK /\ ANY # NO_TASK
  BY IpcAssumption
<1> QED BY <1>1, <1>2 DEF Awaits

LEMMA OfferIsSending ==
    ASSUME IpcInv, NEW s \in Proc, NEW d \in Proc
    PROVE  send_to[s] = d <=> SendingTo(s, d)
<1>1. send_to[s] # NO_TASK <=> SENDING \in flags[s]
  BY DEF IpcInv, PcbConsistent
<1>2. d # NO_TASK
  BY IpcAssumption
<1> QED BY <1>1, <1>2 DEF SendingTo

LEMMA SendPromised ==
    ASSUME IpcInv, NEW p \in Proc, NEW d \in Proc \ {p}, NEW t \in Type, Send(p, d, t)
    PROVE  Promise!Send(p, d, t)
<1> DEFINE m == [source |-> p, type |-> t]
<1>1. Promise!Awake(p)
  BY AwakeIsRunnable DEF Send
<1>2. Promise!Fits(p, d) <=> Awaits(d, p)
  BY FitsIsAwaits DEF Promise!Fits
<1>3. CASE SendDeadlock(p, d, m)
  BY <1>1, <1>3 DEF SendDeadlock, Halt, Promise!Send
<1>4. CASE SendDirect(p, d, m)
  BY <1>1, <1>2, <1>4 DEF SendDirect, Promise!Send
<1>5. CASE SendBlock(p, d, m)
  BY <1>1, <1>2, <1>5 DEF SendBlock, Promise!Send
<1> QED BY <1>3, <1>4, <1>5 DEF Send

LEMMA ReceivePromised ==
    ASSUME IpcInv, NEW p \in Proc, NEW s \in Sources(p), Receive(p, s)
    PROVE  Promise!Receive(p, s)
<1>1. Promise!Awake(p)
  BY AwakeIsRunnable DEF Receive
<1>2. CASE ReceiveInterrupt(p, s)
  BY <1>1, <1>2 DEF ReceiveInterrupt, IntReady, Promise!Receive, Promise!TakeInterrupt
<1>3. CASE ReceiveQueued(p, s)
  <2> DEFINE from == Chosen(p, s)
  <2>1. from \in Proc /\ SendingTo(from, p) /\ s \in {from, ANY}
    BY <1>3, ChosenSends DEF IpcInv, ReceiveQueued, Chosen
  <2>2. /\ buf' = [buf EXCEPT ![p] = buf[from]]
        /\ send_to' = [send_to EXCEPT ![from] = NO_TASK]
        /\ UNCHANGED <<recv_from, has_int_msg, halted>>
    BY <1>3 DEF ReceiveQueued
  <2> HIDE DEF from
  <2>3. send_to[from] = p
    BY <2>1 DEF SendingTo
  <2>4. Promise!TakeOffer(p, from)
    BY <2>2, <2>3 DEF Promise!TakeOffer
  <2> QED BY <1>1, <1>3, <2>1, <2>4 DEF ReceiveQueued, IntReady, Promise!Receive
<1>4. CASE ReceiveBlock(p, s)
  <2>1. \A r \in Proc : s \in {r, ANY} => send_to[r] # p
    <3> SUFFICES ASSUME NEW r \in Proc, s \in {r, ANY}, send_to[r] = p PROVE FALSE
      OBVIOUS
    <3>1. SendingTo(r, p)
      BY OfferIsSending
    <3>2. CASE s = ANY
      <4>1. r \in Range(q_sending[p])
        BY <3>1 DEF IpcInv, QueuesExact
      <4>2. q_sending[p] = <<>>
        BY <1>4, <3>2 DEF ReceiveBlock, SenderReady
      <4> QED BY <4>1, <4>2 DEF Range
    <3>3. CASE s # ANY
      BY <1>4, <3>1, <3>3 DEF ReceiveBlock, SenderReady
    <3> QED BY <3>2, <3>3
  <2>2. Promise!Ask(p, s)
    BY <1>4, <2>1 DEF ReceiveBlock, Promise!Ask
  <2> QED BY <1>1, <1>4, <2>2 DEF ReceiveBlock, IntReady, Promise!Receive
<1> QED BY <1>2, <1>3, <1>4 DEF Receive

LEMMA InformPromised ==
    ASSUME IpcInv, NEW p \in IntTask, InformInt(p)
    PROVE  Promise!Inform(p)
<1>1. p \in Proc /\ (recv_from[p] \in {INTERRUPT, ANY} <=> Awaits(p, INTERRUPT))
  BY IpcAssumption, FitsIsAwaits
<1>2. CASE InformDirect(p)
  BY <1>1, <1>2 DEF InformInt, InformDirect, Promise!Inform
<1>3. CASE InformLater(p)
  BY <1>1, <1>3 DEF InformInt, InformLater, Promise!Inform
<1> QED BY <1>2, <1>3 DEF InformInt

\* The kernel implements the promise of Rendezvous for every set of processes.
THEOREM Refinement == Spec => KeepsPromise
<1>1. Init => Promise!Init
  BY DEF Init, Promise!Init
<1>2. IpcInv /\ [Next]_vars => [Promise!Next]_(Promise!vars)
  <2> SUFFICES ASSUME IpcInv, [Next]_vars PROVE [Promise!Next]_(Promise!vars)
    OBVIOUS
  <2>1. ASSUME NEW p \in Proc, NEW d \in Proc \ {p}, NEW t \in Type, Send(p, d, t)
        PROVE  Promise!Next
    BY <2>1, SendPromised DEF Promise!Next
  <2>2. ASSUME NEW p \in Proc, NEW s \in Sources(p), Receive(p, s) PROVE Promise!Next
    <3>1. s \in (Proc \ {p}) \cup {ANY, INTERRUPT}
      BY DEF Sources
    <3> QED BY <2>2, <3>1, ReceivePromised DEF Promise!Next
  <2>3. ASSUME NEW p \in IntTask, InformInt(p) PROVE Promise!Next
    BY <2>3, InformPromised DEF Promise!Next
  <2>4. CASE UNCHANGED vars
    BY <2>4 DEF vars, Promise!vars
  <2> QED BY <2>1, <2>2, <2>3, <2>4 DEF Next
<1> QED BY <1>1, <1>2, Invariance, PTL DEF Spec, KeepsPromise, Promise!Spec

-----------------------------------------------------------------------------
\* A SEND that blocked returns only when its message has arrived.
THEOREM SendersDelivered == Spec => SenderResumesDelivered
<1> DEFINE A == \A p \in Proc :
                  (SENDING \in flags[p] /\ SENDING \notin flags'[p]) =>
                      LET d == send_to[p] IN buf'[d] = buf[p] /\ flags'[d] = {}
<1>1. IpcInv /\ [Next]_vars => [A]_vars
  <2> SUFFICES ASSUME IpcInv, Next, NEW q \in Proc,
                      SENDING \in flags[q], SENDING \notin flags'[q]
               PROVE  buf'[send_to[q]] = buf[q] /\ flags'[send_to[q]] = {}
    OBVIOUS
  <2> USE DEF SENDING, RECEIVING
  <2>0. TypeOK
    BY DEF IpcInv
  <2>1. ASSUME NEW p \in Proc, NEW d \in Proc \ {p}, NEW t \in Type, Send(p, d, t) PROVE FALSE
    <3> DEFINE m == [source |-> p, type |-> t]
    <3>1. CASE SendDeadlock(p, d, m)
      BY <3>1 DEF SendDeadlock, Halt
    <3>2. CASE SendDirect(p, d, m)
      BY <2>0, <3>2 DEF SendDirect, Wake, TypeOK
    <3>3. CASE SendBlock(p, d, m)
      BY <2>0, <3>3 DEF SendBlock, Sleep, TypeOK
    <3> QED BY <2>1, <3>1, <3>2, <3>3 DEF Send
  <2>2. ASSUME NEW p \in Proc, NEW s \in Sources(p), Receive(p, s)
        PROVE  buf'[send_to[q]] = buf[q] /\ flags'[send_to[q]] = {}
    <3>1. CASE ReceiveQueued(p, s)
      <4> DEFINE from == Chosen(p, s)
      <4>1. /\ buf' = [buf EXCEPT ![p] = buf[from]]
            /\ flags' = [flags EXCEPT ![from] = @ \ {SENDING}]
            /\ send_to' = [send_to EXCEPT ![from] = NO_TASK]
        BY <3>1 DEF ReceiveQueued, Wake
      <4> HIDE DEF from
      <4>2. q = from
        BY <2>0, <4>1 DEF TypeOK
      <4>3. send_to[from] = p
        BY <3>1, ChosenSends DEF IpcInv, ReceiveQueued, SendingTo, from
      <4>4. send_to[q] = p
        BY <4>2, <4>3
      <4>5. flags[p] = {} /\ p # q
        BY <2>2 DEF Receive, Runnable
      <4> QED BY <2>0, <4>1, <4>2, <4>4, <4>5 DEF TypeOK
    <3>2. CASE ReceiveInterrupt(p, s)
      BY <3>2 DEF ReceiveInterrupt
    <3>3. CASE ReceiveBlock(p, s)
      BY <2>0, <3>3 DEF ReceiveBlock, Sleep, TypeOK
    <3> QED BY <2>2, <3>1, <3>2, <3>3 DEF Receive
  <2>3. ASSUME NEW p \in IntTask, InformInt(p) PROVE FALSE
    <3>1. CASE InformDirect(p)
      <4>1. flags' = [flags EXCEPT ![p] = @ \ {RECEIVING}]
        BY <3>1 DEF InformDirect, Wake
      <4> QED BY <2>0, <4>1 DEF TypeOK
    <3>2. CASE InformLater(p)
      <4>1. flags' = flags
        BY <3>2 DEF InformLater
      <4> QED BY <4>1
    <3> QED BY <2>3, <3>1, <3>2 DEF InformInt
  <2> QED BY <2>1, <2>2, <2>3 DEF Next
<1> QED BY <1>1, Invariance, PTL DEF Spec, SenderResumesDelivered

\* A RECEIVE that blocked returns only with a message of somebody it had asked
\* for, who runs.
THEOREM ReceiversAsked == Spec => ReceiverResumesAsked
<1> DEFINE A == \A p \in Proc :
                  (RECEIVING \in flags[p] /\ RECEIVING \notin flags'[p]) =>
                      LET s == buf'[p].source IN
                          /\ recv_from[p] \in {s, ANY}
                          /\ s \in Proc => s # p /\ flags[s] = {} /\ flags'[s] = {}
<1>1. IpcInv /\ [Next]_vars => [A]_vars
  <2> SUFFICES ASSUME IpcInv, Next, NEW q \in Proc,
                      RECEIVING \in flags[q], RECEIVING \notin flags'[q]
               PROVE  LET s == buf'[q].source IN
                          /\ recv_from[q] \in {s, ANY}
                          /\ s \in Proc => s # q /\ flags[s] = {} /\ flags'[s] = {}
    OBVIOUS
  <2> USE DEF SENDING, RECEIVING
  <2>0. TypeOK
    BY DEF IpcInv
  <2>1. ASSUME NEW p \in Proc, NEW d \in Proc \ {p}, NEW t \in Type, Send(p, d, t)
        PROVE  /\ recv_from[q] \in {buf'[q].source, ANY}
               /\ buf'[q].source # q
               /\ flags[buf'[q].source] = {} /\ flags'[buf'[q].source] = {}
    <3> DEFINE m == [source |-> p, type |-> t]
    <3>1. CASE SendDeadlock(p, d, m)
      BY <3>1 DEF SendDeadlock, Halt
    <3>2. CASE SendDirect(p, d, m)
      <4>1. /\ flags' = [flags EXCEPT ![d] = @ \ {RECEIVING}]
            /\ buf' = [buf EXCEPT ![p] = m, ![d] = m]
            /\ recv_from[d] \in {p, ANY}
        BY <3>2 DEF SendDirect, Wake, Awaits
      <4>2. q = d
        BY <2>0, <4>1 DEF TypeOK
      <4>3. buf'[d] = m
        BY <2>0, <4>1 DEF TypeOK
      <4>4. buf'[q].source = p
        BY <4>2, <4>3
      <4>5. flags[p] = {} /\ flags'[p] = {}
        BY <2>0, <2>1, <4>1 DEF Send, Runnable, TypeOK
      <4> QED BY <4>1, <4>2, <4>4, <4>5
    <3>3. CASE SendBlock(p, d, m)
      BY <2>0, <3>3 DEF SendBlock, Sleep, TypeOK
    <3> QED BY <2>1, <3>1, <3>2, <3>3 DEF Send
  <2>2. ASSUME NEW p \in Proc, NEW s \in Sources(p), Receive(p, s) PROVE FALSE
    <3>1. CASE ReceiveQueued(p, s)
      <4> DEFINE from == Chosen(p, s)
      <4>1. flags' = [flags EXCEPT ![from] = @ \ {SENDING}]
        BY <3>1 DEF ReceiveQueued, Wake
      <4> HIDE DEF from
      <4> QED BY <2>0, <4>1 DEF TypeOK
    <3>2. CASE ReceiveInterrupt(p, s)
      BY <3>2 DEF ReceiveInterrupt
    <3>3. CASE ReceiveBlock(p, s)
      BY <2>0, <3>3 DEF ReceiveBlock, Sleep, TypeOK
    <3> QED BY <2>2, <3>1, <3>2, <3>3 DEF Receive
  <2>3. ASSUME NEW p \in IntTask, InformInt(p)
        PROVE  recv_from[q] \in {buf'[q].source, ANY} /\ buf'[q].source \notin Proc
    <3>1. CASE InformDirect(p)
      <4>1. /\ flags' = [flags EXCEPT ![p] = @ \ {RECEIVING}]
            /\ buf' = [buf EXCEPT ![p].source = INTERRUPT, ![p].type = HARD_INT]
            /\ recv_from[p] \in {INTERRUPT, ANY}
        BY <3>1 DEF InformDirect, Wake, Awaits
      <4>2. q = p
        BY <2>0, <4>1 DEF TypeOK
      <4>3. buf[q] \in [source : Proc \cup {INTERRUPT}, type : Type \cup {HARD_INT}]
        BY <2>0 DEF TypeOK, Message
      <4>4. buf'[q].source = INTERRUPT
        BY <2>0, <4>1, <4>2, <4>3 DEF TypeOK
      <4> QED BY <4>1, <4>2, <4>4, IpcAssumption
    <3>2. CASE InformLater(p)
      BY <3>2 DEF InformLater
    <3> QED BY <2>3, <3>1, <3>2 DEF InformInt
  <2> QED BY <2>1, <2>2, <2>3 DEF Next
<1> QED BY <1>1, Invariance, PTL DEF Spec, ReceiverResumesAsked

-----------------------------------------------------------------------------
\* A member that leaves a queue does not change the order of the others.
LEMMA DequeueKeepsOrder ==
    ASSUME NEW S, NEW q \in Seq(S), NEW p \in Range(q), NEW a, NEW b,
           a # p, b # p, Before(q, a, b)
    PROVE  Before(Dequeue(q, p), a, b)
<1> DEFINE n == CHOOSE i \in DOMAIN q : q[i] = p
           r == RemoveAt(q, n)
<1>1. n \in DOMAIN q /\ q[n] = p
  BY DEF Range
<1>2. PICK i \in DOMAIN q, j \in DOMAIN q : i < j /\ q[i] = a /\ q[j] = b
  BY DEF Before
<1> HIDE DEF n
<1>3. /\ r \in Seq(S) /\ Len(r) = Len(q) - 1
      /\ \A k \in 1 .. Len(q) - 1 : r[k] = IF k < n THEN q[k] ELSE q[k + 1]
  BY <1>1, RemoveAtElements
<1> HIDE DEF r
<1> DEFINE at(k) == IF k < n THEN k ELSE k - 1
<1>4. ASSUME NEW k \in DOMAIN q, k # n
      PROVE  at(k) \in DOMAIN r /\ r[at(k)] = q[k]
  <2>1. DOMAIN q = 1 .. Len(q) /\ DOMAIN r = 1 .. Len(q) - 1 /\ n \in Int /\ Len(q) \in Nat
    BY <1>1, <1>3
  <2> QED BY <1>1, <1>3, <1>4, <2>1
<1>5. i # n /\ j # n
  BY <1>1, <1>2
<1>6. at(i) < at(j)
  <2>1. n \in Int /\ i \in Int /\ j \in Int
    BY <1>1
  <2> QED BY <1>2, <1>5, <2>1
<1>7. at(i) \in DOMAIN r /\ at(j) \in DOMAIN r /\ r[at(i)] = a /\ r[at(j)] = b
  BY <1>2, <1>4, <1>5
<1> HIDE DEF at
<1>8. Before(r, a, b)
  BY <1>6, <1>7 DEF Before
<1> QED BY <1>8 DEF Dequeue, r, n

\* A step leaves a queue as it is, or one sender joins its end, or one leaves.
LEMMA QueueSteps ==
    ASSUME IpcInv, Next, NEW d \in Proc
    PROVE  \/ q_sending'[d] = q_sending[d]
           \/ \E p \in Proc : q_sending'[d] = Append(q_sending[d], p)
           \/ \E p \in Range(q_sending[d]) : q_sending'[d] = Dequeue(q_sending[d], p)
<1>0. TypeOK /\ QueuesExact
  BY DEF IpcInv
<1> DEFINE P == \/ q_sending'[d] = q_sending[d]
                \/ \E p \in Proc : q_sending'[d] = Append(q_sending[d], p)
                \/ \E p \in Range(q_sending[d]) : q_sending'[d] = Dequeue(q_sending[d], p)
<1>1. ASSUME NEW p \in Proc, NEW e \in Proc \ {p}, NEW t \in Type, Send(p, e, t) PROVE P
  <2> DEFINE m == [source |-> p, type |-> t]
  <2>1. CASE SendDeadlock(p, e, m) \/ SendDirect(p, e, m)
    BY <2>1 DEF SendDeadlock, Halt, SendDirect
  <2>2. CASE SendBlock(p, e, m)
    BY <1>0, <2>2 DEF SendBlock, TypeOK
  <2> QED BY <1>1, <2>1, <2>2 DEF Send
<1>2. ASSUME NEW p \in Proc, NEW s \in Sources(p), Receive(p, s) PROVE P
  <2>1. CASE ReceiveInterrupt(p, s) \/ ReceiveBlock(p, s)
    BY <2>1 DEF ReceiveInterrupt, ReceiveBlock
  <2>2. CASE ReceiveQueued(p, s)
    <3> DEFINE from == Chosen(p, s)
    <3>1. q_sending' = [q_sending EXCEPT ![p] = Dequeue(q_sending[p], from)]
      BY <2>2 DEF ReceiveQueued
    <3>2. from \in Range(q_sending[p])
      BY <1>0, <2>2, ChosenSends DEF ReceiveQueued, QueuesExact
    <3> HIDE DEF from
    <3> QED BY <1>0, <3>1, <3>2 DEF TypeOK
  <2> QED BY <1>2, <2>1, <2>2 DEF Receive
<1>3. ASSUME NEW p \in IntTask, InformInt(p) PROVE P
  BY <1>3 DEF InformInt, InformDirect, InformLater
<1> QED BY <1>1, <1>2, <1>3 DEF Next

\* Nobody overtakes a sender that waits, in any queue of any length.
THEOREM FirstComeFirstServed == Spec => NoOvertaking
<1> DEFINE A == \A d, a, b \in Proc :
                  /\ a # b /\ SendingTo(a, d) /\ ~ Before(q_sending[d], b, a)
                  /\ SendingTo(a, d)' /\ SendingTo(b, d)'
                  => Before(q_sending'[d], a, b)
<1>1. IpcInv /\ IpcInv' /\ [Next]_vars => [A]_vars
  <2> SUFFICES ASSUME IpcInv, IpcInv', Next, NEW d \in Proc, NEW a \in Proc, NEW b \in Proc,
                      a # b, SendingTo(a, d), ~ Before(q_sending[d], b, a),
                      SendingTo(a, d)', SendingTo(b, d)'
               PROVE  Before(q_sending'[d], a, b)
    OBVIOUS
  <2> DEFINE q == q_sending[d]
  <2>1. q \in Seq(Proc) /\ a \in Range(q) /\ a \in Range(q_sending'[d]) /\ b \in Range(q_sending'[d])
    BY DEF IpcInv, TypeOK, QueuesExact
  <2> HIDE DEF q
  <2>2. ASSUME b \in Range(q) PROVE Before(q, a, b)
    <3>1. PICK i \in DOMAIN q, j \in DOMAIN q : q[i] = a /\ q[j] = b
      BY <2>1, <2>2 DEF Range
    <3>2. i \in Int /\ j \in Int /\ ~ (j < i) /\ i # j
      BY <2>1, <3>1 DEF Before, q
    <3>3. i < j
      BY <3>2
    <3> QED BY <3>1, <3>3 DEF Before
  <2>3. CASE q_sending'[d] = q
    BY <2>1, <2>2, <2>3
  <2>4. ASSUME NEW p \in Proc, q_sending'[d] = Append(q, p) PROVE Before(q_sending'[d], a, b)
    <3>1. /\ DOMAIN q = 1 .. Len(q) /\ Len(q) \in Nat
          /\ DOMAIN Append(q, p) = 1 .. Len(q) + 1
          /\ \A i \in 1 .. Len(q) : Append(q, p)[i] = q[i]
          /\ Append(q, p)[Len(q) + 1] = p
      BY <2>1
    <3>2. CASE b \in Range(q)
      <4>1. PICK i \in DOMAIN q, j \in DOMAIN q : i < j /\ q[i] = a /\ q[j] = b
        BY <2>2, <3>2 DEF Before
      <4>2. /\ i \in DOMAIN Append(q, p) /\ j \in DOMAIN Append(q, p)
            /\ Append(q, p)[i] = a /\ Append(q, p)[j] = b
        BY <3>1, <4>1
      <4> QED BY <2>4, <4>1, <4>2 DEF Before
    <3>3. CASE b \notin Range(q)
      <4>1. b = p
        BY <2>1, <2>4, <3>3, AppendMembers
      <4>2. PICK i \in DOMAIN q : q[i] = a
        BY <2>1 DEF Range
      <4>3. /\ i \in DOMAIN Append(q, p) /\ Len(q) + 1 \in DOMAIN Append(q, p) /\ i < Len(q) + 1
            /\ Append(q, p)[i] = a /\ Append(q, p)[Len(q) + 1] = b
        BY <3>1, <4>1, <4>2
      <4> QED BY <2>4, <4>3 DEF Before
    <3> QED BY <3>2, <3>3
  <2>5. ASSUME NEW p \in Range(q), q_sending'[d] = Dequeue(q, p) PROVE Before(q_sending'[d], a, b)
    <3>1. IsInjective(q)
      BY DEF IpcInv, QueuesExact, q
    <3>2. Range(Dequeue(q, p)) = Range(q) \ {p}
      BY <2>1, <3>1, DequeueMembers
    <3>3. a # p /\ b # p /\ b \in Range(q)
      BY <2>1, <2>5, <3>2
    <3> QED BY <2>1, <2>2, <2>5, <3>3, DequeueKeepsOrder
  <2> QED BY <2>3, <2>4, <2>5, QueueSteps DEF q
<1> QED BY <1>1, Invariance, PTL DEF Spec, NoOvertaking
=============================================================================
