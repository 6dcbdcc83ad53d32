----------------------------- MODULE Rendezvous -----------------------------
(***************************************************************************)
(* What message passing promises its users, without queues, PCBs or flags. *)
(* A process offers its message to one process, or asks for a message from *)
(* one process, from anybody or from an interrupt handler; it sleeps until *)
(* an offer meets a request.  Nothing is buffered, an offer and a request  *)
(* that fit never sleep side by side, and a pending interrupt is handed    *)
(* out before any offer.                                                   *)
(*                                                                         *)
(* Ipc implements it: q_sending refines "any process that offers" to the   *)
(* one that has waited longest, deadlock() refines "may halt".             *)
(***************************************************************************)
CONSTANTS Proc, IntTask, Type, ANY, INTERRUPT, NOBODY, HARD_INT

VARIABLES
    offer,     \* offer[p]: whom p, asleep, offers its message to, or NOBODY
    want,      \* want[p]: whose message p, asleep, asks for, or NOBODY
    message,   \* message[p]: the message p holds
    pending,   \* pending[p]: an interrupt p has not been told about
    halted

vars == <<offer, want, message, pending, halted>>

Awake(p) == halted = "no" /\ offer[p] = NOBODY /\ want[p] = NOBODY

Fits(p, d) == want[d] \in {p, ANY}

Init ==
    /\ offer = [p \in Proc |-> NOBODY]
    /\ want = [p \in Proc |-> NOBODY]
    /\ message \in [Proc -> [source : Proc, type : Type]]
    /\ pending = [p \in Proc |-> FALSE]
    /\ halted = "no"

\* p's message reaches d, which goes on; or p starts to offer it; or the
\* kernel refuses, which ends everything.
Send(p, d, t) ==
    LET m == [source |-> p, type |-> t] IN
    /\ Awake(p)
    /\ UNCHANGED pending
    /\ \/ /\ Fits(p, d)
          /\ message' = [message EXCEPT ![p] = m, ![d] = m]
          /\ want' = [want EXCEPT ![d] = NOBODY]
          /\ UNCHANGED <<offer, halted>>
       \/ /\ ~ Fits(p, d)
          /\ message' = [message EXCEPT ![p] = m]
          /\ offer' = [offer EXCEPT ![p] = d]
          /\ UNCHANGED <<want, halted>>
       \/ /\ message' = [message EXCEPT ![p] = m]
          /\ halted' = "deadlock"
          /\ UNCHANGED <<offer, want>>

\* p takes a pending interrupt; or the message some process offers it; or, as
\* there is neither, starts to ask.
TakeInterrupt(p) ==
    /\ pending[p]
    /\ pending' = [pending EXCEPT ![p] = FALSE]
    /\ message' = [message EXCEPT ![p] = [source |-> INTERRUPT, type |-> HARD_INT]]
    /\ UNCHANGED <<offer, want, halted>>

TakeOffer(p, s) ==
    /\ offer[s] = p
    /\ message' = [message EXCEPT ![p] = message[s]]
    /\ offer' = [offer EXCEPT ![s] = NOBODY]
    /\ UNCHANGED <<want, pending, halted>>

Ask(p, s) ==
    /\ \A r \in Proc : s \in {r, ANY} => offer[r] # p
    /\ want' = [want EXCEPT ![p] = s]
    /\ message' = [message EXCEPT ![p].source = p]
    /\ halted' = IF pending[p] THEN "assert" ELSE halted
    /\ UNCHANGED <<offer, pending>>

Receive(p, s) ==
    /\ Awake(p)
    /\ IF pending[p] /\ s \in {ANY, INTERRUPT}
         THEN TakeInterrupt(p)
         ELSE (\E r \in Proc : s \in {r, ANY} /\ TakeOffer(p, r)) \/ Ask(p, s)

\* An interrupt handler tells p: at once if p asks for it, else it is kept.
Inform(p) ==
    /\ halted = "no"
    /\ IF want[p] \in {INTERRUPT, ANY}
         THEN /\ message' = [message EXCEPT ![p].source = INTERRUPT, ![p].type = HARD_INT]
              /\ want' = [want EXCEPT ![p] = NOBODY]
              /\ pending' = [pending EXCEPT ![p] = FALSE]
         ELSE /\ pending' = [pending EXCEPT ![p] = TRUE]
              /\ UNCHANGED <<message, want>>
    /\ UNCHANGED <<offer, halted>>

Next ==
    \/ \E p \in Proc : \E d \in Proc \ {p}, t \in Type : Send(p, d, t)
    \/ \E p \in Proc : \E s \in (Proc \ {p}) \cup {ANY, INTERRUPT} : Receive(p, s)
    \/ \E p \in IntTask : Inform(p)

Spec == Init /\ [][Next]_vars
=============================================================================
