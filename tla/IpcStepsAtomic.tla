-------------------------- MODULE IpcStepsAtomic --------------------------
(***************************************************************************)
(* IpcSteps compared with Ipc.  Two history variables: entry is the state  *)
(* a system call found, in which Ipc is until the call returns, and struck *)
(* says whether an interrupt came in the middle of the call.               *)
(***************************************************************************)
EXTENDS IpcSteps

VARIABLES entry, struck

Now == [flags |-> flags, p_msg |-> p_msg, recv_from |-> recv_from, send_to |-> send_to,
        has_int_msg |-> has_int_msg, q |-> [p \in Proc |-> Chain(q_sending[p])],
        buf |-> buf, halted |-> halted]

AtomicInit == Init /\ entry = Now /\ struck = FALSE

AtomicNext ==
    /\ Next
    /\ IF call.pc = "user"
       THEN entry' = Now /\ struck' = FALSE
       ELSE entry' = entry /\ struck' = (struck \/ call' = call)

AtomicSpec == AtomicInit /\ [][AtomicNext]_<<vars, entry, struck>>

Seen == IF call.pc = "user" THEN Now ELSE entry

Whole == INSTANCE Ipc WITH
    flags <- Seen.flags, p_msg <- Seen.p_msg, recv_from <- Seen.recv_from,
    send_to <- Seen.send_to, has_int_msg <- Seen.has_int_msg, q_sending <- Seen.q,
    buf <- Seen.buf, halted <- Seen.halted

\* The statements of a system call in the middle of which no interrupt comes
\* add up to one step of Ipc, whatever interrupts did to earlier calls: the
\* pointer surgery on next_sending is the queue of Ipc.
CallsAreAtomic == [][~ struck' => Whole!Next]_Seen
=============================================================================
