------------------------------- MODULE Sched -------------------------------
(***************************************************************************)
(* The scheduler of bzOS: schedule() and block() in kernel/proc.c,         *)
(* clock_handler() in kernel/clock.c, and the entry to and return from the *)
(* kernel in kernel.asm (save, sys_call, restart) as far as they decide    *)
(* who runs.                                                               *)
(*                                                                         *)
(* schedule() runs with interrupts enabled, so each of its two loops is a  *)
(* step per entry of the process table, handlers running in between.  Who  *)
(* may block or be woken by a system call is the business of Ipc; here a   *)
(* call may wake any blocked process or block its caller.                  *)
(***************************************************************************)
EXTENDS Integers

CONSTANTS
    NProc,       \* the entries of proc_table are 1 .. NProc, in table order
    Priority,    \* Priority[p]: the ticks p gets at a refill
    TTY,         \* the task the clock handler may inform
    HD,          \* the task the disk handler may inform
    Debt         \* bound of the model: kernel ticks charged beyond a slice

Proc == 1 .. NProc

ASSUME SchedAssumption ==
    /\ NProc \in Nat \ {0}
    /\ Priority \in [Proc -> Nat \ {0}]
    /\ Debt \in Nat

\* kernel_main: the tasks, with the higher priority, come first in the table,
\* and fork copies the priority of a user process.
ASSUME TableOrder == \A q, r \in Proc : q <= r => Priority[q] >= Priority[r]

VARIABLES
    ticks,       \* ticks[p]: what is left of p's time slice
    blocked,     \* blocked[p]: flags of p are not 0
    p_proc_ready,\* the process that runs, or will when the kernel returns
    mode,        \* where the CPU is: "user"; "call", in a system call;
                 \* "clock" or "block", in the schedule() that clock_handler
                 \* or block called; "return", on the way out of a system call
    p,           \* schedule(): the entry to look at next
    greatest_ticks,  \* schedule(): the most ticks seen in this scan
    refilling,   \* schedule(): it is in the second loop, which refills
    struck       \* a clock tick has struck in this pass through the kernel

vars == <<ticks, blocked, p_proc_ready, mode, p, greatest_ticks, refilling, struck>>

TypeOK ==
    /\ ticks \in [Proc -> Int]
    /\ blocked \in [Proc -> BOOLEAN]
    /\ p_proc_ready \in Proc
    /\ mode \in {"user", "call", "clock", "block", "return"}
    /\ p \in 1 .. NProc + 1
    /\ greatest_ticks \in Nat
    /\ refilling \in BOOLEAN
    /\ struck \in BOOLEAN

\* kernel_main: everybody is runnable with a full slice; the first task starts.
Init ==
    /\ ticks = Priority
    /\ blocked = [q \in Proc |-> FALSE]
    /\ p_proc_ready = 1
    /\ mode = "user"
    /\ p = 1
    /\ greatest_ticks = 0
    /\ refilling = FALSE
    /\ struck = FALSE

-----------------------------------------------------------------------------
(***************************************************************************)
(* schedule().                                                             *)
(***************************************************************************)

Schedule(caller) == mode' = caller /\ p' = 1 /\ greatest_ticks' = 0

Scheduling == mode \in {"clock", "block"}

\* Mutant: a blocked process may be chosen.
BetterAnyone == ticks[p] > greatest_ticks

\* Entry p is runnable and has more ticks than those before it.
Better == ~ blocked[p] /\ ticks[p] > greatest_ticks

\* Mutant: the scan ends at the first runnable process with ticks.
ScanFirst ==
    /\ Scheduling /\ ~ refilling
    /\ p <= NProc
    /\ IF Better
         THEN greatest_ticks' = ticks[p] /\ p_proc_ready' = p /\ p' = NProc + 1
         ELSE UNCHANGED <<greatest_ticks, p_proc_ready>> /\ p' = p + 1
    /\ UNCHANGED <<ticks, blocked, mode, refilling, struck>>

Scan ==
    /\ Scheduling /\ ~ refilling
    /\ p <= NProc
    /\ IF Better
         THEN greatest_ticks' = ticks[p] /\ p_proc_ready' = p
         ELSE UNCHANGED <<greatest_ticks, p_proc_ready>>
    /\ p' = p + 1
    /\ UNCHANGED <<ticks, blocked, mode, refilling, struck>>

\* Mutant: the entries before the last one decide that a new round starts.
NewRoundEarly ==
    /\ Scheduling /\ ~ refilling
    /\ p >= NProc /\ greatest_ticks = 0
    /\ refilling' = TRUE
    /\ p' = 1
    /\ UNCHANGED <<ticks, blocked, p_proc_ready, mode, greatest_ticks, struck>>

\* The scan found nobody with ticks left: a new round.  With nobody runnable
\* the two loops alternate until an interrupt wakes a task.
NewRound ==
    /\ Scheduling /\ ~ refilling
    /\ p = NProc + 1 /\ greatest_ticks = 0
    /\ refilling' = TRUE
    /\ p' = 1
    /\ UNCHANGED <<ticks, blocked, p_proc_ready, mode, greatest_ticks, struck>>

\* Mutant: only the first runnable process gets a new slice.
RefillFirst ==
    /\ Scheduling /\ refilling
    /\ ticks' = IF blocked[p] \/ (\E r \in 1 .. p - 1 : ~ blocked[r])
                  THEN ticks ELSE [ticks EXCEPT ![p] = Priority[p]]
    /\ refilling' = (p < NProc)
    /\ p' = IF p < NProc THEN p + 1 ELSE 1
    /\ struck' = (struck /\ p < NProc)
    /\ UNCHANGED <<blocked, p_proc_ready, mode, greatest_ticks>>

\* Entry p gets a new slice if it is runnable; after the last one the scan
\* starts again.
Refill ==
    /\ Scheduling /\ refilling
    /\ ticks' = IF blocked[p] THEN ticks ELSE [ticks EXCEPT ![p] = Priority[p]]
    /\ refilling' = (p < NProc)
    /\ p' = IF p < NProc THEN p + 1 ELSE 1
    /\ struck' = (struck /\ p < NProc)
    /\ UNCHANGED <<blocked, p_proc_ready, mode, greatest_ticks>>

Found ==
    /\ Scheduling /\ ~ refilling
    /\ p = NProc + 1 /\ greatest_ticks > 0
    /\ mode' = IF mode = "block" THEN "return" ELSE "user"
    /\ p' = 1 /\ greatest_ticks' = 0
    /\ UNCHANGED <<ticks, blocked, p_proc_ready, refilling, struck>>

-----------------------------------------------------------------------------
(***************************************************************************)
(* Interrupts.  A handler wakes the task it informs if that one waits for  *)
(* an interrupt, which a blocked task may or may not do.                   *)
(***************************************************************************)

Wake(W) == [q \in Proc |-> blocked[q] /\ q \notin W]

Charged == [ticks EXCEPT ![p_proc_ready] = @ - 1]

\* The clock strikes while a process runs (k_reenter is 0 in the handler).
UserTick(W) ==
    /\ mode = "user"
    /\ ticks' = Charged
    /\ blocked' = Wake(W)
    /\ IF Charged[p_proc_ready] > 0
         THEN UNCHANGED <<mode, p, greatest_ticks>>
         ELSE Schedule("clock")
    /\ struck' = FALSE
    /\ UNCHANGED <<p_proc_ready, refilling>>

\* The clock strikes in a system call, or in the handler of another IRQ that
\* struck a running process: k_reenter is not 0 and nobody is preempted.  The
\* clock is masked while its own handler runs.  A pass through the kernel or
\* through the loop of schedule() is far shorter than a tick (10 ms), so one
\* pass is struck once at most.
KernelTick(W) ==
    /\ mode # "clock" /\ ~ struck
    /\ ticks[p_proc_ready] > - Debt
    /\ ticks' = Charged
    /\ blocked' = Wake(W)
    /\ struck' = TRUE
    /\ UNCHANGED <<p_proc_ready, mode, p, greatest_ticks, refilling>>

\* The disk's IRQ, at any time: it wakes its task but calls no schedule().
DiskInterrupt ==
    /\ HD \in Proc /\ blocked[HD]
    /\ blocked' = Wake({HD})
    /\ UNCHANGED <<ticks, p_proc_ready, mode, p, greatest_ticks, refilling, struck>>

(***************************************************************************)
(* System calls.                                                           *)
(***************************************************************************)

CallEnter ==
    /\ mode = "user"
    /\ mode' = "call"
    /\ struck' = FALSE
    /\ UNCHANGED <<ticks, blocked, p_proc_ready, p, greatest_ticks, refilling>>

\* The call ends with its caller running, perhaps with q's wait ended.
CallWakes(W) ==
    /\ mode = "call"
    /\ blocked' = Wake(W)
    /\ mode' = "return"
    /\ UNCHANGED <<ticks, p_proc_ready, p, greatest_ticks, refilling, struck>>

\* The call sets the caller's flags and calls block().
CallBlocks ==
    /\ mode = "call"
    /\ blocked' = [blocked EXCEPT ![p_proc_ready] = TRUE]
    /\ Schedule("block")
    /\ UNCHANGED <<ticks, p_proc_ready, refilling, struck>>

\* restart: the kernel is left to p_proc_ready.
Restart ==
    /\ mode = "return"
    /\ mode' = "user"
    /\ struck' = FALSE
    /\ UNCHANGED <<ticks, blocked, p_proc_ready, p, greatest_ticks, refilling>>

CallEnds == CallBlocks \/ \E W \in {{}} \cup {{q} : q \in Proc} : CallWakes(W)

Tick == \E W \in {{}, {TTY}} : UserTick(W)

Kernel == CallEnds \/ Restart \/ Scan \/ NewRound \/ Refill \/ Found

Next ==
    \/ Tick \/ (\E W \in {{}, {TTY}} : KernelTick(W)) \/ DiskInterrupt
    \/ CallEnter \/ Kernel

(***************************************************************************)
(* Fairness: kernel code runs on, and the clock, which runs on its own,    *)
(* keeps striking user mode as long as user mode is visited.  The code     *)
(* does not enforce the last: ticks that strike in the kernel preempt      *)
(* nobody (clock.c:37).                                                    *)
(***************************************************************************)
Fairness == WF_vars(Kernel) /\ SF_vars(Tick)

Spec == Init /\ [][Next]_vars /\ Fairness

-----------------------------------------------------------------------------
(***************************************************************************)
(* Properties.                                                             *)
(***************************************************************************)

\* The CPU is never given to a process that is blocked: nothing between the
\* scan of schedule() and restart blocks the one that was chosen, and one that
\* blocks is switched away from before the kernel returns (proc.c:105, 223).
RunsRunnable == ~ Scheduling => ~ blocked[p_proc_ready]

\* The CPU goes to a runnable process with the most ticks, whatever struck
\* while schedule() looked for it: it is wrong by the one tick that may be
\* charged to the process chosen so far, whose ticks are compared in a copy
\* (proc.c:30), and by that one the process chosen may have none.  The tasks
\* that handlers inform are excepted: an interrupt may wake one after the scan
\* has passed it.
GreatestChosen ==
    [][Scheduling /\ ~ Scheduling' =>
         /\ struck \/ ticks[p_proc_ready] > 0
         /\ \A r \in Proc : (~ blocked[r] /\ r \notin {TTY, HD}) =>
              ticks[r] <= ticks[p_proc_ready] + (IF struck THEN 1 ELSE 0)]_vars

\* A new slice is a new round: nobody gets more ticks while a runnable process
\* still has some, but those before it in the table, which have their new
\* slice already.  The tasks that handlers inform are excepted: one that an
\* interrupt wakes after the scan has passed it is not waited for (proc.c:38).
RoundsAreFair ==
    [][\A q, r \in Proc :
          (ticks'[q] > ticks[q] /\ ~ blocked[r] /\ r \notin {TTY, HD}) =>
              ticks[r] <= 0 \/ r < q]_vars

\* No starvation: whoever is runnable is given the CPU at some later time,
\* whatever the others do, sleeping and waking included (proc.c:25-46).  It
\* rests on TableOrder: clock_handler charges a tick that strikes the scan to
\* the process chosen so far (clock.c:24), and were a better one to follow in
\* the table, the clock could use up the slice of one that never ran.
NoStarvation == \A q \in Proc : ~ blocked[q] ~> (p_proc_ready = q /\ ~ Scheduling)
=============================================================================
