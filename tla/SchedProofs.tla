---------------------------- MODULE SchedProofs ----------------------------
(***************************************************************************)
(* Proofs about Sched for every process table and every priority.          *)
(***************************************************************************)
EXTENDS Sched, TLAPS

(***************************************************************************)
(* The inductive invariant.  ScanSeen is what a scan in progress knows:    *)
(* the process chosen so far can run and has the ticks noted, but for one  *)
(* the clock has charged it since, and of the entries before p nobody but  *)
(* a task an interrupt has woken has more.  RefillSeen is what is left of  *)
(* that knowledge while the slices are handed out.                         *)
(***************************************************************************)
Runs(r) == ~ blocked[r] /\ r \notin {TTY, HD}
Lost    == IF struck THEN 1 ELSE 0

ScanSeen ==
    Scheduling /\ ~ refilling =>
        /\ greatest_ticks > 0 =>
             ~ blocked[p_proc_ready] /\ ticks[p_proc_ready] >= greatest_ticks - Lost
        /\ \A r \in Proc : r < p /\ Runs(r) => ticks[r] <= greatest_ticks

RefillSeen ==
    refilling =>
        /\ Scheduling /\ p \in Proc /\ greatest_ticks = 0
        /\ \A r \in Proc : r >= p /\ Runs(r) => ticks[r] <= 0

SchedInv == TypeOK /\ RunsRunnable /\ ScanSeen /\ RefillSeen

\* What RoundsAreFair and GreatestChosen say of one step.
Round ==
    \A q, r \in Proc :
        (ticks'[q] > ticks[q] /\ ~ blocked[r] /\ r \notin {TTY, HD}) => ticks[r] <= 0 \/ r < q

Chosen ==
    Scheduling /\ ~ Scheduling' =>
        /\ struck \/ ticks[p_proc_ready] > 0
        /\ \A r \in Proc : (~ blocked[r] /\ r \notin {TTY, HD}) =>
              ticks[r] <= ticks[p_proc_ready] + (IF struck THEN 1 ELSE 0)

Steps == Round /\ Chosen

LEMMA Values ==
    ASSUME SchedInv
    PROVE  /\ ticks \in [Proc -> Int] /\ blocked \in [Proc -> BOOLEAN]
           /\ p_proc_ready \in Proc /\ p \in Int /\ greatest_ticks \in Nat
           /\ refilling \in BOOLEAN /\ struck \in BOOLEAN /\ Lost \in {0, 1}
           /\ \A q \in Proc : q \in Int /\ Priority[q] \in Nat /\ Priority[q] > 0
           /\ \A q \in Proc : ticks[q] \in Int /\ q <= NProc
           /\ NProc \in Int /\ NProc > 0 /\ 1 \in 1 .. NProc + 1 /\ 1 \in Proc
  BY SchedAssumption DEF SchedInv, TypeOK, Proc, Lost

LEMMA ChargedTicks ==
    ASSUME SchedInv
    PROVE  /\ Charged \in [Proc -> Int]
           /\ \A q \in Proc : Charged[q] <= ticks[q] /\ Charged[q] >= ticks[q] - 1
  BY Values DEF Charged

LEMMA WakeType ==
    ASSUME NEW W, blocked' = Wake(W)
    PROVE  /\ blocked' \in [Proc -> BOOLEAN]
           /\ \A q \in Proc : ~ blocked[q] => ~ blocked'[q]
           /\ \A q \in Proc : ~ blocked'[q] => ~ blocked[q] \/ q \in W
  BY DEF Wake

LEMMA SchedInit == Init => SchedInv
<1> SUFFICES ASSUME Init PROVE SchedInv
  OBVIOUS
<1>1. NProc \in Nat \ {0} /\ 1 \in Proc /\ \A q \in Proc : Priority[q] \in Nat
  BY SchedAssumption DEF Proc
<1>2. TypeOK
  <2>1. ticks \in [Proc -> Int]
    BY <1>1, SchedAssumption DEF Init
  <2>2. p \in 1 .. NProc + 1
    BY <1>1 DEF Init
  <2> QED BY <1>1, <2>1, <2>2 DEF Init, TypeOK
<1>3. RunsRunnable /\ ScanSeen /\ RefillSeen
  BY <1>1 DEF Init, RunsRunnable, ScanSeen, RefillSeen, Scheduling
<1> QED BY <1>2, <1>3 DEF SchedInv

-----------------------------------------------------------------------------
(***************************************************************************)
(* One lemma per kind of step.                                             *)
(***************************************************************************)

\* An interrupt handler charges a tick, the only one of this pass when
\* schedule() is running, or none, and wakes W.
LEMMA InterruptInv ==
    ASSUME SchedInv, NEW W, W \subseteq {TTY, HD} \/ ~ Scheduling, blocked' = Wake(W),
           \/ ticks' = ticks /\ struck' = struck
           \/ ticks' = Charged /\ struck' \in BOOLEAN
               /\ (Scheduling => struck = FALSE /\ struck' = TRUE),
           UNCHANGED <<p_proc_ready, mode, p, greatest_ticks, refilling>>
    PROVE  SchedInv' /\ Steps
<1>1. /\ ticks' \in [Proc -> Int] /\ struck' \in BOOLEAN
      /\ \A q \in Proc : ticks'[q] <= ticks[q]
  BY Values, ChargedTicks
<1>2. TypeOK'
  BY <1>1, WakeType DEF SchedInv, TypeOK
<1>3. RunsRunnable'
  BY WakeType, Values DEF SchedInv, RunsRunnable, Scheduling
<1>4. ScanSeen' /\ RefillSeen'
  <2>1. \A q \in Proc : Scheduling /\ Runs(q)' => Runs(q)
    BY WakeType DEF Runs
  <2>2. Scheduling => ticks'[p_proc_ready] - ticks[p_proc_ready] >= Lost - Lost'
    BY Values, ChargedTicks DEF Lost
  <2>3. ticks'[p_proc_ready] \in Int /\ Lost' \in {0, 1} /\ \A q \in Proc : ticks'[q] \in Int
    BY <1>1, Values DEF Lost
  <2>4. ScanSeen'
    <3> SUFFICES ASSUME Scheduling, ~ refilling PROVE ScanSeen'
      BY DEF ScanSeen, Scheduling
    <3>1. greatest_ticks > 0 =>
            ~ blocked'[p_proc_ready] /\ ticks'[p_proc_ready] >= greatest_ticks - Lost'
      BY <2>2, <2>3, WakeType, Values DEF SchedInv, ScanSeen
    <3>2. \A r \in Proc : r < p /\ Runs(r)' => ticks'[r] <= greatest_ticks
      BY <1>1, <2>1, <2>3, Values DEF SchedInv, ScanSeen
    <3> QED BY <3>1, <3>2 DEF ScanSeen
  <2>5. RefillSeen'
    BY <1>1, <2>1, <2>3, Values DEF SchedInv, RefillSeen, Scheduling
  <2> QED BY <2>4, <2>5
<1>5. Steps
  BY <1>1, Values DEF Steps, Round, Chosen, Scheduling
<1> QED BY <1>2, <1>3, <1>4, <1>5 DEF SchedInv

\* schedule() begins.
LEMMA ScheduleInv ==
    ASSUME SchedInv, ~ Scheduling, NEW caller \in {"clock", "block"}, Schedule(caller),
           ticks' \in [Proc -> Int], blocked' \in [Proc -> BOOLEAN], struck' \in BOOLEAN,
           \A q \in Proc : ticks'[q] <= ticks[q], UNCHANGED <<p_proc_ready, refilling>>
    PROVE  SchedInv' /\ Steps
<1>1. TypeOK'
  BY Values DEF SchedInv, TypeOK, Schedule
<1>2. RunsRunnable' /\ Scheduling'
  BY DEF RunsRunnable, Scheduling, Schedule
<1>3. ScanSeen' /\ RefillSeen'
  BY Values DEF SchedInv, ScanSeen, RefillSeen, Schedule, Proc
<1>4. Steps
  BY Values DEF Steps, Round, Chosen
<1> QED BY <1>1, <1>2, <1>3, <1>4 DEF SchedInv

LEMMA UserTickInv ==
    ASSUME SchedInv, NEW W, UserTick(W) PROVE SchedInv' /\ Steps
<1>1. /\ ticks' = Charged /\ ticks' \in [Proc -> Int] /\ blocked' = Wake(W)
      /\ \A q \in Proc : ticks'[q] <= ticks[q]
      /\ UNCHANGED <<p_proc_ready, refilling>> /\ struck' = FALSE /\ ~ Scheduling
  BY ChargedTicks DEF UserTick, Scheduling
<1>2. CASE UNCHANGED <<mode, p, greatest_ticks>>
  BY <1>1, <1>2, InterruptInv
<1>3. CASE Schedule("clock")
  BY <1>1, <1>3, WakeType, ScheduleInv
<1> QED BY <1>2, <1>3 DEF UserTick

LEMMA CallBlocksInv ==
    ASSUME SchedInv, CallBlocks PROVE SchedInv' /\ Steps
<1>1. /\ ~ Scheduling /\ Schedule("block") /\ UNCHANGED <<ticks, p_proc_ready, refilling, struck>>
      /\ blocked' \in [Proc -> BOOLEAN]
  BY Values DEF CallBlocks, Scheduling
<1> QED BY <1>1, Values, ScheduleInv

\* Entering and leaving the kernel: nobody is chosen, woken ones apart nothing
\* changes.
LEMMA CallInv ==
    ASSUME SchedInv, ~ Scheduling, ~ Scheduling',
           UNCHANGED <<ticks, p_proc_ready, p, greatest_ticks, refilling>>,
           mode' \in {"user", "call", "return"}, struck' \in BOOLEAN,
           blocked' = blocked \/ \E W \in SUBSET Proc : blocked' = Wake(W)
    PROVE  SchedInv' /\ Steps
<1>1. blocked' \in [Proc -> BOOLEAN] /\ \A q \in Proc : ~ blocked[q] => ~ blocked'[q]
  BY WakeType, Values
<1>2. TypeOK'
  BY <1>1 DEF SchedInv, TypeOK
<1>3. RunsRunnable' /\ ScanSeen' /\ RefillSeen'
  BY <1>1, Values DEF SchedInv, RunsRunnable, ScanSeen, RefillSeen
<1>4. Steps
  BY Values DEF Steps, Round, Chosen
<1> QED BY <1>2, <1>3, <1>4 DEF SchedInv

LEMMA ScanInv ==
    ASSUME SchedInv, Scan PROVE SchedInv' /\ Steps
<1>1. /\ p \in Proc /\ p' = p + 1 /\ UNCHANGED <<ticks, blocked, mode, refilling, struck>>
      /\ Scheduling /\ Scheduling' /\ refilling = FALSE
  BY DEF SchedInv, TypeOK, Scan, Proc, Scheduling
<1>2. TypeOK' /\ RunsRunnable' /\ RefillSeen'
  <2>1. greatest_ticks' \in Nat /\ p_proc_ready' \in Proc
    BY <1>1, Values DEF Scan, Better
  <2>2. p' \in 1 .. NProc + 1
    BY <1>1, Values DEF Proc
  <2> QED BY <1>1, <2>1, <2>2 DEF SchedInv, TypeOK, RunsRunnable, RefillSeen
<1>3. ScanSeen'
  <2>1. \A r \in Proc : r < p' => r < p \/ r = p
    BY <1>1, Values
  <2>2. Lost' = Lost /\ \A r \in Proc : Runs(r)' <=> Runs(r)
    BY <1>1 DEF Lost, Runs
  <2>3. CASE Better
    <3>1. greatest_ticks' = ticks[p] /\ p_proc_ready' = p /\ ~ blocked[p]
      BY <2>3 DEF Scan, Better
    <3>2. \A r \in Proc : r < p' /\ Runs(r) => ticks[r] <= ticks[p]
      BY <1>1, <2>1, <2>3, Values DEF Better, SchedInv, ScanSeen
    <3> QED BY <1>1, <2>2, <3>1, <3>2, Values DEF ScanSeen
  <2>4. CASE ~ Better
    <3>1. greatest_ticks' = greatest_ticks /\ p_proc_ready' = p_proc_ready
      BY <2>4 DEF Scan
    <3>2. Runs(p) => ticks[p] <= greatest_ticks
      BY <1>1, <2>4, Values DEF Better, Runs
    <3> QED BY <1>1, <2>1, <2>2, <3>1, <3>2 DEF SchedInv, ScanSeen
  <2> QED BY <2>3, <2>4
<1>4. Steps
  BY <1>1, Values DEF Steps, Round, Chosen
<1> QED BY <1>2, <1>3, <1>4 DEF SchedInv

LEMMA NewRoundInv ==
    ASSUME SchedInv, NewRound PROVE SchedInv' /\ Steps
<1>1. /\ p' = 1 /\ greatest_ticks = 0 /\ Scheduling /\ Scheduling' /\ refilling = FALSE
      /\ p = NProc + 1 /\ refilling' = TRUE
      /\ UNCHANGED <<ticks, blocked, p_proc_ready, mode, greatest_ticks, struck>>
  BY DEF NewRound, Scheduling
<1>2. TypeOK'
  BY <1>1, Values DEF SchedInv, TypeOK
<1>3. RunsRunnable' /\ ScanSeen'
  BY <1>1 DEF RunsRunnable, ScanSeen
<1>4. RefillSeen'
  <2>1. \A r \in Proc : r < p
    BY <1>1, Values
  <2>2. \A r \in Proc : Runs(r)' => Runs(r)
    BY <1>1 DEF Runs
  <2> QED BY <1>1, <2>1, <2>2, Values DEF SchedInv, ScanSeen, RefillSeen
<1>5. Steps
  BY <1>1, Values DEF Steps, Round, Chosen
<1> QED BY <1>2, <1>3, <1>4, <1>5 DEF SchedInv

LEMMA RefillInv ==
    ASSUME SchedInv, Refill PROVE SchedInv' /\ Steps
<1>1. /\ p \in Proc /\ greatest_ticks = 0 /\ Scheduling /\ Scheduling' /\ refilling
      /\ UNCHANGED <<blocked, p_proc_ready, mode, greatest_ticks>>
      /\ ticks' = IF blocked[p] THEN ticks ELSE [ticks EXCEPT ![p] = Priority[p]]
      /\ refilling' = (p < NProc) /\ p' = IF p < NProc THEN p + 1 ELSE 1
      /\ struck' \in BOOLEAN
  BY Values DEF Refill, SchedInv, RefillSeen, Scheduling
<1>2. ticks' \in [Proc -> Int] /\ \A q \in Proc : q # p => ticks'[q] = ticks[q]
  BY <1>1, Values
<1>3. TypeOK'
  <2>1. p' \in 1 .. NProc + 1 /\ refilling' \in BOOLEAN
    BY <1>1, Values DEF Proc
  <2> QED BY <1>1, <1>2, <2>1 DEF SchedInv, TypeOK
<1>4. RunsRunnable' /\ ScanSeen'
  <2>1. \A r \in Proc : r >= 1
    BY Values DEF Proc
  <2>2. CASE p < NProc
    BY <1>1, <2>2 DEF RunsRunnable, ScanSeen
  <2>3. CASE ~ p < NProc
    <3>1. p' = 1 /\ greatest_ticks' = 0
      BY <1>1, <2>3
    <3> QED BY <1>1, <2>1, <3>1, Values DEF RunsRunnable, ScanSeen
  <2> QED BY <2>2, <2>3
<1>5. RefillSeen'
  <2> SUFFICES ASSUME p < NProc PROVE RefillSeen'
    BY <1>1 DEF RefillSeen
  <2>1. p' = p + 1 /\ p' \in Proc
    BY <1>1, Values DEF Proc
  <2>2. \A r \in Proc : r >= p' => r >= p /\ r # p
    BY <1>1, <2>1, Values
  <2>3. \A r \in Proc : Runs(r)' => Runs(r)
    BY <1>1 DEF Runs
  <2> QED BY <1>1, <1>2, <2>1, <2>2, <2>3 DEF SchedInv, RefillSeen
<1>6. Steps
  <2>1. Round
    <3> SUFFICES ASSUME NEW q \in Proc, NEW r \in Proc, ticks'[q] > ticks[q], Runs(r), ~ r < q
                 PROVE  ticks[r] <= 0
      BY DEF Round, Runs
    <3>1. q = p
      BY <1>2, Values
    <3> QED BY <1>1, <3>1, Values DEF SchedInv, RefillSeen
  <2> QED BY <1>1, <2>1 DEF Steps, Chosen
<1> QED BY <1>3, <1>4, <1>5, <1>6 DEF SchedInv

LEMMA FoundInv ==
    ASSUME SchedInv, Found PROVE SchedInv' /\ Steps
<1>1. /\ p' = 1 /\ greatest_ticks' = 0 /\ ~ blocked[p_proc_ready] /\ mode' \in {"user", "return"}
      /\ UNCHANGED <<ticks, blocked, p_proc_ready, refilling, struck>> /\ refilling = FALSE
  BY Values DEF SchedInv, ScanSeen, Found
<1>2. TypeOK'
  BY <1>1, Values DEF SchedInv, TypeOK
<1>3. RunsRunnable' /\ ScanSeen' /\ RefillSeen'
  BY <1>1 DEF SchedInv, RunsRunnable, ScanSeen, RefillSeen, Scheduling
<1>4. Steps
  <2>1. /\ Scheduling /\ ~ refilling /\ greatest_ticks > 0
        /\ ticks[p_proc_ready] >= greatest_ticks - Lost
        /\ \A r \in Proc : r < p /\ Runs(r) => ticks[r] <= greatest_ticks
    BY DEF Found, SchedInv, ScanSeen
  <2>2. \A r \in Proc : r < p
    BY Values DEF Found
  <2>3. \A r \in Proc : Runs(r) => ticks[r] <= ticks[p_proc_ready] + Lost
    BY <2>1, <2>2, Values
  <2>4. struck \/ ticks[p_proc_ready] > 0
    BY <2>1, Values DEF Lost
  <2>5. Chosen
    BY <2>3, <2>4 DEF Chosen, Runs, Lost
  <2>6. Round
    BY <1>1, Values DEF Round
  <2> QED BY <2>5, <2>6 DEF Steps
<1> QED BY <1>2, <1>3, <1>4 DEF SchedInv

LEMMA SchedNext == SchedInv /\ [Next]_vars => SchedInv' /\ (Steps \/ UNCHANGED vars)
<1> SUFFICES ASSUME SchedInv, [Next]_vars PROVE SchedInv' /\ (Steps \/ UNCHANGED vars)
  OBVIOUS
<1>1. CASE Tick
  BY <1>1, UserTickInv DEF Tick
<1>2. ASSUME NEW W \in {{}, {TTY}}, KernelTick(W) PROVE SchedInv' /\ Steps
  <2>1. struck = FALSE /\ struck' = TRUE /\ ticks' = Charged /\ blocked' = Wake(W)
    BY <1>2, Values DEF KernelTick
  <2>2. W \subseteq {TTY, HD} /\ UNCHANGED <<p_proc_ready, mode, p, greatest_ticks, refilling>>
    BY <1>2 DEF KernelTick
  <2> QED BY <2>1, <2>2, InterruptInv
<1>3. CASE DiskInterrupt
  <2>1. struck' \in BOOLEAN
    BY <1>3 DEF DiskInterrupt, SchedInv, TypeOK
  <2> QED BY <1>3, <2>1, InterruptInv DEF DiskInterrupt
<1>4. CASE CallEnter
  BY <1>4, CallInv DEF CallEnter, Scheduling
<1>5. ASSUME NEW W \in {{}} \cup {{q} : q \in Proc}, CallWakes(W) PROVE SchedInv' /\ Steps
  <2>1. struck' \in BOOLEAN /\ W \in SUBSET Proc
    BY <1>5 DEF CallWakes, SchedInv, TypeOK
  <2> QED BY <1>5, <2>1, CallInv DEF CallWakes, Scheduling
<1>6. CASE CallBlocks
  BY <1>6, CallBlocksInv
<1>7. CASE Restart
  BY <1>7, CallInv DEF Restart, Scheduling
<1>8. CASE Scan
  BY <1>8, ScanInv
<1>9. CASE Refill
  BY <1>9, RefillInv
<1>10. CASE NewRound
  BY <1>10, NewRoundInv
<1>11. CASE Found
  BY <1>11, FoundInv
<1>12. CASE UNCHANGED vars
  BY <1>12 DEF vars, SchedInv, TypeOK, RunsRunnable, ScanSeen, RefillSeen, Runs, Lost, Scheduling
<1> QED BY <1>1, <1>2, <1>3, <1>4, <1>5, <1>6, <1>7, <1>8, <1>9, <1>10, <1>11, <1>12 DEF Next, Kernel, CallEnds

-----------------------------------------------------------------------------
\* SchedInv holds in every reachable state, of any table and any priorities.
THEOREM SchedInvariance == Spec => []SchedInv
  BY SchedInit, SchedNext, PTL DEF Spec

\* Type correctness of the scheduler.
THEOREM SchedTypes == Spec => []TypeOK
<1>1. SchedInv => TypeOK
  BY DEF SchedInv
<1> QED BY <1>1, SchedInvariance, PTL

\* The CPU is never given to a blocked process, wherever interrupts strike in
\* schedule() (proc.c:25-46).
THEOREM NeverRunsBlocked == Spec => []RunsRunnable
<1>1. SchedInv => RunsRunnable
  BY DEF SchedInv
<1> QED BY <1>1, SchedInvariance, PTL

\* Whoever schedule() gives the CPU has the most ticks of those that can run,
\* but for the one tick the clock may charge it while it scans, for any table,
\* any priorities and wherever interrupts strike (proc.c:25-36, clock.c:24).
THEOREM GreatestIsChosen == Spec => GreatestChosen
<1>1. SchedInv /\ [Next]_vars => [Chosen]_vars
  BY SchedNext DEF Steps
<1> QED BY <1>1, SchedInvariance, PTL DEF Spec, GreatestChosen, Chosen

\* Slices are handed out by rounds (proc.c:38-44): nobody starts a second one
\* while a runnable process, a task just woken apart, has ticks left.
THEOREM FairRounds == Spec => RoundsAreFair
<1>1. SchedInv /\ [Next]_vars => [Round]_vars
  BY SchedNext DEF Steps
<1> QED BY <1>1, SchedInvariance, PTL DEF Spec, RoundsAreFair, Round
=============================================================================
