------------------------------ MODULE MCSched ------------------------------
(* TTY and HD with three ticks each, and two user processes with two: the  *)
(* table of kernel_main, tasks first.                                      *)
EXTENDS Sched

MCPriority == <<3, 3, 2, 2>>
=============================================================================
