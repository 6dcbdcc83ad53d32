---------------------------- MODULE MCIpcSteps ----------------------------
(* Small instances of IpcSteps: processes other than the tasks interrupt   *)
(* handlers inform differ in nothing but their names.                      *)
EXTENDS IpcStepsAtomic, TLC

MCSymmetry == Permutations(Proc \ IntTask)
=============================================================================
