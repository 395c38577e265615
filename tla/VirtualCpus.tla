------------------------------ MODULE VirtualCpus ------------------------------
(***************************************************************************)
(* What preemptive multitasking promises to the processes: every process  *)
(* has a CPU of its own.  A process's execution context changes only by   *)
(* the process's own steps while it is the one running, a suspended        *)
(* process resumes exactly where it stopped, and a process that has been   *)
(* killed never runs again.                                                *)
(*                                                                         *)
(* Module Scheduler implements this with one CPU, trap frames pushed on    *)
(* several stacks, TSS.RSP0 and a round-robin search; its refinement       *)
(* mapping reads the abstract contexts out of that memory.                 *)
(***************************************************************************)

CONSTANTS Proc,         \* the processes
          First,        \* the process that runs first
          Point,        \* points of the user programs
          Entry         \* the entry point of the program image

VARIABLES run,          \* the process that has the CPU
          at,           \* at[p]: whose context p would continue with, and where
          alive         \* alive[p]: p has not been killed

vcpuVars == <<run, at, alive>>

VcpuInit ==
    /\ run = First
    /\ at = [p \in Proc |-> <<p, Entry>>]
    /\ alive = [p \in Proc |-> TRUE]

(* The running process executes an instruction of its own. *)
Step(v) ==
    /\ alive[run]
    /\ at' = [at EXCEPT ![run] = <<run, v>>]
    /\ UNCHANGED <<run, alive>>

(* The CPU is given to a live process. *)
Dispatch(p) ==
    /\ alive[p]
    /\ run' = p
    /\ UNCHANGED <<at, alive>>

(* The running process is killed and a live one takes over at once. *)
Kill(p) ==
    /\ alive[run]
    /\ p # run
    /\ alive[p]
    /\ alive' = [alive EXCEPT ![run] = FALSE]
    /\ run' = p
    /\ UNCHANGED at

VcpuNext ==
    \/ \E v \in Point : Step(v)
    \/ \E p \in Proc : Dispatch(p)
    \/ \E p \in Proc : Kill(p)

VcpuSpec == VcpuInit /\ [][VcpuNext]_vcpuVars
================================================================================
