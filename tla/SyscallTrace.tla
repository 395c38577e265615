------------------------------ MODULE SyscallTrace ------------------------------
(***************************************************************************)
(* Module Kernel with a history variable that names the syscall the last   *)
(* step completed, for statements about what a syscall has achieved by the *)
(* time it returns.  A step that is not recorded sets it to NoCall.        *)
(***************************************************************************)
EXTENDS Kernel

VARIABLE completed    \* the syscall that has just returned

traceVars == <<kernelVars, completed>>

NoCall == [call |-> "none", task |-> NOBODY, arg |-> NOBODY, ret |-> 0]

Returned(call, arg, ret) ==
    completed' = [call |-> call, task |-> cpu.task, arg |-> arg, ret |-> ret]

TraceInit == KernelInit /\ completed = NoCall

TraceNext ==
    \/ \E v \in Point : SysExit(v) /\ Returned("exit", NOBODY, 0)
    \/ \E v \in Point, target \in TaskId, ret \in {0, 1} :
          SysSend(target, ret, v) /\ Returned("send", target, ret)
    \/ KernelNext /\ completed' = NoCall

TraceSpec == TraceInit /\ [][TraceNext]_traceVars

--------------------------------------------------------------------------------
(* The syscalls that look a process up in TASK_REGISTRY, which "supports     *)
(* cross-process operations on the syscall path", find it: SYS_EXIT has      *)
(* marked its caller Terminated, so that the scheduler will skip it          *)
(* (handle_syscall), and SYS_SEND answers 1, "the target does not exist",    *)
(* only for a target that is not a live process of TASK_LIST.                *)
RegistryFindsProcesses ==
    /\ completed.call = "exit" => task_state[Pid(completed.task)] = "Terminated"
    /\ \A i \in Idx :
          completed = [completed EXCEPT !.call = "send", !.arg = Pid(i), !.ret = 1]
              => task_state[Pid(i)] # "Ready"
================================================================================
