------------------------------- MODULE Scheduler -------------------------------
(***************************************************************************)
(* Preemptive scheduling of the user processes: kernel/src/interrupts.rs   *)
(* (trap wrappers, schedule_next, the timer and fault handlers), the TCB   *)
(* fields of kernel/src/task/mod.rs that it uses, TSS.RSP0 of              *)
(* kernel/src/gdt.rs and the last step of kernel_main.                     *)
(*                                                                         *)
(* The machine has one CPU.  Every IDT entry is an interrupt gate and      *)
(* SFMASK clears IF on SYSCALL, so a handler runs to its end without being *)
(* interrupted and is one action here.  Interrupts can arrive in user mode *)
(* and in the three places where the kernel runs with IF set: kernel_main  *)
(* after interrupts::enable(), the HLT of SYS_YIELD and the return path    *)
(* behind that HLT.                                                        *)
(*                                                                         *)
(* Memory is modelled where it matters: a trap pushes the interrupted      *)
(* context as a frame on the stack the hardware selects (TSS.RSP0 from     *)
(* ring 3, the current stack from ring 0), Task.kernel_rsp holds the       *)
(* address of a frame, and returning from a trap pops whatever lies there. *)
(*                                                                         *)
(* A definition X_Word is definition X with a plausible bug.  Nothing uses *)
(* it; putting it in the place of X shows which property depends on X.     *)
(***************************************************************************)
EXTENDS Integers, FiniteSetsExt

CONSTANTS NumTasks,        \* TASK_LIST.len(): the user processes
          NumKernelTasks,  \* asynchronous tasks handed to KERNEL_EXECUTOR
          Point,           \* points of the user program
          Entry,           \* entry point of the user program
          TickModulus,     \* width of TICK_COUNT (2^64 in the code)
          MayFault,        \* processes whose code may raise #GP or #PF
          MayCrash         \* ... an exception that has no IDT entry (#UD, #DE)

ASSUME SchedulerAssumption ==
    /\ NumTasks \in Nat \ {0}
    /\ NumKernelTasks \in Nat
    /\ Entry \in Point
    /\ TickModulus \in Nat \ {0}
    /\ MayFault \subseteq 0 .. NumTasks - 1
    /\ MayCrash \subseteq 0 .. NumTasks - 1

VARIABLES task_state,      \* Task.state, by task id
          priority,        \* Task.priority, by task id
          kernel_rsp,      \* Task.kernel_rsp, by index in TASK_LIST
          current_idx,     \* CURRENT_TASK_IDX
          current_id,      \* CURRENT_TASK_ID
          ticks,           \* TICK_COUNT
          rsp0,            \* the process whose kernel stack is in TSS.RSP0
          stack,           \* the newest frame pushed on each stack
          cpu              \* the context the CPU is executing

schedVars == <<task_state, priority, kernel_rsp, current_idx, current_id,
               ticks, rsp0, stack, cpu>>

--------------------------------------------------------------------------------
(* Indices into TASK_LIST, and the ids TaskId::new hands out: kernel_main    *)
(* creates the processes first, so index i has id i + 1 and the asynchronous *)
(* kernel tasks follow.  Id 0 is "no task".                                  *)
Idx == 0 .. NumTasks - 1
Pid(i) == i + 1
TaskId == 1 .. NumTasks + NumKernelTasks

TaskState == {"Ready", "Blocked", "Terminated"}

DEFAULT_PRIORITY == 5

(* Where the CPU is: in user code, halted in SYS_YIELD, on the way back from *)
(* that syscall, in kernel_main before its first iretq, in the endless loop  *)
(* of the panic handler, or nowhere sensible because an iretq popped         *)
(* something that is not an interrupt frame.                                 *)
Mode == {"user", "hlt", "sysret", "boot", "panic", "wild"}

Context == [task : Idx, mode : Mode, pc : Point]

(* A pushed context.  #GP and #PF push an error code that the wrappers never *)
(* remove, so popping a frame with err = TRUE is not a return.               *)
Frame == [task : Idx, mode : Mode, pc : Point, err : BOOLEAN]

(* Each process has a kernel stack and the user stack its syscalls run on;   *)
(* kernel_main has the boot stack, where process 0 is started from.          *)
Addr == {"kernel", "user", "boot"} \X Idx

(* create_user_process: the frame prepared on a new kernel stack.            *)
InitialFrame(i) == [task |-> i, mode |-> "user", pc |-> Entry, err |-> FALSE]

(* Stack memory nothing has been pushed on: not a frame one could return to. *)
Garbage(i) == [task |-> i, mode |-> "wild", pc |-> Entry, err |-> TRUE]

(* The frame handler_wrapper! builds from the interrupted context; the RIP   *)
(* saved at a HLT is that of the instruction behind it.                      *)
SavedFrame(err) ==
    [task |-> cpu.task,
     mode |-> IF cpu.mode = "hlt" THEN "sysret" ELSE cpu.mode,
     pc   |-> cpu.pc,
     err  |-> err]

UserStack == <<"user", cpu.task>>

(* The stack the hardware pushes on: RSP0 when coming from ring 3, the       *)
(* current one otherwise.                                                    *)
TrapStack ==
    CASE cpu.mode = "user" -> <<"kernel", rsp0>>
      [] cpu.mode = "boot" -> <<"boot", cpu.task>>
      [] OTHER             -> UserStack

(* The pops and the iretq at the end of handler_wrapper!.                    *)
Resume(f) ==
    [task |-> f.task, mode |-> IF f.err THEN "wild" ELSE f.mode, pc |-> f.pc]

--------------------------------------------------------------------------------
(* schedule_next: starting behind `old`, the first process that is Ready;    *)
(* when the search has gone round without finding one, next_idx is back at   *)
(* the process behind `old`.                                                 *)
NextIdx_NoSearch(st, old) == (old + 1) % NumTasks
NextIdx_FromZero(st, old) ==
    LET Runnable == {i \in Idx : st[Pid(i)] = "Ready"}
    IN  IF Runnable = {} THEN (old + 1) % NumTasks ELSE Min(Runnable)
NextIdx(st, old) ==
    LET Distance == {k \in 1 .. NumTasks :
                        st[Pid((old + k) % NumTasks)] = "Ready"}
    IN  IF Distance = {} THEN (old + 1) % NumTasks
                         ELSE (old + Min(Distance)) % NumTasks

(* gdt::set_interrupt_stack.                                                 *)
SetInterruptStack_Forgotten(i) == UNCHANGED rsp0
SetInterruptStack(i) == rsp0' = i

(* old_task.kernel_rsp.store(current_rsp).                                   *)
SaveContext_Forgotten(addr) == UNCHANGED kernel_rsp
SaveContext(addr) == kernel_rsp' = [kernel_rsp EXCEPT ![current_idx] = addr]

(* CURRENT_TASK_IDX.store, CURRENT_TASK_ID.store.                            *)
SetCurrent_NoRemainder(next) == current_idx' = current_idx + 1 /\ current_id' = Pid(next)
SetCurrent_OldId(next) == current_idx' = next /\ current_id' = Pid(current_idx)
SetCurrent_StaleIdx(next) == current_id' = Pid(next) /\ UNCHANGED current_idx
SetCurrent(next) == current_idx' = next /\ current_id' = Pid(next)

(* The inner half of schedule_next: hand the CPU over to `next`.             *)
SwitchTo(next, addr) ==
    /\ SetCurrent(next)
    /\ SaveContext(addr)
    /\ SetInterruptStack(next)
    /\ cpu' = Resume(stack'[kernel_rsp'[next]])

(* schedule_next(current_rsp, force_switch), entered with the task states    *)
(* `st`, the tick count `tk` and the CURRENT_TASK_ID `id` that the handler   *)
(* has left, after `frame` was pushed at `addr`.                             *)
ScheduleNext(st, tk, id, frame, addr, force) ==
    LET dead  == st[Pid(current_idx)] = "Terminated"
        slice == Max({priority[Pid(current_idx)], 1})
        next  == NextIdx(st, current_idx)
    IN  /\ task_state' = st
        /\ stack' = [stack EXCEPT ![addr] = frame]
        /\ IF /\ tk % slice = 0 \/ dead \/ force
              /\ next # current_idx \/ dead
           THEN SwitchTo(next, addr)
           ELSE /\ current_id' = id
                /\ cpu' = Resume(frame)
                /\ UNCHANGED <<current_idx, kernel_rsp, rsp0>>
        /\ UNCHANGED priority

--------------------------------------------------------------------------------
(* kernel_main up to interrupts::enable(): the processes exist, TSS.RSP0 and *)
(* CURRENT_TASK_ID are those of process 0, which has not been entered yet.   *)
SchedInit ==
    /\ task_state = [t \in TaskId |-> "Ready"]
    /\ priority = [t \in TaskId |-> DEFAULT_PRIORITY]
    /\ kernel_rsp = [i \in Idx |-> <<"kernel", i>>]
    /\ current_idx = 0
    /\ current_id = Pid(0)
    /\ ticks = 0
    /\ rsp0 = 0
    /\ stack = [a \in Addr |-> IF a[1] = "kernel" THEN InitialFrame(a[2])
                                                  ELSE Garbage(a[2])]
    /\ cpu = [task |-> 0, mode |-> "boot", pc |-> Entry]

(* The end of kernel_main: load process 0's kernel_rsp, pop its first frame  *)
(* and iretq into ring 3.                                                    *)
EnterUser ==
    /\ cpu.mode = "boot"
    /\ cpu' = Resume(stack[<<"kernel", cpu.task>>])
    /\ UNCHANGED <<task_state, priority, kernel_rsp, current_idx, current_id,
                   ticks, rsp0, stack>>

(* The running process goes on to `v`: by an instruction of its own, or      *)
(* because a syscall returns to it.                                          *)
ContinueAt(v) ==
    /\ cpu.mode = "user"
    /\ cpu' = [cpu EXCEPT !.pc = v]

UserStep(v) ==
    /\ ContinueAt(v)
    /\ UNCHANGED <<task_state, priority, kernel_rsp, current_idx, current_id,
                   ticks, rsp0, stack>>

(* SYS_YIELD: enable_and_hlt on the caller's user stack; `v` is the return   *)
(* address SYSCALL put in RCX.                                               *)
SysYield(v) ==
    /\ cpu.mode = "user"
    /\ cpu' = [cpu EXCEPT !.mode = "hlt", !.pc = v]
    /\ UNCHANGED <<task_state, priority, kernel_rsp, current_idx, current_id,
                   ticks, rsp0, stack>>

(* The rest of syscall_entry behind the HLT, with interrupts still enabled.  *)
SysRet ==
    /\ cpu.mode = "sysret"
    /\ cpu' = [cpu EXCEPT !.mode = "user"]
    /\ UNCHANGED <<task_state, priority, kernel_rsp, current_idx, current_id,
                   ticks, rsp0, stack>>

InterruptsEnabled == cpu.mode \notin {"wild", "panic"}

(* TICK_COUNT.fetch_add(1).                                                  *)
NextTick == (ticks + 1) % TickModulus

(* timer_handler_inner.  poll_kernel_tasks leaves CURRENT_TASK_ID at 0,      *)
(* whichever asynchronous tasks it ran.                                      *)
TimerIrq ==
    /\ InterruptsEnabled
    /\ ticks' = NextTick
    /\ ScheduleNext(task_state, ticks', 0, SavedFrame(FALSE), TrapStack, FALSE)

(* What keyboard_handler_inner and serial_handler_inner have in common: they *)
(* run the asynchronous tasks and return to the interrupted context.         *)
DeviceIrq ==
    /\ InterruptsEnabled
    /\ stack' = [stack EXCEPT ![TrapStack] = SavedFrame(FALSE)]
    /\ cpu' = Resume(SavedFrame(FALSE))
    /\ current_id' = 0
    /\ UNCHANGED <<task_state, priority, kernel_rsp, current_idx, ticks, rsp0>>

(* gpf_handler_inner and page_fault_handler_inner: kill the process at       *)
(* CURRENT_TASK_IDX and switch by force.                                     *)
KillCurrent(addr) ==
    /\ ScheduleNext([task_state EXCEPT ![Pid(current_idx)] = "Terminated"],
                    ticks, current_id, SavedFrame(TRUE), addr, TRUE)
    /\ UNCHANGED ticks

GeneralProtection ==
    /\ cpu.mode = "user"
    /\ cpu.task \in MayFault
    /\ KillCurrent(TrapStack)

(* A page fault of the program itself, or of a syscall that follows one of   *)
(* its pointers: the latter arrives in ring 0, on the user stack.            *)
PageFault(addr) ==
    /\ cpu.mode = "user"
    /\ cpu.task \in MayFault
    /\ KillCurrent(addr)

(* An exception whose IDT entry is not present, or the #NP that follows from *)
(* it, ends as a double fault; double_fault_handler panics, on a stack of    *)
(* its own (IST) and with IF clear.                                          *)
UnhandledException ==
    /\ cpu.mode = "user"
    /\ cpu.task \in MayCrash
    /\ cpu' = [cpu EXCEPT !.mode = "panic"]
    /\ UNCHANGED <<task_state, priority, kernel_rsp, current_idx, current_id,
                   ticks, rsp0, stack>>

(* The panic handler, when no debug device ends the machine: HLT for ever.   *)
HaltForever ==
    /\ cpu.mode = "panic"
    /\ UNCHANGED schedVars

SchedNext ==
    \/ EnterUser
    \/ \E v \in Point : UserStep(v) \/ SysYield(v)
    \/ SysRet
    \/ TimerIrq
    \/ DeviceIrq
    \/ GeneralProtection
    \/ PageFault(TrapStack)
    \/ PageFault(UserStack)
    \/ UnhandledException
    \/ HaltForever

SchedSpec == SchedInit /\ [][SchedNext]_schedVars

(* The interval timer keeps ticking: IRQ 0 is unmasked and always            *)
(* acknowledged.  Nothing is assumed of the processes or of the devices.     *)
SchedFairness == WF_schedVars(TimerIrq)

SchedFairSpec == SchedSpec /\ SchedFairness

--------------------------------------------------------------------------------
(* Type invariant: what the TCBs, the globals and the stacks can hold.       *)
SchedTypeOK ==
    /\ task_state \in [TaskId -> TaskState]
    /\ priority \in [TaskId -> Nat]
    /\ kernel_rsp \in [Idx -> Addr]
    /\ current_idx \in Idx
    /\ current_id \in {0} \cup TaskId
    /\ ticks \in 0 .. TickModulus - 1
    /\ rsp0 \in Idx
    /\ stack \in [Addr -> Frame]
    /\ cpu \in Context

(* A frame with an error code is never popped: the fault handlers kill the   *)
(* process and schedule_next never returns to the faulting context ("never   *)
(* return to the scene of the error", gpf_handler_inner).                    *)
NeverReturnsToFault == cpu.mode # "wild"

(* Whatever a process was doing when schedule_next took the CPU from it is   *)
(* still there: its kernel_rsp points at its own frame on one of its own     *)
(* stacks, and a process that will run again has a frame one can return to.  *)
SuspendedContextsIntact ==
    \A i \in Idx \ {current_idx} :
        LET frame == stack[kernel_rsp[i]]
        IN  /\ kernel_rsp[i][2] = i
            /\ frame.task = i
            /\ task_state[Pid(i)] = "Ready" => ~frame.err

(* CURRENT_TASK_ID, by which the syscalls identify their caller, is never    *)
(* the id of a process other than the one on the CPU.                        *)
IdentityNeverForeign == current_id \in {0, Pid(cpu.task)}

(* The scheduler gives every process a CPU of its own: the contexts read     *)
(* out of the CPU and of the stacks behave as module VirtualCpus says.       *)
ContextOf(i) ==
    IF i = current_idx THEN <<cpu.task, cpu.pc>>
    ELSE <<stack[kernel_rsp[i]].task, stack[kernel_rsp[i]].pc>>

Virtual == INSTANCE VirtualCpus WITH
    Proc <- Idx, First <- 0,
    run <- current_idx,
    at <- [i \in Idx |-> ContextOf(i)],
    alive <- [i \in Idx |-> task_state[Pid(i)] # "Terminated"]

ImplementsVirtualCpus == Virtual!VcpuSpec

(* How many more ticks process i can have to wait for the CPU: the rest of   *)
(* the running time slice, which also ends where the tick count wraps to 0,  *)
(* and a whole slice for every other process in between.                     *)
Turns(i) == (i + NumTasks - current_idx) % NumTasks
RestOfSlice == Min({DEFAULT_PRIORITY - (ticks % DEFAULT_PRIORITY), TickModulus - ticks})
TicksToWait(i) == DEFAULT_PRIORITY * (Turns(i) - 1) + RestOfSlice

(* Nobody is starved: while a process that may run is not on the CPU, every  *)
(* tick brings its turn closer and no fault, syscall or other interrupt puts *)
(* it off, so that it waits at most 5 * (NumTasks - 1) ticks, however the    *)
(* others behave.                                                            *)
TurnApproaches ==
    [][\A i \in Idx :
          task_state[Pid(i)] = "Ready" /\ i # current_idx /\ i # current_idx' =>
              /\ TicksToWait(i)' <= TicksToWait(i)
              /\ ticks' # ticks => TicksToWait(i)' < TicksToWait(i)]_schedVars

(* Under a ticking timer every process that has not been killed gets the CPU *)
(* again and again, whatever the others do; only the panic that follows an   *)
(* exception without an IDT entry ends this for all of them.                 *)
EveryLiveProcessRuns ==
    \A i \in Idx :
        []<>(cpu.task = i \/ task_state[Pid(i)] = "Terminated" \/ cpu.mode = "panic")
================================================================================
