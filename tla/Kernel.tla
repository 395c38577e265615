--------------------------------- MODULE Kernel ---------------------------------
(***************************************************************************)
(* The syscall layer of kernel/src/syscall/mod.rs and the device handlers  *)
(* of kernel/src/interrupts.rs on top of module Scheduler, as kernel_main  *)
(* configures them: TASK_REGISTRY holds the asynchronous kernel tasks only *)
(* (the processes go into TASK_LIST, register_task is never called), and   *)
(* every kernel task completes the first time it is polled.                *)
(*                                                                         *)
(* A syscall runs with IF clear and is one action.  Its parameters are the *)
(* arguments, then the value `ret` it leaves in RAX, then the point `v`    *)
(* where the caller continues.  The processes are arbitrary clients: they  *)
(* make any syscall at any time.                                           *)
(*                                                                         *)
(* As in Scheduler, X_Word is definition X with a plausible bug.           *)
(***************************************************************************)
EXTENDS Scheduler

CONSTANTS Name,          \* service names
          MaxIrqs,       \* bound on the keyboard and serial interrupts
          BadBuffer      \* processes that may hand SYS_RECV an unmapped buffer

ASSUME KernelAssumption ==
    /\ MaxIrqs \in Nat
    /\ BadBuffer \subseteq MayFault

VARIABLES registry,      \* the keys of TASK_REGISTRY
          task_mailbox,  \* task_mailbox[t]: Task.mailbox of t is Some
          services,      \* SERVICE_REGISTRY
          init_mailbox,  \* INIT_MAILBOX, an Option: {} or {message}
          mailbox_held,  \* its lock is held by a context that never continues
          irqs,          \* history: keyboard and serial interrupts so far
          last_read,     \* history: the newest message SYS_RECV handed out
          registrar      \* history: who last registered each name

ipcVars == <<registry, task_mailbox, services, init_mailbox, mailbox_held,
             irqs, last_read, registrar>>
kernelVars == <<schedVars, ipcVars>>

--------------------------------------------------------------------------------
U64_MAX == -1                          \* all bits set: never a task id
NOT_FOUND == U64_MAX
NOBODY == -1
KEYBOARD == 2                          \* Message.label
SERIAL == 3
INIT_PID == 1                          \* Message.to of every device message

(* The k-th device message; its payload, the byte read from the port, is     *)
(* represented by its number.                                                *)
DeviceMessage == [to : {INIT_PID}, label : {KEYBOARD, SERIAL}, data : 1 .. MaxIrqs]

KernelTaskId == NumTasks + 1 .. NumTasks + NumKernelTasks

(* The tasks in TASK_REGISTRY at the end of kernel_main.                     *)
Registered == KernelTaskId

KernelInit ==
    /\ SchedInit
    /\ registry = Registered
    /\ task_mailbox = [t \in TaskId |-> FALSE]
    /\ services = [n \in Name |-> NOT_FOUND]
    /\ init_mailbox = {}
    /\ mailbox_held = FALSE
    /\ irqs = 0
    /\ last_read = 0
    /\ registrar = [n \in Name |-> NOBODY]

--------------------------------------------------------------------------------
(* poll_kernel_tasks as far as the syscalls can tell: a Ready task is polled *)
(* to completion and leaves TASK_REGISTRY.                                   *)
PollKernelTasks == registry' = {t \in registry : task_state[t] # "Ready"}

Timer ==
    /\ TimerIrq
    /\ PollKernelTasks
    /\ UNCHANGED <<task_mailbox, services, init_mailbox, mailbox_held, irqs,
                   last_read, registrar>>

(* A handler that cannot take the lock drops the byte; one that can          *)
(* overwrites a message nobody has read.                                     *)
Post_IfEmpty(label) ==
    IF mailbox_held \/ init_mailbox # {} THEN UNCHANGED init_mailbox
    ELSE init_mailbox' = {[to |-> INIT_PID, label |-> label, data |-> irqs + 1]}
Post(label) ==
    IF mailbox_held THEN UNCHANGED init_mailbox
    ELSE init_mailbox' = {[to |-> INIT_PID, label |-> label, data |-> irqs + 1]}

(* keyboard_handler_inner and serial_handler_inner.                          *)
DeviceHandler(label) ==
    /\ irqs < MaxIrqs
    /\ irqs' = irqs + 1
    /\ Post(label)
    /\ DeviceIrq
    /\ PollKernelTasks
    /\ UNCHANGED <<task_mailbox, services, mailbox_held, last_read, registrar>>

Keyboard == DeviceHandler(KEYBOARD)
Serial_WrongLabel == DeviceHandler(0)
Serial == DeviceHandler(SERIAL)

--------------------------------------------------------------------------------
(* SYS_EXIT (2): only a caller found in TASK_REGISTRY is marked.             *)
SysExit_PassesTurn(v) ==
    /\ ContinueAt(v)
    /\ current_idx' = (current_idx + 1) % NumTasks
    /\ UNCHANGED <<task_state, priority, kernel_rsp, current_id, ticks, rsp0,
                   stack, ipcVars>>
SysExit(v) ==
    /\ ContinueAt(v)
    /\ task_state' = IF current_id \in registry
                     THEN [task_state EXCEPT ![current_id] = "Terminated"]
                     ELSE task_state
    /\ UNCHANGED <<priority, kernel_rsp, current_idx, current_id, ticks, rsp0,
                   stack, ipcVars>>

(* SYS_SEND (10) with a readable message: fill the target's mailbox,         *)
(* overwriting what is there, and make a Blocked target Ready.               *)
SysSend(target, ret, v) ==
    /\ ContinueAt(v)
    /\ IF target \in registry
       THEN /\ ret = 0
            /\ task_mailbox' = [task_mailbox EXCEPT ![target] = TRUE]
            /\ task_state' = [task_state EXCEPT ![target] =
                                 IF @ = "Blocked" THEN "Ready" ELSE @]
       ELSE /\ ret = 1
            /\ UNCHANGED <<task_mailbox, task_state>>
    /\ UNCHANGED <<priority, kernel_rsp, current_idx, current_id, ticks, rsp0,
                   stack, registry, services, init_mailbox, mailbox_held, irqs,
                   last_read, registrar>>

(* ... with a pointer that is followed into an unmapped page: the fault      *)
(* comes before any lock is taken.                                           *)
SysSendFault ==
    /\ PageFault(UserStack)
    /\ UNCHANGED ipcVars

(* mailbox.take().                                                           *)
TakeMail_Peek == UNCHANGED init_mailbox
TakeMail == init_mailbox' = {}

(* SYS_RECV (11).                                                            *)
SysRecv(ret, v) ==
    /\ UserStep(v)
    /\ IF ~mailbox_held /\ init_mailbox # {}
       THEN /\ ret = 1
            /\ TakeMail
            /\ last_read' = (CHOOSE m \in init_mailbox : TRUE).data
       ELSE /\ ret = 0
            /\ UNCHANGED <<init_mailbox, last_read>>
    /\ UNCHANGED <<registry, task_mailbox, services, mailbox_held, irqs, registrar>>

(* ... when writing the message to the caller's buffer faults: the message   *)
(* has been taken and the guard of INIT_MAILBOX is never dropped.            *)
SysRecvFault ==
    /\ cpu.task \in BadBuffer
    /\ ~mailbox_held
    /\ init_mailbox # {}
    /\ PageFault(UserStack)
    /\ TakeMail
    /\ mailbox_held' = TRUE
    /\ UNCHANGED <<registry, task_mailbox, services, irqs, last_read, registrar>>

(* SYS_SET_PRIORITY (13).                                                    *)
SysSetPriority(p, ret, v) ==
    /\ ContinueAt(v)
    /\ IF current_id \in registry
       THEN /\ ret = 0
            /\ priority' = [priority EXCEPT ![current_id] = p]
       ELSE /\ ret = 1
            /\ UNCHANGED priority
    /\ UNCHANGED <<task_state, kernel_rsp, current_idx, current_id, ticks, rsp0,
                   stack, ipcVars>>

(* SYS_REG_SERVICE (14): the caller is whoever CURRENT_TASK_ID names.        *)
SysRegService(n, v) ==
    /\ UserStep(v)
    /\ services' = [services EXCEPT ![n] = current_id]
    /\ registrar' = [registrar EXCEPT ![n] = cpu.task]
    /\ UNCHANGED <<registry, task_mailbox, init_mailbox, mailbox_held, irqs, last_read>>

(* SYS_GET_SERVICE_PID (15).                                                 *)
SysGetServicePid(n, ret, v) ==
    /\ UserStep(v)
    /\ ret = services[n]
    /\ UNCHANGED ipcVars

(* SYS_PRINT (1) and SYS_SEND with a pointer below 0x2000_0000 return 0 and  *)
(* 2, an unknown number U64_MAX; none of them changes kernel state.          *)
SysNoEffect(ret, v) ==
    /\ UserStep(v)
    /\ ret \in {0, 2, U64_MAX}
    /\ UNCHANGED ipcVars

Syscall(v) ==
    \/ SysExit(v)
    \/ \E target \in TaskId, ret \in {0, 1} : SysSend(target, ret, v)
    \/ \E ret \in {0, 1} : SysRecv(ret, v)
    \/ SysYield(v) /\ UNCHANGED ipcVars
    \/ \E p \in {0, 1}, ret \in {0, 1} : SysSetPriority(p, ret, v)
    \/ \E n \in Name : SysRegService(n, v)
    \/ \E n \in Name, ret \in {U64_MAX, 0} \cup TaskId : SysGetServicePid(n, ret, v)
    \/ \E ret \in {0, 2, U64_MAX} : SysNoEffect(ret, v)

Fault ==
    \/ SysSendFault
    \/ SysRecvFault
    \/ GeneralProtection /\ UNCHANGED ipcVars
    \/ PageFault(TrapStack) /\ UNCHANGED ipcVars
    \/ (UnhandledException \/ HaltForever) /\ UNCHANGED ipcVars

KernelNext ==
    \/ (EnterUser \/ SysRet) /\ UNCHANGED ipcVars
    \/ \E v \in Point : Syscall(v)
    \/ Fault
    \/ Timer
    \/ Keyboard
    \/ Serial

KernelSpec == KernelInit /\ [][KernelNext]_kernelVars

--------------------------------------------------------------------------------
(* Type invariant of the syscall layer.                                      *)
KernelTypeOK ==
    /\ SchedTypeOK
    /\ registry \subseteq TaskId
    /\ task_mailbox \in [TaskId -> BOOLEAN]
    /\ services \in [Name -> {NOT_FOUND, 0} \cup TaskId]
    /\ init_mailbox \subseteq DeviceMessage
    /\ mailbox_held \in BOOLEAN
    /\ irqs \in 0 .. MaxIrqs
    /\ last_read \in 0 .. MaxIrqs
    /\ registrar \in [Name -> {NOBODY} \cup Idx]

(* A name never leads to a process other than the one that registered it:    *)
(* at worst SYS_REG_SERVICE has recorded the id 0.                           *)
ServicesNeverForeign ==
    \A n \in Name :
        IF registrar[n] = NOBODY THEN services[n] = NOT_FOUND
        ELSE services[n] \in {0, Pid(registrar[n])}

(* INIT_MAILBOX holds at most one message, and it is newer than everything   *)
(* SYS_RECV has handed out: no input is delivered twice or out of order.     *)
MailInOrder ==
    \A m \in init_mailbox : /\ last_read < m.data
                            /\ m.data <= irqs
                            /\ init_mailbox = {m}

(* Every device interrupt leaves its byte in INIT_MAILBOX (IPC.md: the       *)
(* handler "packs a Message and puts it into the Option").                   *)
EveryInputIsPosted ==
    [][irqs' > irqs => \E m \in init_mailbox' : m.data = irqs']_kernelVars

(* Every step of the whole kernel is a step of the scheduler or invisible to *)
(* it: no syscall, whatever a fault or an interrupt does in the middle of    *)
(* it, touches TSS.RSP0, CURRENT_TASK_IDX, a saved stack pointer or a        *)
(* suspended context, so what is proved of Scheduler holds of the kernel.    *)
(* The states and priorities of processes stay as they are too, against the  *)
(* comments in handle_syscall: SYS_EXIT should mark its caller "terminated,  *)
(* the scheduler skips it" and SYS_SET_PRIORITY should change the priority.  *)
(* Both look the caller up in TASK_REGISTRY, where no process is; that this  *)
(* is a defect is what RegistryFindsProcesses (SyscallTrace) shows.          *)
ImplementsScheduler == SchedSpec
================================================================================
