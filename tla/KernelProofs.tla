------------------------------ MODULE KernelProofs ------------------------------
(***************************************************************************)
(* Theorems about module Kernel, for any number of processes, kernel tasks *)
(* and service names.  The first one carries what SchedulerProofs shows of *)
(* the scheduler over to the kernel with all its syscalls; the others are  *)
(* about the mailbox and the service registry.                             *)
(***************************************************************************)
EXTENDS Kernel, SchedulerProofs

(* TASK_REGISTRY never names a process, CURRENT_TASK_ID never names a kernel *)
(* task once a handler has returned, and nobody is Blocked: that is why the  *)
(* syscalls that look tasks up in the registry leave the scheduler alone.    *)
RegistryApart ==
    /\ SchedTypeOK
    /\ registry \subseteq KernelTaskId
    /\ current_id \in 0 .. NumTasks
    /\ \A t \in TaskId : task_state[t] # "Blocked"

(* The state changes the scheduler itself makes keep CURRENT_TASK_ID among   *)
(* the processes and nobody Blocked.                                         *)
LEMMA SchedulerKeepsIds ==
    ASSUME SchedTypeOK, SchedTypeOK', SchedNext,
           current_id \in 0 .. NumTasks, \A t \in TaskId : task_state[t] # "Blocked"
    PROVE  current_id' \in 0 .. NumTasks /\ \A t \in TaskId : task_state'[t] # "Blocked"
<1>1. ASSUME NEW st \in [TaskId -> TaskState], NEW tk, NEW id \in 0 .. NumTasks,
             NEW frame, NEW addr, NEW force,
             \A t \in TaskId : st[t] # "Blocked",
             ScheduleNext(st, tk, id, frame, addr, force)
      PROVE  current_id' \in 0 .. NumTasks /\ \A t \in TaskId : task_state'[t] # "Blocked"
  <2>1. \A i \in Idx : Pid(i) \in 0 .. NumTasks
    BY SchedulerAssumption DEF Idx, Pid
  <2>2. NextIdx(st, current_idx) \in Idx
    BY NextIdxRunnable DEF SchedTypeOK
  <2>. QED
    BY <1>1, <2>1, <2>2 DEF ScheduleNext, SwitchTo, SetCurrent
<1>2. CASE \/ EnterUser \/ SysRet \/ UnhandledException \/ HaltForever
           \/ \E v \in Point : UserStep(v) \/ SysYield(v)
  BY <1>2 DEF EnterUser, SysRet, UnhandledException, HaltForever, schedVars, UserStep,
              SysYield
<1>3. CASE TimerIrq
  <2>1. 0 \in 0 .. NumTasks /\ task_state \in [TaskId -> TaskState]
    BY SchedulerAssumption DEF SchedTypeOK
  <2>2. ScheduleNext(task_state, ticks', 0, SavedFrame(FALSE), TrapStack, FALSE)
    BY <1>3 DEF TimerIrq
  <2>. QED
    BY <1>1, <2>1, <2>2
<1>4. CASE DeviceIrq
  BY <1>4, SchedulerAssumption DEF DeviceIrq
<1>5. ASSUME NEW addr, KillCurrent(addr)
      PROVE  current_id' \in 0 .. NumTasks /\ \A t \in TaskId : task_state'[t] # "Blocked"
  <2>. DEFINE st == [task_state EXCEPT ![Pid(current_idx)] = "Terminated"]
  <2>1. st \in [TaskId -> TaskState] /\ \A t \in TaskId : st[t] # "Blocked"
    BY DEF SchedTypeOK, TaskState
  <2>. HIDE DEF st
  <2>. QED
    BY <1>1, <1>5, <2>1 DEF KillCurrent, st
<1>6. CASE GeneralProtection \/ PageFault(TrapStack) \/ PageFault(UserStack)
  BY <1>5, <1>6 DEF GeneralProtection, PageFault
<1>. QED
  BY <1>2, <1>3, <1>4, <1>6 DEF SchedNext

(* A step of the kernel is a step of the scheduler.                          *)
LEMMA KernelStepIsSchedulerStep ==
    ASSUME RegistryApart, KernelNext
    PROVE  SchedNext /\ registry' \subseteq registry
<1>. USE DEF RegistryApart
<1>1. current_id \notin registry
  BY SchedulerAssumption DEF KernelTaskId
<1>2. ASSUME NEW v \in Point, SysExit(v)
      PROVE  UserStep(v) /\ UNCHANGED registry
  BY <1>1, <1>2 DEF SysExit, UserStep, ipcVars
<1>3. ASSUME NEW v \in Point, NEW target, NEW ret, SysSend(target, ret, v)
      PROVE  UserStep(v) /\ UNCHANGED registry
  <2>1. task_state' = task_state
    <3>1. CASE target \in registry
      <4>1. target \in TaskId
        BY <3>1, SchedulerAssumption DEF KernelTaskId, TaskId
      <4>2. task_state' = [task_state EXCEPT ![target] = task_state[target]]
        BY <1>3, <3>1, <4>1 DEF SysSend
      <4>. QED
        BY <4>1, <4>2 DEF SchedTypeOK
    <3>2. CASE target \notin registry
      BY <1>3, <3>2 DEF SysSend
    <3>. QED
      BY <3>1, <3>2
  <2>. QED
    BY <1>3, <2>1 DEF SysSend, UserStep
<1>4. ASSUME NEW v \in Point, NEW p, NEW ret, SysSetPriority(p, ret, v)
      PROVE  UserStep(v) /\ UNCHANGED registry
  BY <1>1, <1>4 DEF SysSetPriority, UserStep, ipcVars
<1>5. ASSUME NEW v \in Point, Syscall(v)
      PROVE  (UserStep(v) \/ SysYield(v)) /\ UNCHANGED registry
  BY <1>2, <1>3, <1>4, <1>5
  DEF Syscall, SysRecv, SysRegService, SysGetServicePid, SysNoEffect, ipcVars
<1>6. CASE Fault
  BY <1>6 DEF Fault, SysSendFault, SysRecvFault, SchedNext, ipcVars
<1>7. CASE Timer \/ Keyboard \/ Serial
  BY <1>7 DEF Timer, Keyboard, Serial, DeviceHandler, PollKernelTasks, SchedNext
<1>8. CASE (EnterUser \/ SysRet) /\ UNCHANGED ipcVars
  BY <1>8 DEF SchedNext, ipcVars
<1>. QED
  BY <1>5, <1>6, <1>7, <1>8 DEF KernelNext, SchedNext

(* Every behaviour of the kernel is one of the scheduler: no syscall touches *)
(* a process's context, saved stack pointer or turn; nor, against what the   *)
(* comments in SYS_EXIT and SYS_SET_PRIORITY say, its state or priority.     *)
THEOREM KernelImplementsScheduler == KernelSpec => ImplementsScheduler
<1>1. KernelInit => RegistryApart
  BY InitType, SchedulerAssumption
  DEF KernelInit, Registered, SchedInit, RegistryApart, Pid
<1>2. RegistryApart /\ [KernelNext]_kernelVars => RegistryApart' /\ [SchedNext]_schedVars
  <2>. SUFFICES ASSUME RegistryApart, [KernelNext]_kernelVars
                PROVE  RegistryApart' /\ [SchedNext]_schedVars
    OBVIOUS
  <2>1. CASE KernelNext
    <3>1. SchedNext /\ registry' \subseteq registry
      BY <2>1, KernelStepIsSchedulerStep
    <3>2. SchedTypeOK'
      BY <3>1, SchedTypeStep DEF RegistryApart
    <3>. QED
      BY <3>1, <3>2, SchedulerKeepsIds DEF RegistryApart
  <2>2. CASE UNCHANGED kernelVars
    BY <2>2 DEF kernelVars, ipcVars, schedVars, RegistryApart, SchedTypeOK
  <2>. QED
    BY <2>1, <2>2
<1>3. KernelInit => SchedInit
  BY DEF KernelInit
<1>. QED
  BY <1>1, <1>2, <1>3, PTL DEF KernelSpec, SchedSpec, ImplementsScheduler

(* SchedInv holds in every state of the kernel.                              *)
LEMMA KernelSchedInv ==
    ASSUME SomeoneSurvives
    PROVE  KernelSpec => []SchedInv
BY KernelImplementsScheduler, SchedInvInvariant, PTL DEF ImplementsScheduler

(* With every syscall, interrupt and fault of the kernel, and one process    *)
(* that never faults, no trap frame with an error code is ever returned to.  *)
THEOREM KernelNeverReturnsToFault ==
    ASSUME SomeoneSurvives
    PROVE  KernelSpec => []NeverReturnsToFault
BY KernelImplementsScheduler, FaultsNeverReturn, PTL DEF ImplementsScheduler

(* The kernel with all its syscalls gives every process a CPU of its own.    *)
THEOREM KernelImplementsVirtualCpus ==
    ASSUME SomeoneSurvives
    PROVE  KernelSpec => ImplementsVirtualCpus
BY KernelImplementsScheduler, SchedulerImplementsVirtualCpus, PTL DEF ImplementsScheduler

(* Neither does any system call put off the turn of a waiting process.       *)
THEOREM KernelTurnApproaches == KernelSpec => TurnApproaches
BY KernelImplementsScheduler, EveryTurnApproaches, PTL DEF ImplementsScheduler

(* A service name leads to the process that registered it last, or to 0.     *)
THEOREM ServicesAreOwn ==
    ASSUME SomeoneSurvives
    PROVE  KernelSpec => []ServicesNeverForeign
<1>. DEFINE Inv == /\ services \in [Name -> Int]
                   /\ registrar \in [Name -> Int]
                   /\ ServicesNeverForeign
<1>1. KernelInit => Inv
  BY DEF KernelInit, ServicesNeverForeign, NOBODY, NOT_FOUND, U64_MAX
<1>2. Inv /\ SchedInv /\ [KernelNext]_kernelVars => Inv'
  <2>. SUFFICES ASSUME Inv, SchedInv, [KernelNext]_kernelVars
                PROVE  Inv'
    OBVIOUS
  <2>1. ASSUME NEW n \in Name, NEW v, SysRegService(n, v)
        PROVE  Inv'
    <3>1. /\ current_id \in {0, Pid(cpu.task)}
          /\ current_id \in Int
          /\ cpu.task \in Int
          /\ cpu.task # NOBODY
      BY SchedulerAssumption
      DEF SchedInv, CurrentConsistent, SchedTypeOK, TaskId, Idx, NOBODY
    <3>. QED
      BY <2>1, <3>1 DEF SysRegService, ServicesNeverForeign
  <2>2. CASE UNCHANGED <<services, registrar>>
    BY <2>2 DEF ServicesNeverForeign
  <2>. QED
    BY <2>1, <2>2
    DEF KernelNext, Syscall, Fault, SysExit, SysSend, SysSendFault, SysRecv,
        SysRecvFault, SysSetPriority, SysGetServicePid, SysNoEffect, Timer, Keyboard,
        Serial, DeviceHandler, kernelVars, ipcVars
<1>. QED
  BY <1>1, <1>2, KernelSchedInv, PTL DEF KernelSpec

(* INIT_MAILBOX never holds a message that is older than one SYS_RECV has    *)
(* delivered, nor one twice, however the interrupts fall.                    *)
THEOREM MailStaysInOrder == KernelSpec => []MailInOrder
<1>. DEFINE Inv == /\ irqs \in Nat
                   /\ last_read \in Nat
                   /\ last_read <= irqs
                   /\ \A m \in init_mailbox : m.data \in Nat
                   /\ MailInOrder
<1>1. KernelInit => Inv
  BY DEF KernelInit, MailInOrder
<1>2. Inv /\ [KernelNext]_kernelVars => Inv'
  <2>. SUFFICES ASSUME Inv, [KernelNext]_kernelVars
                PROVE  Inv'
    OBVIOUS
  <2>1. ASSUME NEW label, DeviceHandler(label)
        PROVE  Inv'
    BY <2>1 DEF DeviceHandler, Post, MailInOrder
  <2>2. ASSUME NEW ret, NEW v, SysRecv(ret, v)
        PROVE  Inv'
    <3>1. CASE init_mailbox = {}
      BY <2>2, <3>1 DEF SysRecv, TakeMail, MailInOrder
    <3>2. CASE init_mailbox # {}
      <4>1. PICK m \in init_mailbox : m = (CHOOSE x \in init_mailbox : TRUE)
        BY <3>2
      <4>. QED
        BY <2>2, <4>1 DEF SysRecv, TakeMail, MailInOrder
    <3>. QED
      BY <3>1, <3>2
  <2>3. CASE SysRecvFault
    BY <2>3 DEF SysRecvFault, TakeMail, MailInOrder
  <2>4. CASE UNCHANGED <<init_mailbox, irqs, last_read>>
    BY <2>4 DEF MailInOrder
  <2>. QED
    BY <2>1, <2>2, <2>3, <2>4
    DEF KernelNext, Syscall, Fault, SysExit, SysSend, SysSendFault, SysSetPriority,
        SysRegService, SysGetServicePid, SysNoEffect, Timer, Keyboard, Serial,
        kernelVars, ipcVars
<1>. QED
  BY <1>1, <1>2, PTL DEF KernelSpec

(* Every reachable state of the kernel is well typed: a message carries the  *)
(* label of the device whose handler posted it, and a service name leads to  *)
(* a task id, to 0 or nowhere.                                               *)
THEOREM KernelTypeCorrect == KernelSpec => []KernelTypeOK
<1>1. KernelInit => KernelTypeOK
  <2>. SUFFICES ASSUME KernelInit PROVE KernelTypeOK
    OBVIOUS
  <2>1. SchedTypeOK
    BY InitType DEF KernelInit
  <2>2. 0 \in 0 .. MaxIrqs
    BY KernelAssumption
  <2>3. /\ registry \subseteq TaskId
        /\ task_mailbox \in [TaskId -> BOOLEAN]
        /\ services \in [Name -> {NOT_FOUND, 0} \cup TaskId]
        /\ init_mailbox \subseteq DeviceMessage
        /\ registrar \in [Name -> {NOBODY} \cup Idx]
    BY SchedulerAssumption DEF KernelInit, Registered, KernelTaskId, TaskId
  <2>. QED
    BY <2>1, <2>2, <2>3 DEF KernelInit, KernelTypeOK
<1>2. KernelTypeOK /\ SchedTypeOK' /\ [KernelNext]_kernelVars => KernelTypeOK'
  <2>. SUFFICES ASSUME KernelTypeOK, SchedTypeOK', [KernelNext]_kernelVars
                PROVE  KernelTypeOK'
    OBVIOUS
  <2>1. ASSUME NEW v, Syscall(v)
        PROVE  KernelTypeOK'
    <3>1. ASSUME NEW target \in TaskId, NEW ret, SysSend(target, ret, v)
          PROVE  KernelTypeOK'
      BY <3>1 DEF SysSend, KernelTypeOK
    <3>2. ASSUME NEW ret, SysRecv(ret, v)
          PROVE  KernelTypeOK'
      <4>1. ASSUME NEW m \in init_mailbox
            PROVE  m.data \in 0 .. MaxIrqs
        BY KernelAssumption DEF KernelTypeOK, DeviceMessage
      <4>2. init_mailbox # {} => (CHOOSE m \in init_mailbox : TRUE) \in init_mailbox
        OBVIOUS
      <4>3. last_read' \in 0 .. MaxIrqs /\ init_mailbox' \subseteq DeviceMessage
        BY <3>2, <4>1, <4>2 DEF SysRecv, TakeMail, KernelTypeOK
      <4>. QED
        BY <3>2, <4>3 DEF SysRecv, TakeMail, KernelTypeOK
    <3>3. ASSUME NEW n \in Name, SysRegService(n, v)
          PROVE  KernelTypeOK'
      <4>1. current_id \in {0} \cup TaskId /\ cpu.task \in Idx
        BY DEF KernelTypeOK, SchedTypeOK, Context
      <4>. QED
        BY <3>3, <4>1 DEF SysRegService, KernelTypeOK
    <3>4. CASE UNCHANGED ipcVars
      BY <3>4 DEF ipcVars, KernelTypeOK
    <3>. QED
      BY <2>1, <3>1, <3>2, <3>3, <3>4
      DEF Syscall, SysExit, SysSetPriority, SysGetServicePid, SysNoEffect, ipcVars
  <2>2. CASE Fault
    BY <2>2 DEF Fault, SysSendFault, SysRecvFault, TakeMail, ipcVars, KernelTypeOK
  <2>3. CASE Timer
    BY <2>3 DEF Timer, PollKernelTasks, KernelTypeOK
  <2>4. ASSUME NEW label \in {KEYBOARD, SERIAL}, DeviceHandler(label)
        PROVE  KernelTypeOK'
    <3>1. irqs' \in 0 .. MaxIrqs /\ irqs + 1 \in 1 .. MaxIrqs
      BY <2>4, KernelAssumption DEF DeviceHandler, KernelTypeOK
    <3>2. [to |-> INIT_PID, label |-> label, data |-> irqs + 1] \in DeviceMessage
      BY <3>1 DEF DeviceMessage
    <3>. QED
      BY <2>4, <3>1, <3>2 DEF DeviceHandler, Post, PollKernelTasks, KernelTypeOK
  <2>5. CASE UNCHANGED ipcVars
    BY <2>5 DEF ipcVars, KernelTypeOK
  <2>. QED
    BY <2>1, <2>2, <2>3, <2>4, <2>5 DEF KernelNext, Keyboard, Serial, kernelVars
<1>3. KernelSpec => []SchedTypeOK
  BY KernelImplementsScheduler, SchedTypeCorrect, PTL DEF ImplementsScheduler
<1>. QED
  BY <1>1, <1>2, <1>3, PTL DEF KernelSpec
================================================================================
