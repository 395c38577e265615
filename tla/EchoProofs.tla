------------------------------ MODULE EchoProofs ------------------------------
(***************************************************************************)
(* Theorems about the system as it boots: the init program, run by two     *)
(* processes, on the kernel of module Kernel, for any number of timer      *)
(* ticks and device interrupts.                                            *)
(*                                                                         *)
(* EchoSystem is Kernel with programs for its clients, so what is proved   *)
(* of Kernel holds here (EchoImplementsKernel).  What A prints follows     *)
(* from where A is in its program; that is read from its context, on the   *)
(* CPU or in the frame it is parked in, and only A's own steps move it     *)
(* (ProgramCounters).                                                      *)
(***************************************************************************)
EXTENDS EchoSystem, KernelProofs, SequenceTheorems

(* Where process i is in the program, running or not.                        *)
PcOf(i) == ContextOf(i)[2]

(* Every serial message in the mailbox or in A's buffer has been typed.      *)
MailWasTyped ==
    \A m \in init_mailbox \cup msg : m.label = SERIAL => m.data \in typed

(* Between its SYS_RECV and the echo A's buffer holds the newest message     *)
(* delivered; what has been echoed is older than the message that may be     *)
(* echoed next.                                                              *)
EchoPending ==
    /\ \A j \in DOMAIN echoed : echoed[j] <= last_read
    /\ PcOf(A) \in {"dispatch", "echo"} =>
          /\ \A m \in msg : m.data = last_read /\ msg = {m}
          /\ \A j \in DOMAIN echoed : echoed[j] < last_read
    /\ PcOf(A) = "echo" => \A m \in msg : m.label = SERIAL

(* The inductive invariant, on top of what the kernel guarantees.            *)
EchoInv ==
    /\ EchoTypeOK
    /\ MailWasTyped
    /\ EchoPending
    /\ EchoInOrder
--------------------------------------------------------------------------------
(* The hypothesis of the scheduler's theorems holds here: A never faults.    *)
LEMMA ASurvives ==
    /\ Idx = {A, B}
    /\ SomeoneSurvives
    /\ A \in Idx /\ A \notin MayFault
    /\ Point = Label
BY EchoAssumption DEF SomeoneSurvives, Idx, A, B

(* Every step of the programs is a step the kernel allows its clients.       *)
LEMMA EchoStepIsKernelStep == EchoNext => KernelNext
<1> SUFFICES ASSUME EchoNext PROVE KernelNext
  OBVIOUS
<1> USE ASurvives DEF Label
<1>1. CASE ProgramA
  <2>1. CASE RegisterSerial
    BY <2>1, EchoAssumption DEF RegisterSerial, KernelNext, Syscall
  <2>2. CASE Recv
    BY <2>2 DEF Recv, KernelNext, Syscall
  <2>3. CASE Dispatch
    <3>1. PICK v \in Point : UserStep(v) /\ UNCHANGED ipcVars
      BY <2>3 DEF Dispatch
    <3> QED
      BY <3>1 DEF KernelNext, Syscall, SysNoEffect
  <2>4. CASE Echo
    BY <2>4 DEF Echo, KernelNext, Syscall
  <2>5. CASE Yield
    BY <2>5 DEF Yield, KernelNext, Syscall
  <2> QED
    BY <1>1, <2>1, <2>2, <2>3, <2>4, <2>5 DEF ProgramA
<1>2. CASE ProgramB
  <2>1. CASE Delay
    BY <2>1 DEF Delay, KernelNext, Syscall, SysNoEffect
  <2>2. CASE Lookup
    BY <2>2, EchoAssumption DEF Lookup, KernelNext, Syscall
  <2>3. CASE Halt
    BY <2>3 DEF Halt, KernelNext, Fault
  <2> QED
    BY <1>2, <2>1, <2>2, <2>3 DEF ProgramB
<1>3. CASE (EnterUser \/ SysRet) /\ UNCHANGED ipcVars
  BY <1>3 DEF KernelNext
<1>4. CASE Tick \/ Press \/ Type
  BY <1>4 DEF Tick, Press, Type, KernelNext
<1> QED
  BY <1>1, <1>2, <1>3, <1>4 DEF EchoNext, Execute

(* The booted system is the kernel with particular clients: its behaviours   *)
(* are behaviours of Kernel.                                                 *)
THEOREM EchoImplementsKernel == EchoSpec => KernelSpec
<1>1. EchoInit => KernelInit
  BY DEF EchoInit
<1>2. [EchoNext]_echoVars => [KernelNext]_kernelVars
  BY EchoStepIsKernelStep DEF echoVars
<1> QED
  BY <1>1, <1>2, PTL DEF EchoSpec, KernelSpec

(* What the kernel's theorems say of this system.                            *)
LEMMA EchoKernelInv == EchoSpec => [](SchedInv /\ KernelTypeOK /\ MailInOrder)
BY ASurvives, EchoImplementsKernel, KernelSchedInv, KernelTypeCorrect, MailStaysInOrder, PTL

(* Two processes run, B faults, and A is never the one that is killed.       *)
THEOREM OnlyBDies == EchoSpec => []OnlyTheFaultyDies
<1>1. SchedInv => OnlyTheFaultyDies
  BY ASurvives DEF SchedInv, DeadHaveFaulted, OnlyTheFaultyDies
<1> QED
  BY <1>1, EchoKernelInv, PTL
--------------------------------------------------------------------------------
(* A step of A's program moves A's program counter.                          *)
LEMMA StepOfA ==
    ASSUME SchedInv, cpu.task = A, NEW v \in Point, UserStep(v) \/ SysYield(v)
    PROVE  PcOf(A) = cpu.pc /\ PcOf(A)' = v
<1>1. current_idx = A
  BY DEF SchedInv, CurrentConsistent
<1>2. current_idx' = A /\ ContextOf(A)' = <<A, cpu'.pc>>
  BY <1>1, CpuStepEffect DEF A
<1>3. cpu'.pc = v
  BY DEF UserStep, ContinueAt, SysYield, SchedInv, SchedTypeOK, Context
<1> QED
  BY <1>1, <1>2, <1>3 DEF PcOf, ContextOf

(* Nothing else does: no step of B, no interrupt and no fault.               *)
LEMMA StepsOfOthers ==
    ASSUME SchedInv,
           \/ EnterUser \/ SysRet \/ TimerIrq \/ DeviceIrq \/ GeneralProtection
           \/ cpu.task # A /\ \E v \in Point : UserStep(v) \/ SysYield(v)
    PROVE  PcOf(A)' = PcOf(A)
<1> SUFFICES ContextOf(A)' = ContextOf(A)
  BY DEF PcOf
<1>1. CASE EnterUser \/ SysRet
  <2>1. CASE current_idx = A
    BY <1>1, <2>1, CpuStepEffect DEF A
  <2>2. CASE current_idx # A
    BY <1>1, <2>2, ASurvives, CpuStepEffect DEF A
  <2> QED
    BY <2>1, <2>2
<1>2. CASE cpu.task # A /\ \E v \in Point : UserStep(v) \/ SysYield(v)
  BY <1>2, ASurvives, CpuStepEffect DEF SchedInv, CurrentConsistent, A
<1>3. CASE TimerIrq
  <2>1. ticks' \in 0 .. TickModulus - 1
    BY <1>3, ModRange, SchedulerAssumption DEF TimerIrq, NextTick, SchedInv, SchedTypeOK
  <2> QED
    BY <1>3, <2>1, ASurvives, IrqEntry, ScheduleNextEffect DEF TimerIrq, A
<1>4. CASE DeviceIrq
  BY <1>4, ASurvives, DeviceIrqEffect DEF A
<1>5. CASE GeneralProtection
  <2>1. ticks' \in 0 .. TickModulus - 1
    BY <1>5 DEF GeneralProtection, KillCurrent, SchedInv, SchedTypeOK
  <2> QED
    BY <1>5, <2>1, ASurvives, FaultEntry, ScheduleNextEffect DEF GeneralProtection, KillCurrent, A
<1> QED
  BY <1>1, <1>2, <1>3, <1>4, <1>5

--------------------------------------------------------------------------------
(* The program's memory and the histories keep their types.                  *)
LEMMA EchoTypeStep ==
    ASSUME EchoTypeOK, KernelTypeOK, KernelTypeOK', [EchoNext]_echoVars
    PROVE  EchoTypeOK'
<1>1. CASE UNCHANGED progVars
  BY <1>1 DEF progVars, EchoTypeOK
<1>2. CASE Recv
  BY <1>2 DEF Recv, EchoTypeOK, KernelTypeOK
<1>3. CASE Echo
  <2>1. PICK m \in msg : echoed' = Append(echoed, m.data)
    BY <1>3 DEF Echo
  <2>2. m.data \in 1 .. MaxIrqs
    BY DEF EchoTypeOK, DeviceMessage
  <2> QED
    BY <1>3, <2>1, <2>2 DEF Echo, EchoTypeOK
<1>4. CASE Lookup
  BY <1>4 DEF Lookup, EchoTypeOK, NOT_FOUND
<1>5. CASE Type
  <2>1. irqs' \in 1 .. MaxIrqs
    BY <1>5, KernelAssumption DEF Type, Serial, DeviceHandler, KernelTypeOK
  <2> QED
    BY <1>5, <2>1 DEF Type, EchoTypeOK
<1> QED
  BY <1>1, <1>2, <1>3, <1>4, <1>5
  DEF EchoNext, Execute, ProgramA, ProgramB, RegisterSerial, Dispatch, Yield, Delay, Halt,
      Tick, Press, echoVars
(* SYS_RECV hands A the message of the mailbox, which is newer than anything *)
(* A has echoed.                                                             *)
LEMMA RecvStep ==
    ASSUME EchoInv, SchedInv, KernelTypeOK, MailInOrder, Recv
    PROVE  MailWasTyped' /\ EchoPending' /\ EchoInOrder'
<1> USE DEF EchoInv
<1>1. UNCHANGED <<typed, echoed>> /\ EchoInOrder'
  BY DEF Recv, EchoInOrder
<1>2. cpu.task = A /\ cpu.pc = "recv"
  BY DEF Recv, At
<1>3. CASE SysRecv(1, "dispatch") /\ msg' = init_mailbox
  <2>1. /\ UserStep("dispatch") /\ init_mailbox # {} /\ init_mailbox' = {}
        /\ last_read' = (CHOOSE m \in init_mailbox : TRUE).data
    BY <1>3 DEF SysRecv, TakeMail
  <2>2. PICK m \in init_mailbox : last_read' = m.data
    BY <2>1
  <2>3. init_mailbox = {m} /\ last_read < m.data
    BY DEF MailInOrder
  <2>4. PcOf(A)' = "dispatch"
    BY <1>2, <2>1, ASurvives, StepOfA DEF Label
  <2>5. last_read \in Int /\ m.data \in Int /\ (\A j \in DOMAIN echoed : echoed[j] \in Int)
    BY KernelAssumption DEF KernelTypeOK, DeviceMessage, EchoTypeOK
  <2>6. EchoPending'
    BY <1>1, <1>3, <2>2, <2>3, <2>4, <2>5 DEF EchoPending
  <2>7. MailWasTyped'
    BY <1>1, <1>3, <2>1 DEF MailWasTyped
  <2> QED
    BY <1>1, <2>6, <2>7
<1>4. CASE SysRecv(0, "yield") /\ UNCHANGED msg
  <2>1. UserStep("yield") /\ UNCHANGED <<init_mailbox, last_read>>
    BY <1>4 DEF SysRecv
  <2>2. PcOf(A)' = "yield"
    BY <1>2, <2>1, ASurvives, StepOfA DEF Label
  <2> QED
    BY <1>1, <1>4, <2>1, <2>2 DEF EchoPending, MailWasTyped
<1> QED
  BY <1>3, <1>4 DEF Recv

(* A prints a message that was typed after everything it has printed.        *)
LEMMA EchoStep ==
    ASSUME EchoInv, SchedInv, KernelTypeOK, Echo
    PROVE  MailWasTyped' /\ EchoPending' /\ EchoInOrder'
<1> USE DEF EchoInv
<1>1. /\ cpu.task = A /\ cpu.pc = "echo" /\ UserStep("recv")
      /\ UNCHANGED <<msg, typed, init_mailbox, last_read>>
  BY DEF Echo, At, SysNoEffect, ipcVars
<1>2. PcOf(A) = "echo" /\ PcOf(A)' = "recv"
  BY <1>1, ASurvives, StepOfA DEF Label
<1>3. PICK m \in msg : echoed' = Append(echoed, m.data)
  BY DEF Echo
<1>4. /\ m.data \in typed /\ m.data = last_read
      /\ \A j \in DOMAIN echoed : echoed[j] < last_read
  BY <1>2 DEF EchoPending, MailWasTyped
<1>5. /\ last_read \in Int /\ m.data \in 1 .. MaxIrqs
      /\ echoed \in Seq(1 .. MaxIrqs) /\ Len(echoed) \in Nat
      /\ \A j \in DOMAIN echoed : echoed[j] \in Int
  BY KernelAssumption DEF KernelTypeOK, DeviceMessage, EchoTypeOK
<1>6. /\ DOMAIN echoed = 1 .. Len(echoed)
      /\ DOMAIN echoed' = 1 .. Len(echoed) + 1
      /\ echoed'[Len(echoed) + 1] = m.data
      /\ \A j \in 1 .. Len(echoed) : echoed'[j] = echoed[j]
  BY <1>3, <1>5
<1>7. EchoInOrder'
  BY <1>1, <1>4, <1>5, <1>6 DEF EchoInOrder
<1>8. EchoPending'
  BY <1>1, <1>2, <1>4, <1>5, <1>6 DEF EchoPending
<1> QED
  BY <1>1, <1>7, <1>8 DEF MailWasTyped

(* A device handler puts a message into the mailbox whose number is new.     *)
LEMMA DeviceStep ==
    ASSUME EchoInv, SchedInv, KernelTypeOK, Press \/ Type
    PROVE  MailWasTyped' /\ EchoPending' /\ EchoInOrder'
<1> USE DEF EchoInv
<1>1. PICK l \in {KEYBOARD, SERIAL} : DeviceHandler(l)
  BY DEF Press, Type, Keyboard, Serial
<1>2. /\ UNCHANGED <<msg, echoed, last_read>>
      /\ typed \subseteq typed'
      /\ irqs' = irqs + 1
  BY DEF Press, Type, Keyboard, Serial, DeviceHandler, progVars
<1>3. PcOf(A)' = PcOf(A)
  BY <1>1, StepsOfOthers DEF DeviceHandler
<1>4. EchoPending' /\ EchoInOrder'
  BY <1>2, <1>3 DEF EchoPending, EchoInOrder
<1>5. CASE Press
  <2>1. \A m \in init_mailbox' : m \in init_mailbox \/ m.label = KEYBOARD
    BY <1>5 DEF Press, Keyboard, DeviceHandler, Post
  <2> QED
    BY <1>2, <1>4, <2>1 DEF MailWasTyped, KEYBOARD, SERIAL
<1>6. CASE Type
  <2>1. \A m \in init_mailbox' : m \in init_mailbox \/ m.data = irqs'
    BY <1>6 DEF Type, Serial, DeviceHandler, Post
  <2>2. irqs' \in typed'
    BY <1>6 DEF Type
  <2> QED
    BY <1>2, <1>4, <2>1, <2>2 DEF MailWasTyped
<1> QED
  BY <1>5, <1>6

(* A step of the program that touches neither the mailbox nor the histories. *)
LEMMA QuietStep ==
    ASSUME EchoInv, UNCHANGED <<init_mailbox, last_read, msg, typed, echoed>>,
           \/ PcOf(A)' = PcOf(A)
           \/ PcOf(A)' \notin {"dispatch", "echo"}
           \/ /\ PcOf(A) = "dispatch" /\ PcOf(A)' = "echo"
              /\ \E m \in msg : m.label = SERIAL
    PROVE  MailWasTyped' /\ EchoPending' /\ EchoInOrder'
BY DEF EchoInv, MailWasTyped, EchoPending, EchoInOrder

(* EchoInv is preserved by every step.                                       *)
LEMMA EchoInvStep ==
    ASSUME EchoInv, SchedInv, KernelTypeOK, MailInOrder, KernelTypeOK', [EchoNext]_echoVars
    PROVE  EchoInv'
<1> USE ASurvives
<1>0. EchoTypeOK'
  BY EchoTypeStep DEF EchoInv
<1>1. CASE RegisterSerial
  <2>1. UserStep("recv") /\ cpu.task = A /\ "recv" \in Point
    BY <1>1 DEF RegisterSerial, At, SysRegService, Label
  <2>2. PcOf(A)' = "recv"
    BY <2>1, StepOfA
  <2> QED
    BY <1>0, <1>1, <2>2, QuietStep DEF RegisterSerial, SysRegService, progVars, EchoInv
<1>2. CASE Recv \/ Echo
  BY <1>0, <1>2, RecvStep, EchoStep DEF EchoInv
<1>3. CASE Dispatch
  <2> DEFINE v == IF \E m \in msg : m.label = SERIAL THEN "echo" ELSE "recv"
  <2>1. /\ cpu.task = A /\ cpu.pc = "dispatch" /\ UserStep(v) /\ v \in Point
        /\ UNCHANGED <<init_mailbox, last_read, msg, typed, echoed>>
    BY <1>3 DEF Dispatch, At, Label, ipcVars, progVars
  <2> HIDE DEF v
  <2>2. PcOf(A) = "dispatch" /\ PcOf(A)' = v
    BY <2>1, StepOfA
  <2>3. v = "recv" \/ (v = "echo" /\ \E m \in msg : m.label = SERIAL)
    BY DEF v
  <2> QED
    BY <1>0, <2>1, <2>2, <2>3, QuietStep DEF EchoInv
<1>4. CASE Yield
  <2>1. SysYield("recv") /\ cpu.task = A /\ "recv" \in Point
    BY <1>4 DEF Yield, At, Label
  <2>2. PcOf(A)' = "recv"
    BY <2>1, StepOfA
  <2> QED
    BY <1>0, <1>4, <2>2, QuietStep DEF Yield, ipcVars, progVars, EchoInv
<1>5. CASE Delay \/ Lookup \/ Halt
  <2>1. PcOf(A)' = PcOf(A)
    <3>1. CASE Delay \/ Lookup
      <4>1. cpu.task # A /\ \E u \in Point : UserStep(u)
        BY <3>1 DEF Delay, Lookup, At, SysGetServicePid, Label, A, B
      <4> QED
        BY <4>1, StepsOfOthers
    <3>2. CASE Halt
      BY <3>2, StepsOfOthers DEF Halt
    <3> QED
      BY <1>5, <3>1, <3>2
  <2> QED
    BY <1>0, <1>5, <2>1, QuietStep DEF Delay, Lookup, Halt, SysGetServicePid, ipcVars, progVars, EchoInv
<1>6. CASE (EnterUser \/ SysRet \/ TimerIrq) /\ UNCHANGED <<init_mailbox, last_read, progVars>>
  <2>1. PcOf(A)' = PcOf(A)
    BY <1>6, StepsOfOthers
  <2> QED
    BY <1>0, <1>6, <2>1, QuietStep DEF progVars, EchoInv
<1>7. CASE Press \/ Type
  BY <1>0, <1>7, DeviceStep DEF EchoInv
<1>8. CASE UNCHANGED echoVars
  <2>1. PcOf(A)' = PcOf(A)
    BY <1>8 DEF echoVars, kernelVars, schedVars, PcOf, ContextOf
  <2> QED
    BY <1>0, <1>8, <2>1, QuietStep DEF echoVars, kernelVars, ipcVars, progVars, EchoInv
<1> QED
  BY <1>1, <1>2, <1>3, <1>4, <1>5, <1>6, <1>7, <1>8
  DEF EchoNext, Execute, ProgramA, ProgramB, Tick, Timer, ipcVars

(* EchoInv is an invariant.                                                  *)
THEOREM EchoInvInvariant == EchoSpec => []EchoInv
<1>1. EchoInit => EchoInv
  BY DEF EchoInit, KernelInit, EchoInv, EchoTypeOK, MailWasTyped, EchoPending, EchoInOrder, NOT_FOUND
<1>2. /\ EchoInv /\ SchedInv /\ KernelTypeOK /\ MailInOrder /\ KernelTypeOK'
      /\ [EchoNext]_echoVars
      => EchoInv'
  BY EchoInvStep
<1> QED
  BY <1>1, <1>2, EchoKernelInv, PTL DEF EchoSpec

(* The program's memory and the histories keep their types.                  *)
THEOREM EchoTypeCorrect == EchoSpec => []EchoTypeOK
BY EchoInvInvariant, PTL DEF EchoInv

(* What A prints is what was typed, in order and nothing twice, for any      *)
(* number of interrupts and wherever A is preempted.                         *)
THEOREM EchoStaysInOrder == EchoSpec => []EchoInOrder
BY EchoInvInvariant, PTL DEF EchoInv
================================================================================
