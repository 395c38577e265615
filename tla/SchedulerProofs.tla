---------------------------- MODULE SchedulerProofs ----------------------------
(***************************************************************************)
(* Theorems about module Scheduler, for any number of processes and any    *)
(* user program.                                                           *)
(*                                                                         *)
(* The argument: schedule_next finds a process that may run whenever there *)
(* is one (NextIdxRunnable); SchedInv says that CPU, CURRENT_TASK_IDX and  *)
(* TSS.RSP0 agree and that every other process is parked on a stack of its *)
(* own; a handler that starts in such a state reaches such a state and     *)
(* changes nobody's context (ScheduleNextEffect); so every step is one of  *)
(* module VirtualCpus (StepCorrect).                                       *)
(***************************************************************************)
EXTENDS Scheduler, WellFoundedInduction, TLAPS

(* The remainder used to wrap an index around TASK_LIST is an index.         *)
LEMMA ModRange ==
    ASSUME NEW n \in Nat \ {0}, NEW a \in Nat
    PROVE  a % n \in 0 .. n - 1
OBVIOUS

(* Going k places on from index a, round the list at most once.              *)
LEMMA ModOnce ==
    ASSUME NEW n \in Nat \ {0}, NEW a \in 0 .. n - 1, NEW k \in 1 .. n
    PROVE  (a + k) % n = IF a + k < n THEN a + k ELSE a + k - n
OBVIOUS

(* A non-empty set of naturals has a least element, the one Min chooses.     *)
LEMMA MinExists ==
    ASSUME NEW S \in SUBSET Nat, S # {}
    PROVE  /\ Min(S) \in S
           /\ \A y \in S : Min(S) <= y
<1>. DEFINE Less == {ss \in Nat \X Nat : ss[1] < ss[2]}
<1>1. IsWellFoundedOn(Less, Nat)
  BY NatLessThanWellFounded DEF OpToRel
<1>2. PICK x \in S : \A y \in S : ~(<<y, x>> \in Less)
  <2>. HIDE DEF Less
  <2>. QED BY <1>1, WFMin
<1>3. ASSUME NEW y \in S
      PROVE  x <= y
  <2>1. /\ x \in Nat
        /\ y \in Nat
    OBVIOUS
  <2>2. y < x => <<y, x>> \in Less
    BY <2>1
  <2>. QED
    BY <1>2, <2>1, <2>2
<1>. QED
  BY <1>3 DEF Min

(* Processes have distinct, non-zero ids.                                    *)
LEMMA IdxPid ==
    /\ 0 \in Idx
    /\ \A i \in Idx : Pid(i) \in TaskId /\ Pid(i) # 0
    /\ \A i, j \in Idx : Pid(i) = Pid(j) => i = j
BY SchedulerAssumption DEF Idx, Pid, TaskId

(* The search of schedule_next yields an index of TASK_LIST, and that of a   *)
(* Ready process if there is one.                                            *)
LEMMA NextIdxRunnable ==
    ASSUME NEW st \in [TaskId -> TaskState], NEW old \in Idx
    PROVE  /\ NextIdx(st, old) \in Idx
           /\ (\E i \in Idx : st[Pid(i)] = "Ready") => st[Pid(NextIdx(st, old))] = "Ready"
<1>. DEFINE Distance == {k \in 1 .. NumTasks :
                            st[Pid((old + k) % NumTasks)] = "Ready"}
<1>1. CASE Distance = {}
  <2>1. NextIdx(st, old) = (old + 1) % NumTasks
    BY <1>1 DEF NextIdx
  <2>2. NextIdx(st, old) \in Idx
    BY <2>1, ModRange, SchedulerAssumption DEF Idx
  <2>3. ASSUME NEW i \in Idx
        PROVE  st[Pid(i)] # "Ready"
    <3>. DEFINE k == IF i > old THEN i - old ELSE i + NumTasks - old
    <3>1. k \in 1 .. NumTasks
      BY SchedulerAssumption DEF Idx
    <3>2. (old + k) % NumTasks = i
      BY <3>1, ModOnce, SchedulerAssumption DEF Idx
    <3>. QED
      BY <1>1, <3>1, <3>2
  <2>. QED
    BY <2>2, <2>3
<1>2. CASE Distance # {}
  <2>1. NextIdx(st, old) = (old + Min(Distance)) % NumTasks
    BY <1>2 DEF NextIdx
  <2>2. Min(Distance) \in Distance
    BY <1>2, MinExists, SchedulerAssumption
  <2>. HIDE DEF Distance
  <2>3. Min(Distance) \in 1 .. NumTasks /\ st[Pid((old + Min(Distance)) % NumTasks)] = "Ready"
    BY <2>2 DEF Distance
  <2>4. old + Min(Distance) \in Nat
    BY <2>3, SchedulerAssumption DEF Idx
  <2>5. NextIdx(st, old) \in Idx
    BY <2>1, <2>4, ModRange, SchedulerAssumption DEF Idx
  <2>. QED
    BY <2>1, <2>3, <2>5
<1>. QED
  BY <1>1, <1>2

(* Popping a frame gives a context.                                          *)
LEMMA ResumeType ==
    ASSUME NEW f \in Frame
    PROVE  Resume(f) \in Context
BY DEF Resume, Frame, Context, Mode

(* What handler_wrapper! pushes, and where, is well typed.                   *)
LEMMA SavedFrameType ==
    ASSUME SchedTypeOK, NEW err \in BOOLEAN
    PROVE  /\ SavedFrame(err) \in Frame
           /\ TrapStack \in Addr
           /\ UserStack \in Addr
BY DEF SchedTypeOK, SavedFrame, Frame, Context, Mode, TrapStack, UserStack, Addr

(* schedule_next keeps the state well typed.                                 *)
LEMMA ScheduleNextType ==
    ASSUME SchedTypeOK, ticks' \in 0 .. TickModulus - 1,
           NEW st \in [TaskId -> TaskState], NEW tk, NEW id \in {0} \cup TaskId,
           NEW frame \in Frame, NEW addr \in Addr, NEW force,
           ScheduleNext(st, tk, id, frame, addr, force)
    PROVE  SchedTypeOK'
<1>. DEFINE next == NextIdx(st, current_idx)
<1>1. next \in Idx /\ Pid(next) \in TaskId
  BY NextIdxRunnable, IdxPid DEF SchedTypeOK
<1>2. /\ stack' \in [Addr -> Frame]
      /\ task_state' \in [TaskId -> TaskState]
      /\ priority' \in [TaskId -> Nat]
  BY DEF ScheduleNext, SchedTypeOK
<1>3. CASE SwitchTo(next, addr)
  <2>. HIDE DEF next
  <2>1. /\ current_idx' \in Idx
        /\ current_id' \in TaskId
        /\ rsp0' \in Idx
        /\ kernel_rsp' \in [Idx -> Addr]
    BY <1>1, <1>3 DEF SchedTypeOK, SwitchTo, SetCurrent, SaveContext, SetInterruptStack
  <2>2. cpu' \in Context
    BY <1>1, <1>2, <1>3, <2>1, ResumeType DEF SwitchTo, SetCurrent
  <2>. QED
    BY <1>2, <2>1, <2>2 DEF SchedTypeOK
<1>4. CASE current_id' = id /\ cpu' = Resume(frame) /\ UNCHANGED <<current_idx, kernel_rsp, rsp0>>
  BY <1>2, <1>4, ResumeType DEF SchedTypeOK
<1>. QED
  BY <1>3, <1>4 DEF ScheduleNext

(* kernel_main leaves a well-typed state.                                    *)
LEMMA InitType == SchedInit => SchedTypeOK
BY SchedulerAssumption, IdxPid
DEF SchedInit, SchedTypeOK, TaskState, DEFAULT_PRIORITY, Addr, Frame, Context,
    Mode, InitialFrame, Garbage

(* Every step keeps the state well typed.                                    *)
LEMMA SchedTypeStep ==
    ASSUME SchedTypeOK, [SchedNext]_schedVars
    PROVE  SchedTypeOK'
<1>1. CASE EnterUser
  <2>1. stack[<<"kernel", cpu.task>>] \in Frame
    BY DEF SchedTypeOK, Context, Addr
  <2>. QED
    BY <1>1, <2>1, ResumeType DEF EnterUser, SchedTypeOK
<1>2. ASSUME NEW v \in Point, UserStep(v) \/ SysYield(v)
      PROVE  SchedTypeOK'
  BY <1>2 DEF UserStep, ContinueAt, SysYield, SchedTypeOK, Context, Mode
<1>3. CASE SysRet
  BY <1>3 DEF SysRet, SchedTypeOK, Context, Mode
<1>4. CASE TimerIrq
  <2>1. ticks' \in 0 .. TickModulus - 1
    BY <1>4, ModRange, SchedulerAssumption DEF TimerIrq, NextTick, SchedTypeOK
  <2>. QED
    BY <1>4, <2>1, SavedFrameType, ScheduleNextType DEF TimerIrq, NextTick, SchedTypeOK
<1>5. CASE DeviceIrq
  <2>1. SavedFrame(FALSE) \in Frame /\ TrapStack \in Addr
    BY SavedFrameType
  <2>2. Resume(SavedFrame(FALSE)) \in Context
    BY <2>1, ResumeType
  <2>. QED
    BY <1>5, <2>1, <2>2 DEF DeviceIrq, SchedTypeOK
<1>6. ASSUME NEW addr \in Addr, KillCurrent(addr)
      PROVE  SchedTypeOK'
  <2>1. ticks' \in 0 .. TickModulus - 1
    BY <1>6 DEF KillCurrent, SchedTypeOK
  <2>2. [task_state EXCEPT ![Pid(current_idx)] = "Terminated"] \in [TaskId -> TaskState]
    BY DEF SchedTypeOK, TaskState
  <2>3. SavedFrame(TRUE) \in Frame
    BY SavedFrameType
  <2>. QED
    BY <1>6, <2>1, <2>2, <2>3, ScheduleNextType DEF KillCurrent, SchedTypeOK
<1>7. CASE GeneralProtection \/ PageFault(TrapStack) \/ PageFault(UserStack)
  BY <1>6, <1>7, SavedFrameType DEF GeneralProtection, PageFault
<1>8. CASE UnhandledException
  BY <1>8 DEF UnhandledException, SchedTypeOK, Context, Mode
<1>9. CASE UNCHANGED schedVars
  BY <1>9 DEF schedVars, SchedTypeOK
<1>. QED
  BY <1>1, <1>2, <1>3, <1>4, <1>5, <1>7, <1>8, <1>9 DEF SchedNext, HaltForever

(* Every reachable state is well typed: current_idx and rsp0 always index    *)
(* TASK_LIST (schedule_next never runs off its end) and every stack address  *)
(* the kernel keeps is one of a process of its own.                          *)
THEOREM SchedTypeCorrect == SchedSpec => []SchedTypeOK
<1>. QED
  BY InitType, SchedTypeStep, PTL DEF SchedSpec

--------------------------------------------------------------------------------
(* The hypothesis on the programs: at least one process never faults.        *)
SomeoneSurvives == MayFault # Idx

(* The process on the CPU, CURRENT_TASK_IDX and TSS.RSP0 agree, and the      *)
(* process is one that may run.                                              *)
CurrentConsistent ==
    /\ cpu.task = current_idx
    /\ rsp0 = current_idx
    /\ current_id \in {0, Pid(current_idx)}
    /\ cpu.mode # "wild"
    /\ task_state[Pid(current_idx)] = "Ready"

(* Only the fault handlers change the state of a process.                    *)
DeadHaveFaulted ==
    \A i \in Idx : \/ task_state[Pid(i)] = "Ready"
                   \/ task_state[Pid(i)] = "Terminated" /\ i \in MayFault

(* Until kernel_main has entered process 0, its first frame is untouched.    *)
BootFrameIntact ==
    cpu.mode = "boot" => /\ cpu.task = 0
                         /\ cpu.pc = Entry
                         /\ stack[<<"kernel", 0>>] = InitialFrame(0)

(* A suspended process has its context on a stack of its own.                *)
Parked(i) ==
    LET frame == stack[kernel_rsp[i]]
    IN  /\ kernel_rsp[i][2] = i
        /\ frame.task = i
        /\ frame.mode # "wild"
        /\ task_state[Pid(i)] = "Ready" => ~frame.err
        /\ frame.mode = "boot" => /\ i = 0
                                  /\ frame.pc = Entry
                                  /\ stack[<<"kernel", 0>>] = InitialFrame(0)

OthersParked == \A i \in Idx \ {current_idx} : Parked(i)

(* The inductive invariant.                                                  *)
SchedInv ==
    /\ SchedTypeOK
    /\ CurrentConsistent
    /\ DeadHaveFaulted
    /\ BootFrameIntact
    /\ OthersParked

(* What a handler has established when it calls schedule_next: the frame is  *)
(* the current process's, on a stack of the current process, and the task    *)
(* states differ from the old ones at the current process only.              *)
HandlerEntry(st, id, frame, addr) ==
    /\ st \in [TaskId -> TaskState]
    /\ \A i \in Idx \ {current_idx} : st[Pid(i)] = task_state[Pid(i)]
    /\ \/ st[Pid(current_idx)] = "Ready" /\ ~frame.err
       \/ st[Pid(current_idx)] = "Terminated" /\ current_idx \in MayFault
    /\ id \in {0, Pid(current_idx)}
    /\ frame \in Frame
    /\ frame.task = current_idx
    /\ frame.pc = cpu.pc
    /\ frame.mode # "wild"
    /\ frame.mode = "boot" <=> cpu.mode = "boot"
    /\ addr \in Addr
    /\ addr[2] = current_idx
    /\ cpu.mode = "boot" => addr[1] # "kernel"

(* schedule_next, called that way, finds a process that may run, leaves the  *)
(* invariant true and no process's context changed.                          *)
LEMMA ScheduleNextEffect ==
    ASSUME SomeoneSurvives, SchedInv, ticks' \in 0 .. TickModulus - 1,
           NEW st, NEW tk, NEW id, NEW frame, NEW addr, NEW force,
           HandlerEntry(st, id, frame, addr),
           ScheduleNext(st, tk, id, frame, addr, force)
    PROVE  /\ SchedInv'
           /\ \A i \in Idx : ContextOf(i)' = ContextOf(i)
           /\ task_state' = st
           /\ st[Pid(current_idx)] = "Terminated" => current_idx' # current_idx
<1>. USE DEF SchedInv
<1>. DEFINE next == NextIdx(st, current_idx)
            dead == st[Pid(current_idx)] = "Terminated"
<1>1. SchedTypeOK'
  BY ScheduleNextType, IdxPid DEF HandlerEntry, SchedTypeOK
<1>2. /\ task_state' = st
      /\ stack' = [stack EXCEPT ![addr] = frame]
      /\ stack'[addr] = frame
      /\ \A a \in Addr : a # addr => stack'[a] = stack[a]
  BY DEF ScheduleNext, HandlerEntry, SchedTypeOK
<1>3. DeadHaveFaulted'
  BY <1>2, SMT DEF DeadHaveFaulted, HandlerEntry, SchedTypeOK
<1>4. next \in Idx /\ st[Pid(next)] = "Ready"
  <2>1. PICK i \in Idx : i \notin MayFault
    BY SchedulerAssumption DEF SomeoneSurvives, Idx
  <2>2. st[Pid(i)] = "Ready"
    BY <1>2, <1>3, <2>1 DEF DeadHaveFaulted
  <2>. QED
    BY <2>2, NextIdxRunnable DEF HandlerEntry, SchedTypeOK
<1>5. ASSUME NEW i \in Idx \ {current_idx}
      PROVE  /\ kernel_rsp[i] \in Addr
             /\ stack'[kernel_rsp[i]] = stack[kernel_rsp[i]]
             /\ stack'[<<"kernel", i>>] = stack[<<"kernel", i>>]
  <2>1. kernel_rsp[i] \in Addr /\ <<"kernel", i>> \in Addr
    BY DEF SchedTypeOK, Addr
  <2>2. kernel_rsp[i] # addr /\ <<"kernel", i>> # addr
    BY DEF OthersParked, Parked, HandlerEntry
  <2>. QED
    BY <1>2, <2>1, <2>2
<1>6. cpu.mode = "boot" => stack'[<<"kernel", 0>>] = stack[<<"kernel", 0>>]
  <2>1. <<"kernel", 0>> \in Addr
    BY IdxPid DEF Addr
  <2>2. cpu.mode = "boot" => <<"kernel", 0>> # addr
    BY DEF HandlerEntry
  <2>. QED
    BY <1>2, <2>1, <2>2
<1>7. CASE SwitchTo(next, addr) /\ (next # current_idx \/ dead)
  <2>1. next # current_idx
    BY <1>4, <1>7
  <2>. HIDE DEF next
  <2>2. /\ current_idx' = next
        /\ current_id' = Pid(next)
        /\ rsp0' = next
        /\ kernel_rsp' = [kernel_rsp EXCEPT ![current_idx] = addr]
        /\ kernel_rsp'[current_idx] = addr
        /\ \A i \in Idx \ {current_idx} : kernel_rsp'[i] = kernel_rsp[i]
    BY <1>7 DEF SwitchTo, SetCurrent, SaveContext, SetInterruptStack, SchedTypeOK
  <2>3. cpu' = Resume(stack[kernel_rsp[next]])
    BY <1>4, <1>5, <1>7, <2>1, <2>2 DEF SwitchTo, SetCurrent
  <2>4. Parked(next) /\ task_state[Pid(next)] = "Ready"
    BY <1>4, <2>1 DEF OthersParked, HandlerEntry
  <2>5. /\ cpu'.task = next
        /\ cpu'.pc = stack[kernel_rsp[next]].pc
        /\ cpu'.mode = stack[kernel_rsp[next]].mode
    BY <2>3, <2>4 DEF Resume, Parked
  <2>6. CurrentConsistent'
    BY <1>2, <1>4, <2>2, <2>4, <2>5 DEF CurrentConsistent, Parked
  <2>7. BootFrameIntact'
    BY <1>4, <1>5, <2>1, <2>4, <2>5 DEF BootFrameIntact, Parked
  <2>9. OthersParked'
    <3>1. ASSUME NEW i \in Idx, i # next, i # current_idx
          PROVE  Parked(i)'
      BY <1>2, <1>5, <2>2, <3>1 DEF OthersParked, Parked, HandlerEntry
    <3>2. ASSUME NEW i \in Idx, i = current_idx
          PROVE  Parked(i)'
      BY <1>2, <1>6, <2>2, <3>2 DEF Parked, HandlerEntry, BootFrameIntact, CurrentConsistent
    <3>. QED
      BY <3>1, <3>2, <2>2 DEF OthersParked
  <2>10. ASSUME NEW i \in Idx
         PROVE  ContextOf(i)' = ContextOf(i)
    <3>1. CASE i = current_idx
      BY <1>2, <2>1, <2>2, <3>1 DEF ContextOf, HandlerEntry, CurrentConsistent
    <3>2. CASE i = next
      BY <2>1, <2>2, <2>4, <2>5, <3>2 DEF ContextOf, Parked
    <3>3. CASE i # current_idx /\ i # next
      <4>1. kernel_rsp'[i] = kernel_rsp[i] /\ stack'[kernel_rsp[i]] = stack[kernel_rsp[i]]
        BY <1>5, <2>2, <3>3
      <4>. QED
        BY <2>2, <3>3, <4>1 DEF ContextOf
    <3>. QED
      BY <3>1, <3>2, <3>3
  <2>. QED
    BY <1>1, <1>2, <1>3, <2>1, <2>2, <2>6, <2>7, <2>9, <2>10
<1>8. CASE /\ ~dead
           /\ current_id' = id
           /\ cpu' = Resume(frame)
           /\ UNCHANGED <<current_idx, kernel_rsp, rsp0>>
  <2>1. /\ cpu'.task = current_idx
        /\ cpu'.pc = cpu.pc
        /\ cpu'.mode = frame.mode
    BY <1>8 DEF Resume, HandlerEntry
  <2>2. CurrentConsistent'
    BY <1>2, <1>8, <2>1 DEF CurrentConsistent, HandlerEntry
  <2>3. BootFrameIntact'
    BY <1>6, <2>1 DEF BootFrameIntact, CurrentConsistent, HandlerEntry
  <2>4. ASSUME NEW i \in Idx \ {current_idx}
        PROVE  Parked(i)'
    BY <1>2, <1>5, <1>8 DEF OthersParked, Parked, HandlerEntry
  <2>5. OthersParked'
    BY <1>8, <2>4 DEF OthersParked
  <2>6. ASSUME NEW i \in Idx
        PROVE  ContextOf(i)' = ContextOf(i)
    BY <1>5, <1>8, <2>1 DEF ContextOf, CurrentConsistent
  <2>. QED
    BY <1>1, <1>2, <1>3, <1>8, <2>2, <2>3, <2>5, <2>6
<1>. QED
  BY <1>7, <1>8 DEF ScheduleNext

(* A hardware interrupt enters its handler in the way HandlerEntry says.     *)
LEMMA IrqEntry ==
    ASSUME SchedInv
    PROVE  HandlerEntry(task_state, 0, SavedFrame(FALSE), TrapStack)
<1>1. SavedFrame(FALSE) \in Frame /\ TrapStack \in Addr
  BY SavedFrameType DEF SchedInv
<1>2. TrapStack[2] = current_idx /\ (cpu.mode = "boot" => TrapStack[1] # "kernel")
  BY DEF SchedInv, CurrentConsistent, TrapStack, UserStack
<1>3. /\ SavedFrame(FALSE).task = current_idx
      /\ SavedFrame(FALSE).pc = cpu.pc
      /\ SavedFrame(FALSE).mode # "wild"
      /\ SavedFrame(FALSE).mode = "boot" <=> cpu.mode = "boot"
      /\ ~SavedFrame(FALSE).err
  BY DEF SchedInv, CurrentConsistent, SavedFrame
<1>. QED
  BY <1>1, <1>2, <1>3 DEF HandlerEntry, SchedInv, SchedTypeOK, CurrentConsistent

(* So do #GP and #PF, the latter also from inside a syscall, once the        *)
(* handler has marked the current process.                                   *)
LEMMA FaultEntry ==
    ASSUME SchedInv, cpu.mode = "user", cpu.task \in MayFault,
           NEW addr \in {TrapStack, UserStack}
    PROVE  HandlerEntry([task_state EXCEPT ![Pid(current_idx)] = "Terminated"],
                        current_id, SavedFrame(TRUE), addr)
<1>. DEFINE st == [task_state EXCEPT ![Pid(current_idx)] = "Terminated"]
<1>1. SavedFrame(TRUE) \in Frame /\ addr \in Addr
  BY SavedFrameType DEF SchedInv
<1>2. addr[2] = current_idx
  BY DEF SchedInv, CurrentConsistent, TrapStack, UserStack
<1>3. /\ SavedFrame(TRUE).task = current_idx
      /\ SavedFrame(TRUE).pc = cpu.pc
      /\ SavedFrame(TRUE).mode = "user"
  BY DEF SchedInv, CurrentConsistent, SavedFrame
<1>4. /\ st \in [TaskId -> TaskState]
      /\ st[Pid(current_idx)] = "Terminated"
  BY IdxPid DEF SchedInv, SchedTypeOK, TaskState
<1>5. ASSUME NEW i \in Idx \ {current_idx}
      PROVE  st[Pid(i)] = task_state[Pid(i)]
  <2>1. Pid(i) # Pid(current_idx)
    BY IdxPid DEF SchedInv, SchedTypeOK
  <2>. QED
    BY <2>1, IdxPid DEF SchedInv, SchedTypeOK
<1>. HIDE DEF st
<1>. QED
  BY <1>1, <1>2, <1>3, <1>4, <1>5 DEF HandlerEntry, SchedInv, CurrentConsistent, st

(* kernel_main establishes the invariant.                                    *)
LEMMA InitEstablishesInv == SchedInit => SchedInv
<1>. SUFFICES ASSUME SchedInit PROVE SchedInv
  OBVIOUS
<1>1. ASSUME NEW i \in Idx
      PROVE  /\ task_state[Pid(i)] = "Ready"
             /\ kernel_rsp[i] = <<"kernel", i>>
             /\ stack[<<"kernel", i>>] = InitialFrame(i)
  BY IdxPid DEF SchedInit, Addr
<1>2. CurrentConsistent /\ DeadHaveFaulted /\ BootFrameIntact
  BY <1>1, IdxPid DEF SchedInit, CurrentConsistent, DeadHaveFaulted, BootFrameIntact
<1>3. ASSUME NEW i \in Idx
      PROVE  Parked(i)
  <2>1. kernel_rsp[i] = <<"kernel", i>> /\ stack[<<"kernel", i>>] = InitialFrame(i)
    BY <1>1
  <2>2. stack[kernel_rsp[i]] = InitialFrame(i)
    BY <2>1, Zenon
  <2>3. kernel_rsp[i][2] = i
    BY <2>1
  <2>. QED
    BY <2>2, <2>3 DEF Parked, InitialFrame
<1>4. OthersParked
  BY <1>3 DEF OthersParked
<1>. QED
  BY <1>2, <1>4, InitType DEF SchedInv

(* The process's own steps: nothing but the CPU changes.                     *)
LEMMA CpuStepEffect ==
    ASSUME SchedInv,
           \/ EnterUser \/ SysRet \/ UnhandledException
           \/ \E v \in Point : UserStep(v) \/ SysYield(v)
    PROVE  /\ SchedInv'
           /\ \A i \in Idx \ {current_idx} : ContextOf(i)' = ContextOf(i)
           /\ UNCHANGED <<current_idx, task_state>>
           /\ ContextOf(current_idx)' = <<current_idx, cpu'.pc>>
           /\ EnterUser \/ SysRet \/ UnhandledException =>
                 UNCHANGED ContextOf(current_idx)
<1>1. /\ UNCHANGED <<task_state, priority, kernel_rsp, current_idx, current_id,
                     ticks, rsp0, stack>>
      /\ cpu'.task = current_idx
      /\ cpu' \in Context
      /\ cpu'.mode \in {"user", "hlt", "panic"}
      /\ EnterUser \/ SysRet \/ UnhandledException => cpu'.pc = cpu.pc
  <2>1. CASE EnterUser
    <3>1. cpu' = [task |-> 0, mode |-> "user", pc |-> Entry]
      BY <2>1 DEF EnterUser, SchedInv, BootFrameIntact, InitialFrame, Resume
    <3>2. cpu.task = 0 /\ cpu.pc = Entry
      BY <2>1 DEF EnterUser, SchedInv, BootFrameIntact
    <3>. QED
      BY <2>1, <3>1, <3>2, IdxPid, SchedulerAssumption
      DEF EnterUser, SchedInv, CurrentConsistent, Context, Mode
  <2>2. CASE SysRet
    BY <2>2 DEF SysRet, EnterUser, SchedInv, SchedTypeOK, CurrentConsistent, Context, Mode
  <2>3. ASSUME NEW v \in Point, UserStep(v) \/ SysYield(v)
        PROVE  /\ UNCHANGED <<task_state, priority, kernel_rsp, current_idx,
                              current_id, ticks, rsp0, stack>>
               /\ cpu'.task = current_idx
               /\ cpu' \in Context
               /\ cpu'.mode \in {"user", "hlt"}
               /\ ~EnterUser /\ ~SysRet /\ ~UnhandledException
    BY <2>3 DEF UserStep, ContinueAt, SysYield, EnterUser, SysRet, UnhandledException,
                SchedInv, SchedTypeOK, CurrentConsistent, Context, Mode
  <2>4. CASE UnhandledException
    BY <2>4 DEF UnhandledException, SchedInv, SchedTypeOK, CurrentConsistent, Context, Mode
  <2>. QED
    BY <2>1, <2>2, <2>3, <2>4
<1>2. SchedInv'
  BY <1>1 DEF SchedInv, SchedTypeOK, CurrentConsistent, DeadHaveFaulted,
              BootFrameIntact, OthersParked, Parked
<1>3. \A i \in Idx \ {current_idx} : ContextOf(i)' = ContextOf(i)
  BY <1>1 DEF ContextOf
<1>4. ContextOf(current_idx)' = <<current_idx, cpu'.pc>>
  BY <1>1 DEF ContextOf
<1>5. EnterUser \/ SysRet \/ UnhandledException => UNCHANGED ContextOf(current_idx)
  BY <1>1, <1>4 DEF ContextOf, SchedInv, CurrentConsistent
<1>. QED
  BY <1>1, <1>2, <1>3, <1>4, <1>5

(* A device interrupt returns to the interrupted context.                    *)
LEMMA DeviceIrqEffect ==
    ASSUME SchedInv, DeviceIrq
    PROVE  /\ SchedInv'
           /\ \A i \in Idx : ContextOf(i)' = ContextOf(i)
<1>. DEFINE frame == SavedFrame(FALSE)
<1>1. HandlerEntry(task_state, 0, frame, TrapStack)
  BY IrqEntry
<1>2. /\ UNCHANGED <<task_state, priority, kernel_rsp, current_idx, ticks, rsp0>>
      /\ current_id' = 0
      /\ stack' = [stack EXCEPT ![TrapStack] = frame]
      /\ cpu' = Resume(frame)
  BY DEF DeviceIrq
<1>. HIDE DEF frame
<1>3. /\ cpu'.task = current_idx
      /\ cpu'.pc = cpu.pc
      /\ cpu'.mode = frame.mode
      /\ cpu' \in Context
  BY <1>1, <1>2, ResumeType DEF HandlerEntry, Resume, SchedInv, CurrentConsistent
<1>4. SchedTypeOK' /\ CurrentConsistent' /\ DeadHaveFaulted'
  BY <1>1, <1>2, <1>3
  DEF SchedInv, SchedTypeOK, HandlerEntry, CurrentConsistent, DeadHaveFaulted
<1>5. ASSUME NEW a \in Addr, a # TrapStack
      PROVE  stack'[a] = stack[a]
  BY <1>2, <1>5 DEF SchedInv, SchedTypeOK
<1>6. BootFrameIntact'
  <2>1. <<"kernel", 0>> \in Addr
    BY IdxPid DEF Addr
  <2>2. cpu.mode = "boot" => <<"kernel", 0>> # TrapStack
    BY <1>1 DEF HandlerEntry
  <2>. QED
    BY <1>1, <1>3, <1>5, <2>1, <2>2
    DEF SchedInv, BootFrameIntact, HandlerEntry, CurrentConsistent
<1>7. ASSUME NEW i \in Idx \ {current_idx}
      PROVE  Parked(i)' /\ ContextOf(i)' = ContextOf(i)
  <2>1. Parked(i) /\ kernel_rsp[i] \in Addr /\ <<"kernel", i>> \in Addr
    BY DEF SchedInv, SchedTypeOK, OthersParked, Addr
  <2>2. kernel_rsp[i] # TrapStack /\ <<"kernel", i>> # TrapStack
    BY <1>1, <2>1 DEF HandlerEntry, Parked
  <2>3. stack'[kernel_rsp[i]] = stack[kernel_rsp[i]] /\ stack'[<<"kernel", i>>] = stack[<<"kernel", i>>]
    BY <1>5, <2>1, <2>2
  <2>. QED
    BY <1>2, <2>1, <2>3 DEF Parked, ContextOf
<1>8. ContextOf(current_idx)' = ContextOf(current_idx)
  BY <1>2, <1>3 DEF ContextOf, SchedInv, CurrentConsistent
<1>. QED
  BY <1>2, <1>4, <1>6, <1>7, <1>8 DEF SchedInv, OthersParked

(* A step either leaves every process's context and liveness alone, is a step *)
(* of the running process, or kills it; and it preserves the invariant.       *)
LEMMA StepCorrect ==
    ASSUME SomeoneSurvives, SchedInv, [SchedNext]_schedVars
    PROVE  /\ SchedInv'
           /\ [Virtual!VcpuNext]_(Virtual!vcpuVars)
<1>. DEFINE at    == [i \in Idx |-> ContextOf(i)]
            alive == [i \in Idx |-> task_state[Pid(i)] # "Terminated"]
<1>1. current_idx \in Idx /\ alive[current_idx]
  BY DEF SchedInv, SchedTypeOK, CurrentConsistent
<1>2. ASSUME SchedInv', \A i \in Idx : ContextOf(i)' = ContextOf(i), UNCHANGED task_state
      PROVE  [Virtual!VcpuNext]_(Virtual!vcpuVars)
  <2>1. at' = at /\ alive' = alive /\ current_idx' \in Idx /\ alive[current_idx']
    BY <1>2 DEF SchedInv, SchedTypeOK, CurrentConsistent
  <2>2. Virtual!Dispatch(current_idx')
    BY <2>1 DEF Virtual!Dispatch
  <2>. QED
    BY <2>1, <2>2 DEF Virtual!VcpuNext
<1>3. CASE EnterUser \/ SysRet \/ UnhandledException
  <2>1. SchedInv' /\ UNCHANGED <<current_idx, task_state>>
    BY <1>3, CpuStepEffect
  <2>2. \A i \in Idx : ContextOf(i)' = ContextOf(i)
    BY <1>3, CpuStepEffect
  <2>. QED
    BY <1>2, <2>1, <2>2
<1>4. ASSUME NEW v \in Point, UserStep(v) \/ SysYield(v)
      PROVE  SchedInv' /\ [Virtual!VcpuNext]_(Virtual!vcpuVars)
  <2>1. /\ SchedInv'
        /\ \A i \in Idx \ {current_idx} : ContextOf(i)' = ContextOf(i)
        /\ UNCHANGED <<current_idx, task_state>>
        /\ ContextOf(current_idx)' = <<current_idx, cpu'.pc>>
    BY <1>4, CpuStepEffect
  <2>2. cpu'.pc = v
    BY <1>4 DEF UserStep, ContinueAt, SysYield, SchedInv, SchedTypeOK, Context
  <2>3. at' = [at EXCEPT ![current_idx] = <<current_idx, v>>]
    <3>1. ASSUME NEW i \in Idx
          PROVE  ContextOf(i)' = IF i = current_idx THEN <<current_idx, v>> ELSE ContextOf(i)
      BY <2>1, <2>2
    <3>. QED
      BY <1>1, <3>1
  <2>4. Virtual!Step(v)
    BY <1>1, <2>1, <2>3 DEF Virtual!Step
  <2>. QED
    BY <2>1, <2>4 DEF Virtual!VcpuNext
<1>5. CASE TimerIrq
  <2>1. ticks' \in 0 .. TickModulus - 1
    BY <1>5, ModRange, SchedulerAssumption DEF TimerIrq, NextTick, SchedInv, SchedTypeOK
  <2>2. /\ SchedInv'
        /\ \A i \in Idx : ContextOf(i)' = ContextOf(i)
        /\ UNCHANGED task_state
    BY <1>5, <2>1, IrqEntry, ScheduleNextEffect DEF TimerIrq
  <2>. QED
    BY <1>2, <2>2
<1>6. CASE DeviceIrq
  BY <1>2, <1>6, DeviceIrqEffect DEF DeviceIrq
<1>7. ASSUME NEW addr \in {TrapStack, UserStack},
             cpu.mode = "user", cpu.task \in MayFault, KillCurrent(addr)
      PROVE  SchedInv' /\ [Virtual!VcpuNext]_(Virtual!vcpuVars)
  <2>. DEFINE st == [task_state EXCEPT ![Pid(current_idx)] = "Terminated"]
  <2>1. ticks' \in 0 .. TickModulus - 1
    BY <1>7 DEF KillCurrent, SchedInv, SchedTypeOK
  <2>2. /\ SchedInv'
        /\ \A i \in Idx : ContextOf(i)' = ContextOf(i)
        /\ task_state' = st
        /\ st[Pid(current_idx)] = "Terminated" => current_idx' # current_idx
    BY <1>7, <2>1, FaultEntry, ScheduleNextEffect DEF KillCurrent
  <2>3. alive' = [alive EXCEPT ![current_idx] = FALSE]
    BY <1>1, <2>2, IdxPid DEF SchedInv, SchedTypeOK
  <2>4. /\ current_idx' \in Idx
        /\ current_idx' # current_idx
        /\ alive[current_idx']
        /\ at' = at
    BY <1>1, <2>2, <2>3, IdxPid DEF SchedInv, SchedTypeOK, CurrentConsistent
  <2>5. Virtual!Kill(current_idx')
    BY <1>1, <2>3, <2>4 DEF Virtual!Kill
  <2>. QED
    BY <2>2, <2>4, <2>5 DEF Virtual!VcpuNext
<1>8. CASE GeneralProtection \/ PageFault(TrapStack) \/ PageFault(UserStack)
  BY <1>7, <1>8 DEF GeneralProtection, PageFault
<1>9. CASE UNCHANGED schedVars
  <2>1. SchedInv'
    BY <1>9 DEF schedVars, SchedInv, SchedTypeOK, CurrentConsistent, DeadHaveFaulted,
                BootFrameIntact, OthersParked, Parked
  <2>2. \A i \in Idx : ContextOf(i)' = ContextOf(i)
    BY <1>9 DEF schedVars, ContextOf
  <2>. QED
    BY <1>2, <1>9, <2>1, <2>2 DEF schedVars
<1>. QED
  BY <1>3, <1>4, <1>5, <1>6, <1>8, <1>9 DEF SchedNext, HaltForever

--------------------------------------------------------------------------------
(* The invariant holds throughout.                                           *)
LEMMA SchedInvInvariant ==
    ASSUME SomeoneSurvives
    PROVE  SchedSpec => []SchedInv
<1>1. SchedInv /\ [SchedNext]_schedVars => SchedInv'
  BY StepCorrect
<1>. QED
  BY <1>1, InitEstablishesInv, PTL DEF SchedSpec

(* While one process never faults, no handler ever pops a frame that still   *)
(* holds an error code: after a kill schedule_next always finds a process    *)
(* with a context one can return to.                                         *)
THEOREM FaultsNeverReturn ==
    ASSUME SomeoneSurvives
    PROVE  SchedSpec => []NeverReturnsToFault
<1>1. SchedInv => NeverReturnsToFault
  BY DEF SchedInv, CurrentConsistent, NeverReturnsToFault
<1>. QED
  BY <1>1, SchedInvInvariant, PTL

(* Whichever way a process lost the CPU (in ring 3, halted in SYS_YIELD, on  *)
(* the way back from it, before it was ever entered), its Task.kernel_rsp    *)
(* leads to its own intact frame until it runs again.                        *)
THEOREM ContextsStayIntact ==
    ASSUME SomeoneSurvives
    PROVE  SchedSpec => []SuspendedContextsIntact
<1>1. SchedInv => SuspendedContextsIntact
  BY DEF SchedInv, OthersParked, Parked, SuspendedContextsIntact
<1>. QED
  BY <1>1, SchedInvInvariant, PTL

(* CURRENT_TASK_ID is 0 or the id of the process on the CPU.                 *)
THEOREM IdentityIsOwn ==
    ASSUME SomeoneSurvives
    PROVE  SchedSpec => []IdentityNeverForeign
<1>1. SchedInv => IdentityNeverForeign
  BY DEF SchedInv, CurrentConsistent, IdentityNeverForeign
<1>. QED
  BY <1>1, SchedInvInvariant, PTL

(* The scheduler, with its stacks, TSS.RSP0 and round robin, implements one  *)
(* virtual CPU per process.                                                  *)
THEOREM SchedulerImplementsVirtualCpus ==
    ASSUME SomeoneSurvives
    PROVE  SchedSpec => ImplementsVirtualCpus
<1>1. SchedInit => Virtual!VcpuInit
  <2>. SUFFICES ASSUME SchedInit PROVE Virtual!VcpuInit
    OBVIOUS
  <2>1. ASSUME NEW i \in Idx
        PROVE  ContextOf(i) = <<i, Entry>> /\ task_state[Pid(i)] # "Terminated"
    <3>1. kernel_rsp[i] = <<"kernel", i>> /\ stack[<<"kernel", i>>] = InitialFrame(i)
      BY DEF SchedInit, Addr
    <3>2. stack[kernel_rsp[i]] = InitialFrame(i)
      BY <3>1, Zenon
    <3>3. task_state[Pid(i)] = "Ready"
      BY IdxPid DEF SchedInit
    <3>. QED
      BY <3>2, <3>3 DEF ContextOf, InitialFrame, SchedInit
  <2>. QED
    BY <2>1 DEF Virtual!VcpuInit, SchedInit
<1>2. SchedInv /\ [SchedNext]_schedVars => [Virtual!VcpuNext]_(Virtual!vcpuVars)
  BY StepCorrect
<1>. QED
  BY <1>1, <1>2, SchedInvInvariant, PTL
  DEF SchedSpec, ImplementsVirtualCpus, Virtual!VcpuSpec

--------------------------------------------------------------------------------
(* How many places process b comes behind process a.                         *)
Gap(a, b) == (b + NumTasks - a) % NumTasks

(* The places between two processes, without the remainder.                  *)
LEMMA GapValue ==
    ASSUME NEW a \in Idx, NEW b \in Idx, a # b
    PROVE  /\ Gap(a, b) = IF b > a THEN b - a ELSE b + NumTasks - a
           /\ Gap(a, b) \in 1 .. NumTasks - 1
<1>. DEFINE k == NumTasks - a
<1>1. NumTasks \in Nat \ {0} /\ a \in 0 .. NumTasks - 1 /\ b \in 0 .. NumTasks - 1
  BY SchedulerAssumption DEF Idx
<1>2. k \in 1 .. NumTasks /\ b + NumTasks - a = b + k
  BY <1>1
<1>3. (b + k) % NumTasks = IF b + k < NumTasks THEN b + k ELSE b + k - NumTasks
  BY <1>1, <1>2, ModOnce
<1>4. Gap(a, b) = IF b + k < NumTasks THEN b + k ELSE b + k - NumTasks
  BY <1>2, <1>3 DEF Gap
<1>. QED
  BY <1>1, <1>4

(* schedule_next passes nobody over: the process it finds comes no later     *)
(* than any other that is Ready, which is then fewer places away.            *)
LEMMA NextIdxNearest ==
    ASSUME NEW st \in [TaskId -> TaskState], NEW old \in Idx, NEW i \in Idx,
           i # old, st[Pid(i)] = "Ready"
    PROVE  LET next == NextIdx(st, old)
           IN  /\ next \in Idx /\ next # old
               /\ next # i => Gap(next, i) \in 1 .. Gap(old, i) - 1
<1>. DEFINE Distance == {k \in 1 .. NumTasks : st[Pid((old + k) % NumTasks)] = "Ready"}
            g == Gap(old, i)
            d == Min(Distance)
            next == NextIdx(st, old)
<1>1. NumTasks \in Nat \ {0} /\ old \in 0 .. NumTasks - 1 /\ i \in 0 .. NumTasks - 1
  BY SchedulerAssumption DEF Idx
<1>2. g = (IF i > old THEN i - old ELSE i + NumTasks - old) /\ g \in 1 .. NumTasks - 1
  BY GapValue
<1>3. (old + g) % NumTasks = i
  <2>. HIDE DEF g
  <2>1. g \in 1 .. NumTasks
    BY <1>1, <1>2
  <2>2. (old + g) % NumTasks = IF old + g < NumTasks THEN old + g ELSE old + g - NumTasks
    BY <1>1, <2>1, ModOnce
  <2>. QED
    BY <1>1, <1>2, <2>2
<1>4. g \in Distance
  BY <1>1, <1>2, <1>3
<1>5. d \in Distance /\ d <= g
  <2>1. Distance \in SUBSET Nat /\ Distance # {}
    BY <1>1, <1>4
  <2>. HIDE DEF Distance, g
  <2>. QED
    BY <1>4, <2>1, MinExists
<1>6. next = (old + d) % NumTasks
  BY <1>4 DEF NextIdx
<1>7. d \in 1 .. NumTasks - 1 /\ d <= g
  <2>. HIDE DEF d, g
  <2>. QED
    BY <1>1, <1>2, <1>5
<1>. HIDE DEF d, g, Distance, next
<1>8. next = IF old + d < NumTasks THEN old + d ELSE old + d - NumTasks
  <2>1. d \in 1 .. NumTasks
    BY <1>1, <1>7
  <2>. QED
    BY <1>1, <1>6, <2>1, ModOnce
<1>9. next \in Idx /\ next # old
  BY <1>1, <1>7, <1>8 DEF Idx
<1>10. ASSUME next # i PROVE Gap(next, i) \in 1 .. g - 1
  <2>1. Gap(next, i) = (IF i > next THEN i - next ELSE i + NumTasks - next)
    BY <1>9, <1>10, GapValue
  <2>. QED
    BY <1>1, <1>2, <1>7, <1>8, <1>9, <1>10, <2>1
<1>. QED
  BY <1>9, <1>10 DEF next, g

(* A tick that does not end the time slice takes one from what is left.      *)
LEMMA SliceRunsDown ==
    ASSUME ticks \in 0 .. TickModulus - 1
    PROVE  /\ RestOfSlice \in 1 .. DEFAULT_PRIORITY
           /\ ticks' = NextTick =>
                 /\ RestOfSlice' \in 1 .. DEFAULT_PRIORITY
                 /\ ticks' % DEFAULT_PRIORITY # 0 => RestOfSlice' = RestOfSlice - 1
<1>. DEFINE Rest(t) == Min({5 - (t % 5), TickModulus - t})
<1>0. TickModulus \in Nat \ {0}
  BY SchedulerAssumption
<1>1. ASSUME NEW t \in 0 .. TickModulus - 1
      PROVE  /\ Rest(t) \in 1 .. 5
             /\ Rest(t) = IF 5 - (t % 5) <= TickModulus - t THEN 5 - (t % 5) ELSE TickModulus - t
  <2>. DEFINE x == 5 - (t % 5)
              y == TickModulus - t
  <2>1. x \in 1 .. 5 /\ y \in Nat \ {0}
    BY <1>0
  <2>. HIDE DEF x, y
  <2>2. {x, y} \in SUBSET Nat /\ {x, y} # {}
    BY <2>1
  <2>3. Min({x, y}) \in {x, y} /\ \A z \in {x, y} : Min({x, y}) <= z
    BY <2>2, MinExists
  <2>4. Min({x, y}) \in 1 .. 5 /\ Min({x, y}) = IF x <= y THEN x ELSE y
    BY <2>1, <2>3
  <2>. QED
    BY <2>4 DEF x, y
<1>2. RestOfSlice = Rest(ticks) /\ RestOfSlice' = Rest(ticks')
  BY DEF RestOfSlice, DEFAULT_PRIORITY
<1>. HIDE DEF Rest
<1>3. RestOfSlice \in 1 .. DEFAULT_PRIORITY
  BY <1>1, <1>2 DEF DEFAULT_PRIORITY
<1>4. ASSUME ticks' = NextTick
      PROVE  /\ RestOfSlice' \in 1 .. DEFAULT_PRIORITY
             /\ ticks' % DEFAULT_PRIORITY # 0 => RestOfSlice' = RestOfSlice - 1
  <2>1. ticks' = IF ticks + 1 = TickModulus THEN 0 ELSE ticks + 1
    <3>1. (ticks + 1) % TickModulus = IF ticks + 1 < TickModulus THEN ticks + 1
                                                          ELSE ticks + 1 - TickModulus
      <4>1. 1 \in 1 .. TickModulus
        BY <1>0
      <4>. QED
        BY <1>0, <4>1, ModOnce
    <3>. QED
      BY <1>0, <1>4, <3>1 DEF NextTick
  <2>2. ticks' \in 0 .. TickModulus - 1
    BY <1>0, <2>1
  <2>3. Rest(ticks') \in 1 .. 5
    BY <1>1, <2>2
  <2>4. ASSUME ticks' % 5 # 0 PROVE Rest(ticks') = Rest(ticks) - 1
    <3>1. ticks' = ticks + 1 /\ ticks + 1 < TickModulus
      BY <1>0, <2>1, <2>2, <2>4
    <3>2. (ticks + 1) % 5 = (ticks % 5) + 1 /\ ticks % 5 \in 0 .. 4
      BY <1>0, <2>4, <3>1
    <3>3. /\ Rest(ticks) = IF 5 - (ticks % 5) <= TickModulus - ticks THEN 5 - (ticks % 5)
                                                                    ELSE TickModulus - ticks
          /\ Rest(ticks + 1) = IF 5 - ((ticks + 1) % 5) <= TickModulus - (ticks + 1)
                               THEN 5 - ((ticks + 1) % 5) ELSE TickModulus - (ticks + 1)
      BY <1>1, <2>2, <3>1
    <3>. QED
      BY <1>0, <3>1, <3>2, <3>3
  <2>. QED
    BY <1>2, <2>3, <2>4 DEF DEFAULT_PRIORITY
<1>. QED
  BY <1>3, <1>4

(* All processes keep the priority Task::new gives them.                     *)
EqualPriorities == \A i \in Idx : priority[Pid(i)] = DEFAULT_PRIORITY

(* No handler of the scheduler changes a priority.                           *)
LEMMA PrioritiesStay ==
    ASSUME EqualPriorities, [SchedNext]_schedVars
    PROVE  EqualPriorities' /\ UNCHANGED priority
<1>1. UNCHANGED priority
  BY DEF SchedNext, EnterUser, UserStep, SysYield, SysRet, TimerIrq, DeviceIrq,
         GeneralProtection, PageFault, KillCurrent, UnhandledException, HaltForever,
         ScheduleNext, schedVars
<1>. QED
  BY <1>1 DEF EqualPriorities

(* What schedule_next does to the waiting time of a process that is Ready    *)
(* and neither was nor is now on the CPU.                                    *)
LEMMA ScheduleNextApproaches ==
    ASSUME SchedTypeOK, EqualPriorities,
           NEW st \in [TaskId -> TaskState], NEW tk, NEW id, NEW frame, NEW addr,
           NEW force \in BOOLEAN, ScheduleNext(st, tk, id, frame, addr, force),
           NEW i \in Idx, i # current_idx, i # current_idx', st[Pid(i)] = "Ready"
    PROVE  /\ Turns(i) \in 1 .. NumTasks - 1
           /\ \/ current_idx' = current_idx /\ Turns(i)' = Turns(i)
              \/ Turns(i)' \in 1 .. Turns(i) - 1
           /\ tk % DEFAULT_PRIORITY = 0 => Turns(i)' \in 1 .. Turns(i) - 1
<1>. DEFINE next == NextIdx(st, current_idx)
            dead == st[Pid(current_idx)] = "Terminated"
<1>1. current_idx \in Idx
  BY DEF SchedTypeOK
<1>2. Turns(i) = Gap(current_idx, i) /\ Turns(i)' = Gap(current_idx', i)
  BY DEF Turns, Gap
<1>3. Turns(i) \in 1 .. NumTasks - 1
  BY <1>1, <1>2, GapValue
<1>4. next \in Idx /\ next # current_idx
      /\ (next # i => Gap(next, i) \in 1 .. Gap(current_idx, i) - 1)
  BY <1>1, NextIdxNearest
<1>5. Max({priority[Pid(current_idx)], 1}) = DEFAULT_PRIORITY
  BY <1>1 DEF EqualPriorities, DEFAULT_PRIORITY, Max
<1>. HIDE DEF next
<1>6. IF tk % DEFAULT_PRIORITY = 0 \/ dead \/ force
      THEN current_idx' = next ELSE current_idx' = current_idx
  BY <1>4, <1>5 DEF ScheduleNext, SwitchTo, SetCurrent, next
<1>. QED
  BY <1>2, <1>3, <1>4, <1>6

(* The waiting time, from the places and the ticks that are left.            *)
LEMMA WaitShrinks ==
    ASSUME NEW turns \in Nat, NEW turns2 \in Nat,
           NEW rest \in 1 .. DEFAULT_PRIORITY, NEW rest2 \in 1 .. DEFAULT_PRIORITY
    PROVE  LET before == DEFAULT_PRIORITY * (turns - 1) + rest
               after == DEFAULT_PRIORITY * (turns2 - 1) + rest2
           IN  /\ turns2 <= turns - 1 => after < before
               /\ turns2 = turns /\ rest2 = rest => after <= before
               /\ turns2 = turns /\ rest2 = rest - 1 => after < before
BY DEF DEFAULT_PRIORITY

(* Nobody is starved: between two turns of its own, a process that may run   *)
(* waits for at most one time slice of every other process.                  *)
THEOREM EveryTurnApproaches == SchedSpec => TurnApproaches
<1>. DEFINE Approach(i) ==
         task_state[Pid(i)] = "Ready" /\ i # current_idx /\ i # current_idx' =>
             /\ TicksToWait(i)' <= TicksToWait(i)
             /\ ticks' # ticks => TicksToWait(i)' < TicksToWait(i)
<1>1. SchedInit => EqualPriorities
  BY IdxPid DEF SchedInit, EqualPriorities
<1>2. EqualPriorities /\ [SchedNext]_schedVars => EqualPriorities'
  BY PrioritiesStay
<1>3. ASSUME SchedTypeOK, EqualPriorities, [SchedNext]_schedVars, NEW i \in Idx
      PROVE  Approach(i)
  <2>. SUFFICES ASSUME task_state[Pid(i)] = "Ready", i # current_idx, i # current_idx'
               PROVE  /\ TicksToWait(i)' <= TicksToWait(i)
                      /\ ticks' # ticks => TicksToWait(i)' < TicksToWait(i)
    OBVIOUS
  <2>0. /\ ticks \in 0 .. TickModulus - 1 /\ task_state \in [TaskId -> TaskState]
        /\ current_idx \in Idx /\ TRUE \in BOOLEAN /\ FALSE \in BOOLEAN
    BY <1>3 DEF SchedTypeOK
  <2>1. Turns(i) \in Nat /\ RestOfSlice \in 1 .. DEFAULT_PRIORITY
    <3>1. Turns(i) = Gap(current_idx, i) /\ Gap(current_idx, i) \in 1 .. NumTasks - 1
      BY <2>0, GapValue DEF Turns, Gap
    <3>. QED
      BY <2>0, <3>1, SliceRunsDown, SchedulerAssumption
  <2>2. CASE UNCHANGED <<current_idx, ticks>>
    <3>1. TicksToWait(i)' = TicksToWait(i)
      BY <2>2 DEF TicksToWait, Turns, RestOfSlice
    <3>2. TicksToWait(i) \in Int
      BY <2>1 DEF TicksToWait, DEFAULT_PRIORITY
    <3>. QED
      BY <2>2, <3>1, <3>2
  <2>3. CASE TimerIrq
    <3>1. /\ ticks' = NextTick
          /\ ScheduleNext(task_state, ticks', 0, SavedFrame(FALSE), TrapStack, FALSE)
      BY <2>3 DEF TimerIrq
    <3>2. /\ Turns(i) \in 1 .. NumTasks - 1
          /\ Turns(i)' = Turns(i) \/ Turns(i)' \in 1 .. Turns(i) - 1
          /\ ticks' % DEFAULT_PRIORITY = 0 => Turns(i)' \in 1 .. Turns(i) - 1
      BY <1>3, <2>0, <3>1, ScheduleNextApproaches
    <3>3. /\ RestOfSlice' \in 1 .. DEFAULT_PRIORITY
          /\ ticks' % DEFAULT_PRIORITY # 0 => RestOfSlice' = RestOfSlice - 1
      BY <2>0, <3>1, SliceRunsDown
    <3>4. Turns(i)' \in Nat
      BY <2>1, <3>2
    <3>5. Turns(i)' <= Turns(i) - 1 \/ (Turns(i)' = Turns(i) /\ RestOfSlice' = RestOfSlice - 1)
      BY <2>1, <3>2, <3>3
    <3>6. TicksToWait(i)' < TicksToWait(i)
      BY <2>1, <3>3, <3>4, <3>5, WaitShrinks DEF TicksToWait
    <3>7. TicksToWait(i) \in Int /\ TicksToWait(i)' \in Int
      BY <2>1, <3>3, <3>4 DEF TicksToWait, DEFAULT_PRIORITY
    <3>. QED
      BY <3>6, <3>7
  <2>4. ASSUME NEW addr, KillCurrent(addr)
        PROVE  /\ TicksToWait(i)' <= TicksToWait(i)
               /\ ticks' # ticks => TicksToWait(i)' < TicksToWait(i)
    <3>. DEFINE st == [task_state EXCEPT ![Pid(current_idx)] = "Terminated"]
    <3>1. /\ ScheduleNext(st, ticks, current_id, SavedFrame(TRUE), addr, TRUE)
          /\ UNCHANGED ticks
      BY <2>4 DEF KillCurrent
    <3>2. st \in [TaskId -> TaskState] /\ st[Pid(i)] = "Ready"
      BY <2>0, IdxPid DEF TaskState
    <3>. HIDE DEF st
    <3>3. /\ Turns(i) \in 1 .. NumTasks - 1
          /\ Turns(i)' = Turns(i) \/ Turns(i)' \in 1 .. Turns(i) - 1
      BY <1>3, <2>0, <3>1, <3>2, ScheduleNextApproaches
    <3>4. RestOfSlice' = RestOfSlice
      BY <3>1 DEF RestOfSlice
    <3>5. Turns(i)' \in Nat /\ (Turns(i)' <= Turns(i) - 1 \/ Turns(i)' = Turns(i))
      BY <2>1, <3>3
    <3>6. TicksToWait(i) \in Int /\ TicksToWait(i)' \in Int
      BY <2>1, <3>4, <3>5 DEF TicksToWait, DEFAULT_PRIORITY
    <3>7. TicksToWait(i)' <= TicksToWait(i)
      <4>1. TicksToWait(i)' < TicksToWait(i) \/ TicksToWait(i)' <= TicksToWait(i)
        BY <2>1, <3>4, <3>5, WaitShrinks DEF TicksToWait
      <4>. QED
        BY <3>6, <4>1
    <3>. QED
      BY <3>1, <3>7
  <2>5. \/ UNCHANGED <<current_idx, ticks>> \/ TimerIrq
        \/ KillCurrent(TrapStack) \/ KillCurrent(UserStack)
    BY <1>3 DEF SchedNext, EnterUser, UserStep, SysYield, SysRet, DeviceIrq,
                GeneralProtection, PageFault, UnhandledException, HaltForever, schedVars
  <2>. QED
    BY <2>2, <2>3, <2>4, <2>5
<1>4. SchedTypeOK /\ EqualPriorities /\ [SchedNext]_schedVars
         => [\A i \in Idx : Approach(i)]_schedVars
  BY <1>3
<1>. QED
  BY <1>1, <1>2, <1>4, SchedTypeCorrect, PTL DEF SchedSpec, TurnApproaches
================================================================================
