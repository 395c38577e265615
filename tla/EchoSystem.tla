------------------------------- MODULE EchoSystem -------------------------------
(***************************************************************************)
(* The system as it boots: module Kernel running the one user program,     *)
(* user/init/src/main.rs, in two processes.  Process A (index 0, the lower *)
(* stack) registers the service SERIAL and echoes what is typed; process B *)
(* (index 1) looks the service up and then executes a privileged           *)
(* instruction on purpose.                                                 *)
(*                                                                         *)
(* Only the memory of a process that the program uses is kept: A's `msg`   *)
(* and B's `pid`.  The banners and reports both print are left out; the    *)
(* SYS_PRINTs of an echo are one step.                                     *)
(*                                                                         *)
(* As in Scheduler, X_Word is definition X with a plausible bug.           *)
(***************************************************************************)
EXTENDS Kernel, SequencesExt

CONSTANT SERVICE_NAME_SERIAL

(* Where the program can be: `start` is common, the rest is A's and B's.     *)
Label == {"start", "recv", "dispatch", "echo", "yield", "lookup", "hlt"}

A == 0
B == 1

ASSUME EchoAssumption ==
    /\ NumTasks = 2
    /\ MayFault = {B}
    /\ BadBuffer = {}
    /\ Point = Label
    /\ Entry = "start"
    /\ SERVICE_NAME_SERIAL \in Name

VARIABLES msg,       \* A's message buffer, as a set: {} before the first message
          pid,       \* what B's lookup returned; NOT_FOUND before it
          typed,     \* history: the device messages that were serial input
          echoed     \* history: the numbers of the messages A has echoed

progVars == <<msg, pid, typed, echoed>>
echoVars == <<kernelVars, progVars>>

EchoInit ==
    /\ KernelInit
    /\ msg = {}
    /\ pid = NOT_FOUND
    /\ typed = {}
    /\ echoed = <<>>

At(i, label) == cpu.task = i /\ cpu.pc = label

--------------------------------------------------------------------------------
(* Process A: sys_reg_service, then the loop.                                *)
RegisterSerial ==
    /\ At(A, "start")
    /\ SysRegService(SERVICE_NAME_SERIAL, "recv")
    /\ UNCHANGED progVars

Recv ==
    /\ At(A, "recv")
    /\ \/ SysRecv(1, "dispatch") /\ msg' = init_mailbox
       \/ SysRecv(0, "yield") /\ UNCHANGED msg
    /\ UNCHANGED <<pid, typed, echoed>>

(* msg.label == 3: only serial input is echoed.                              *)
Dispatch_AnyLabel ==
    /\ At(A, "dispatch")
    /\ UserStep("echo")
    /\ UNCHANGED <<ipcVars, progVars>>
Dispatch ==
    /\ At(A, "dispatch")
    /\ UserStep(IF \E m \in msg : m.label = SERIAL THEN "echo" ELSE "recv")
    /\ UNCHANGED <<ipcVars, progVars>>

Echo ==
    /\ At(A, "echo")
    /\ SysNoEffect(0, "recv")
    /\ \E m \in msg : echoed' = Append(echoed, m.data)
    /\ UNCHANGED <<msg, pid, typed>>

Yield ==
    /\ At(A, "yield")
    /\ SysYield("recv")
    /\ UNCHANGED <<ipcVars, progVars>>

ProgramA == RegisterSerial \/ Recv \/ Dispatch \/ Echo \/ Yield

--------------------------------------------------------------------------------
(* Process B: the delay loop, the lookup, the HLT in ring 3.                 *)
Delay ==
    /\ At(B, "start")
    /\ UserStep("lookup")
    /\ UNCHANGED <<ipcVars, progVars>>

Lookup ==
    /\ At(B, "lookup")
    /\ \E ret \in {U64_MAX, 0} \cup TaskId :
          /\ SysGetServicePid(SERVICE_NAME_SERIAL, ret, "hlt")
          /\ pid' = ret
    /\ UNCHANGED <<msg, typed, echoed>>

Halt ==
    /\ At(B, "hlt")
    /\ GeneralProtection
    /\ UNCHANGED <<ipcVars, progVars>>

ProgramB == Delay \/ Lookup \/ Halt

--------------------------------------------------------------------------------
(* The CPU executes the process it is on, in user mode or on the way there.  *)
Execute(i) ==
    /\ cpu.task = i
    /\ \/ ProgramA
       \/ ProgramB
       \/ (EnterUser \/ SysRet) /\ UNCHANGED <<ipcVars, progVars>>

Tick == Timer /\ UNCHANGED progVars

Press == Keyboard /\ UNCHANGED progVars

Type ==
    /\ Serial
    /\ typed' = typed \cup {irqs'}
    /\ UNCHANGED <<msg, pid, echoed>>

EchoNext ==
    \/ \E i \in {A, B} : Execute(i)
    \/ Tick
    \/ Press
    \/ Type

(* The timer keeps ticking, and a process that is given the CPU over and     *)
(* over executes: an interrupt handler is shorter than a timer period.       *)
EchoFairness ==
    /\ WF_echoVars(Tick)
    /\ \A i \in {A, B} : SF_echoVars(Execute(i))

EchoSpec == EchoInit /\ [][EchoNext]_echoVars /\ EchoFairness

--------------------------------------------------------------------------------
(* Type invariant of the program's memory and the histories.                 *)
EchoTypeOK ==
    /\ msg \subseteq DeviceMessage
    /\ pid \in {NOT_FOUND, 0} \cup TaskId
    /\ typed \subseteq 1 .. MaxIrqs
    /\ echoed \in Seq(1 .. MaxIrqs)

(* What A prints is what was typed on the serial line, in the order it was   *)
(* typed and nothing twice, whatever the interleaving of interrupts,         *)
(* preemption and B's fault with A's loop.                                   *)
EchoInOrder ==
    /\ \A j \in DOMAIN echoed : echoed[j] \in typed
    /\ \A j, k \in DOMAIN echoed : j < k => echoed[j] < echoed[k]

(* B's fault never kills A, whenever it strikes (GPF handler: "kill the bad  *)
(* process", taken from CURRENT_TASK_IDX).                                   *)
OnlyTheFaultyDies == task_state[Pid(A)] = "Ready"

(* Every serial byte is echoed in the end unless newer input has come in the *)
(* meantime; in particular one that arrives between A's unsuccessful         *)
(* SYS_RECV and its HLT is not slept through.                                *)
InputIsEchoed ==
    \A k \in 1 .. MaxIrqs :
        (k \in typed) ~> (k \in Range(echoed) \/ irqs > k)

(* B is killed, once and for good.                                           *)
FaultyIsKilled == <>[](task_state[Pid(B)] = "Terminated")

(* B finds A under the name A registered, or nothing.                        *)
LookupFindsServer == pid \in {NOT_FOUND, Pid(A)}
================================================================================
