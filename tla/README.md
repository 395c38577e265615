# Verification of the microkernel: boot, preemption, syscalls, IPC, executor

TLA+ models of the kernel under `kernel/src/` and of the user program
`user/init/src/main.rs`, checked with TLC on small instances. The safety of every
part (scheduler, trap frames, syscall layer, init program, executor, boot memory,
serial line) is also proved with TLAPS for every value of the constants; liveness is
model-checked. `PROJECT.json` lists components, runs, mutants, the map from every
definition to the source lines it models, findings, hazards and theorems.

## The system

One CPU, one address space. `kernel_main` builds two user processes from one
program image, one asynchronous kernel task, enables interrupts and `iretq`s
into process A. From then on the kernel is a set of handlers.

| Part | State | Operations |
|---|---|---|
| scheduler (`interrupts.rs`) | `TASK_LIST`, `CURRENT_TASK_IDX`, `CURRENT_TASK_ID`, `TICK_COUNT`; per task `state`, `priority`, `kernel_rsp`, `kernel_stack_top` | `schedule_next`, called by the timer, #GP and #PF handlers |
| trap entry (`handler_wrapper!`, `syscall_entry`, `gdt.rs`) | frames on stacks, `TSS.RSP0`, IF | push the context, call the handler, pop a context from the address it returns; `set_interrupt_stack` |
| syscalls (`syscall/mod.rs`) | `SERVICE_REGISTRY`, `INIT_MAILBOX`, `TASK_REGISTRY` | print, exit, send, recv, yield, set_priority, reg_service, get_service_pid |
| device handlers (`interrupts.rs`) | `INIT_MAILBOX` | keyboard and serial interrupt: read a byte, post a `Message` |
| executor (`task/executor.rs`) | `tasks`, `task_queue`, `waker_cache` | `spawn`, `run_ready_tasks` (from every interrupt), `run`, `sleep_if_idle`, `TaskWaker` |
| kernel task IPC (`task/mod.rs`) | `Task.mailbox`, `Task.waker`, `Task.state` | `IpcReceiveFuture::poll` against `SYS_SEND` |
| scancode stream (`task/keyboard.rs`) | `SCANCODE_QUEUE`, `WAKER` | `add_scancode`, `ScancodeStream::poll_next` |
| memory (`mem.rs`, `allocator.rs`, `loader.rs`, `setup_user_stack`) | the allocator's cursor `next`, the page table, the kernel heap | allocate a frame, map the heap, load the segments, map the stacks, leak kernel stacks |
| serial line (`main.rs` step 6, `serial.rs`, `lib.rs`) | the UART's FIFO, the controller's request register and mask | reset the controller, program the UART, unmask IRQ 4, read one byte per interrupt |
| init program (`user/init`) | stack variables `msg`, `pid` | A: register, then receive, echo or yield; B: look up, then fault |

How they interact: an interrupt of either kind runs the executor
(`poll_kernel_tasks`), which leaves `CURRENT_TASK_ID` at 0; a tick may switch
processes; a syscall identifies its caller by `CURRENT_TASK_ID` and finds other
tasks in `TASK_REGISTRY`, where the executor but not `kernel_main` puts tasks;
input travels from a handler through the one-slot `INIT_MAILBOX` to whoever calls
`SYS_RECV`; `SYS_YIELD` enables interrupts in the middle of a syscall. Before any of
this, steps 2 to 5 of `kernel_main` build the address space with one frame
allocator and one page table for everybody.

What makes it hard: a trap may strike in user code, in the HLT of a syscall, on
the way back from it and in `kernel_main`, and pushes on a different stack each
time; five pieces of state must change together at a switch; a fault may strike
inside a syscall that holds a lock; wake-ups race with registration and with
sleeping; four push and pop sequences in assembly must mirror each other; an
edge-triggered interrupt must not be left high. The `hazards` of `PROJECT.json` give each of these with its line.

## Modules

| Module | Models | Notes |
|---|---|---|
| `VirtualCpus` | abstract specification | every process has a CPU of its own: a context changes only by its owner's steps, the dead never run |
| `Scheduler` | `handler_wrapper!`, `schedule_next`, timer and fault handlers, `SYS_YIELD`, end of `kernel_main` | refines `VirtualCpus` |
| `Kernel` | all of `handle_syscall`, keyboard and serial handlers | extends `Scheduler`, refines it |
| `TrapFrame` | `handler_wrapper!`, `syscall_entry`, the ignition of `kernel_main`, the frame of `create_user_process`, the GDT's selectors | register by register; refines `VirtualCpus` |
| `AddressSpace` | steps 2 to 5 of `kernel_main`: `mem.rs`, `allocator.rs`, `loader.rs`, `setup_user_stack`, kernel stacks | stands alone |
| `Uart` | `PICS.initialize`, step 6, the read in `serial_handler_inner`; FIFO and edge detection as external devices | stands alone |
| `SyscallTrace` | `Kernel` with a history of the syscall just completed | for statements about results |
| `EchoSystem` | `_start` of the init program, as processes A and B on `Kernel` | the booted system |
| `Executor` | `Executor`, `TaskWaker`, `IpcReceiveFuture`, `ScancodeStream`, `SYS_SEND` | stands alone |
| `MC...` | model values for TLC | one per checked module |
| `SchedulerProofs`, `KernelProofs`, `TrapFrameProofs`, `ExecutorProofs`, `EchoProofs`, `AddressSpaceProofs`, `UartProofs` | theorems about the module of that name | inductive invariants, lemmas and proofs; no definitions the runs use. `EchoProofs` builds on `KernelProofs`, and that on `SchedulerProofs` |
| `BootProofs` | theorems about the outcome of the boot | builds on `AddressSpaceProofs` |

Definitions named `X_Word` are definition `X` with a plausible bug. The
specifications do not use them; the `mutants` of `PROJECT.json` say which
property fails when one takes the place of `X`.

### Scheduler

*Atomicity.* All IDT entries are interrupt gates and SFMASK clears IF, so a
handler or a syscall cannot be interrupted and is one action. The exceptions are
modelled as places of their own (`cpu.mode`): `boot` (between `sti` and the first
`iretq`), `hlt` (inside `SYS_YIELD`) and `sysret` (behind it).

*Memory.* The variable `stack` holds the newest frame pushed on each stack; a
process has a kernel stack, which a trap from ring 3 uses through `TSS.RSP0`, and
a user stack, on which its syscalls run. A frame is the context that was
interrupted plus the flag `err` for the error code of #GP and #PF, which
`handler_wrapper!` never pops: resuming such a frame leads to mode `wild`. One
frame per stack is enough because a trap from ring 3 starts again at the top of
the kernel stack and a trap in ring 0 comes only from `hlt`, `sysret` or `boot`,
where the previous frame on that stack has been popped.

*Correspondence.* `ScheduleNext` is `schedule_next` with the values its caller has
already written as parameters; `SwitchTo` its inner half; `NextIdx` its search,
written as the least distance to a Ready process, and the fall-through when there
is none. `TimerIrq`, `DeviceIrq`, `GeneralProtection`, `PageFault` are the
handlers, `EnterUser` the end of `kernel_main`, `SysYield` and `SysRet` the
interruptible syscall. `UserStep` stands for anything else a process does.
`UnhandledException` is an exception for which the IDT has no entry (#DE, #UD): the
double fault handler panics, and the panic handler halts (`HaltForever`) when no
debug device ends the machine.

*Abstractions.* A program is a set of points; registers are part of the point
(`TrapFrame` looks into them). The
`kernel_main` context between `mov rsp` and `iretq` already uses process 0's
kernel stack, the model keeps it on the boot stack: nothing else uses that kernel
stack until process 0 is in ring 3, and a frame pushed there lies below the part
of the initial frame that is still to be popped. A process is assumed not to
write to the other's stack, which the shared page table would allow. Each
`try_lock` of `TASK_LIST` succeeds, because its holders run with IF clear and
cannot fault.

### Kernel

A syscall's parameters are its arguments, its result `ret` and the point where the
caller goes on. Processes are arbitrary: any syscall at any time. `SysRecvFault`
and `SysSendFault` are the syscalls whose pointer leads to an unmapped page; the
fault arrives in ring 0, so its frame is on the user stack, and `SYS_RECV` still
holds `INIT_MAILBOX` (`mailbox_held`). `SysNoEffect` is `SYS_PRINT`, a `SYS_SEND`
with a pointer below `0x2000_0000` and an unknown number. The device byte is
represented by the number of its interrupt. As configured, every kernel task ends
at its first poll; the executor proper is module `Executor`. History variables:
`irqs`, `last_read`, `registrar`.

### EchoSystem

The labels are the places of `_start` between its syscalls; the actions conjoin
the program's branch with the syscall's action in `Kernel`. The banners are left
out, and the `SYS_PRINT`s of an echo are one step. History: `typed`, `echoed`.

### TrapFrame

A word is a tuple that says what it is: a process's own value of a register, a
pointer into a stack, an instruction pointer, a selector. Stacks are sequences of
words, so a frame pushed in the wrong place overwrites something and registers
popped in the wrong order are seen. Code that runs with IF clear is one step;
where IF is set (the ignition, and `syscall_entry` behind the HLT of `SYS_YIELD`)
every instruction is a step and an interrupt may come between any two. The three MOVs
by which `syscall_entry` turns the caller's registers into C arguments are applied in
their order (`ToCAbi`), each reading what the previous ones have left. A process calls
with the registers it has filled or, back from an earlier call, with those that its
`asm!` blocks, which name only RAX, RCX and R11 as changed, rely on (`CanCall`). An
interrupt returns to any process: the choice is `Scheduler`'s subject. Faults, with
their error code, are `Scheduler`'s too. The 16-byte alignment of RSP at an interrupt is
left out (it leaves a gap that `iretq` undoes).

### AddressSpace

Sizes are counted in units of 1 KiB, so heap, stacks and pages have their real
sizes; addresses are closer together than in the code and a page table has 8
entries, which makes `map_to` need new tables in the middle of a loop. Mapping one
page is one step. Memory map and program image are chosen in the initial state.
`FramesUpTo` is the `flat_map` of `usable_frames()`, a recursive function over the
regions of the map; `UsableFrames` is its value at the last one. `Fits` says, in terms
of the map and the image alone, when a boot must succeed: heap, segments and stacks
share no page, and there is a usable frame for each of their pages and for each page
table on the way that the boot loader has not set up.
`ram` records what was written through the page table, so that a segment can be
compared with the file. Of the kernel heap only the total is kept: nothing is
freed during the boot, and `SmallObjects` bounds the `Arc`s and queues of a task.
Assumed of the boot loader: no page has addresses of two usable regions
(`MemoryMapAssumption`; `usable_frames()` would list that page twice), and its page
tables hang in one another (`BootTablesAssumption`). Regions may begin and end anywhere
in a page, as those of a BIOS memory map do, and reserved regions may be anything.
`FramesListed` and `FramesUsable` say what the code does then: a frame is never wholly
reserved (`PartlyUsable`), and is wholly usable (`InUsableRegion`) if the usable regions
consist of whole pages (`WholePages`). Assumed of the image: no segment is empty or has
more bytes in the file than in memory (`LoadSegment`, `ImageAssumption`); of the constants: they are
natural numbers, and there is a process (`SizeAssumption`), and the kernel heap holds
the kernel stacks (`HeapAssumption`: 2 * 32 and 16 KiB and some `Arc`s, of 100 KiB).

### Uart

The line is high while the FIFO holds `Trigger` (14) bytes or a character timeout
is pending; the controller latches a request when the line rises and at no other
time, and keeps it when the line falls again, as the emulated 8259 does. So a request
can outlive the bytes it was raised for: step 6 of `kernel_main` resets the FIFO behind
the controller's back. `serial_handler_inner` reads the port without a look at the line
status and posts what it gets; an empty FIFO yields a 0 that nobody typed. The history
variable `blanks` counts such messages, and `OneBlankAtMost` says that there is at most
one, at the start. `Backlog` is how full the FIFO gets
before the handler runs, which depends on how long interrupts stay masked. What
becomes of the byte is `Kernel`'s subject. Bytes lost to a full FIFO are not modelled.

### Executor

`in_handler` chooses between the two callers of `run_ready_tasks`. From a handler
(as `kernel_main` sets it up) nothing interleaves with it. From `Executor::run`
(the "backup path" of `executor.rs`) an interrupt may come between any two steps,
the handlers find the executor locked and only add scancodes; there is no user
process then, so no `SYS_SEND`. A receiver's future may await any number of
messages and complete at any time. `add_scancode` is called by no handler in the
repository; it is modelled as its comment intends, from a keyboard handler.

## Runs

| Run | Checks | Instance |
|---|---|---|
| `SchedulerThree` | `SchedTypeOK`, `NeverReturnsToFault`, `SuspendedContextsIntact`, `IdentityNeverForeign`, refinement of `VirtualCpus`, `TurnApproaches`, `EveryLiveProcessRuns` | 3 processes, 1 may fault or crash, 2 program points, tick width 6; 494 646 states |
| `KernelTwo` | `KernelTypeOK`, `ServicesNeverForeign`, `MailInOrder`, refinement of `Scheduler` | 2 processes, 1 kernel task, 2 device interrupts, 1 name; 105 979 states |
| `EchoBoot` | `EchoTypeOK`, `EchoInOrder`, `OnlyTheFaultyDies`, `InputIsEchoed`, `FaultyIsKilled` | the booted system, 2 bytes of input; 171 460 states |
| `TrapFrameTwo` | `UserContextExact`, `SelectorsRight`, `ArgumentsArrive`, `FramesApart`, refinement of `VirtualCpus` | 2 processes; 33 857 states |
| `AddressSpaceBoot` | `MemTypeOK`, `FramesListed`, `FramesExclusive`, `FramesUsable`, `ImageLoaded`, `StacksUsable`, `BootVerdict`, `BootOutcome` | 3 memory maps, 100 images of up to 3 segments; 12 670 states |
| `UartPrompt` | `OneBlankAtMost`, `HighLineIsPending`, `InputIsTaken` | FIFO of 16, trigger 14, 30 bytes; 2 249 states |
| `ExecutorBoth` | `ExecTypeOK`, `NoLostWakeup`, `WokenOnce`, `RegistryIsExecutor`, `HandlerComesToEnd`, `MailIsRead`, `HandlerReturns`, `ScancodesAreRead` | both callers; 2 receivers and the keyboard task, as many queue slots as tasks, scancode queue of 2; 11 115 states |

Why the bounds are enough. Three processes let the search step over a dead one and
still have a choice; two points tell a stale frame from a current one; a slice is
5 ticks, as in the code. The tick count matters only modulo 5; its width 6, like
2^64, leaves the remainder 1, so that the short slice at the wrap occurs. Two
device interrupts make one overwrite the other, or arrive before and after a read.
In `ExecutorBoth` five scancodes overflow a queue of two with one being read. Two
processes give `TrapFrame` every pair of interrupted and resumed places; three
(1.26 million states) have been checked once and add nothing. The images of
`AddressSpaceBoot` have segments that end inside, at and behind a page boundary,
share a page, lie in the way of a stack; of its memory maps one is ample, one
suffices for some images only and one for none; in the first a usable region ends inside
a page, in the second one begins and ends inside a page, and the boot comes to use those
pages; the third consists of whole pages. 30 bytes fill the FIFO more than
twice. The proofs need none of these bounds.

Runs expected to fail, each a disagreement between the code and what it says:

| Run | The repository says | The code does |
|---|---|---|
| `SchedulerAllFault` | a fault never returns to the faulting context (`interrupts.rs:194`) | when the last live process faults, the search falls through and a faulting frame is popped |
| `KernelLostInput` | a handler puts the input into the mailbox (`IPC.md:12`) | a page fault inside `SYS_RECV` leaves `INIT_MAILBOX` locked; all later input is dropped |
| `KernelRegistry` | `SYS_EXIT` marks the process terminated (`syscall/mod.rs:106`), result 1 of `SYS_SEND` means that the target does not exist (`:139`) | processes are not in `TASK_REGISTRY`: nothing is marked, and 1 is the result for every live process |
| `EchoLookup` | `CURRENT_TASK_ID` identifies the caller (`task/mod.rs:24`) | an interrupt leaves it at 0, `SERIAL` is registered for task 0 |
| `UartBacklog` | serial input triggers IRQ 4 (`IPC.md:10`) | if 15 bytes have gathered, reading one leaves the line high; no edge follows, ever |

Five more disagreements show in the models without a run of their own.

* An exception without an IDT entry halts the machine, where `interrupts.rs:89` wants an
  error to switch to another process: `EveryLiveProcessRuns` has to except the mode
  `panic`.
* The processes of `main.rs:64` are not "mutually isolated": `AddressSpace.Reach`, the
  pages ring 3 can access, does not depend on the process, because there is one page
  table.
* `usable_frames` is to avoid reserved areas (`mem.rs:32`). The runner boots by BIOS
  (`runner/src/main.rs:4`), whose usable region below 640 KiB commonly ends at 0x9fc00;
  `step_by(4096)` (`mem.rs:37`) then lists the frame at 0x9f000, which is reserved in
  part, and the allocator hands it out. Hence `FramesListed` and `FramesUsable` promise a
  wholly usable frame only under `WholePages`; without that condition TLC finds both
  violated on the instance of `AddressSpaceBoot`.
* Read-only segments are protected for the sake of "W^X" (`loader.rs:56`), but
  `NO_EXECUTE` is never set: `ImageLoaded` is about reading and writing only.
* `serial_handler_inner` may post one byte that was not typed (`OneBlankAtMost`).

### Fairness

* `SchedFairness`: weak fairness of the timer. IRQ 0 is unmasked and acknowledged
  in every handler; IF is set in every mode but `wild` and `panic`. Nothing is
  assumed of the processes.
* `EchoFairness`: the timer, and strong fairness of each process's execution: it
  is interrupted over and over, but a handler takes less than a timer period, so a
  process that is given the CPU again and again gets on. No fairness of input.
* `ExecFairness`: the executor's code is executed and the timer ticks. No fairness
  of sends or scancodes.
* `MemSpec`: the CPU executes `kernel_main`, with interrupts disabled.
* `UartFairness`: the boot goes on, a pending request is served in the end (masked
  stretches are finite: `HandlerComesToEnd`, `HandlerReturns`, and syscalls have no
  loops), the UART measures the timeout. No fairness of input.

`AddressSpaceBoot` and the two `Uart` runs disable the deadlock check: `kernel_main`
ends, and with all input read the line may stay silent.

## Proofs

`SchedulerProofs` (for any `NumTasks`, `Point`, `TickModulus`, `MayFault`):

* `SchedTypeCorrect`: `SchedSpec => []SchedTypeOK`.
* `FaultsNeverReturn`, `ContextsStayIntact`, `IdentityIsOwn`,
  `SchedulerImplementsVirtualCpus`, assuming `SomeoneSurvives` (`MayFault # Idx`):
  some process never faults. `SchedulerAllFault` shows that the assumption is
  needed.
* `EveryTurnApproaches`: `SchedSpec => [][TurnApproaches]_schedVars`, whoever faults.
  Every tick leaves a waiting process fewer ticks away from the CPU than before
  (`TicksToWait`) or puts it there, and no fault, syscall or other interrupt puts its
  turn off; so it waits at most 5 ticks for each other process. This is the safety half
  of `EveryLiveProcessRuns`: what is left to TLC is that a fair timer ticks. The proof
  is that the search passes nobody over
  (`NextIdxNearest`), that the slice runs down also across the wrap of the tick count
  (`SliceRunsDown`) and that all priorities are equal (`EqualPriorities`).

`SuspendedContextsIntact` is not inductive: whether the next trap destroys a
parked frame depends on where it will push. The inductive invariant `SchedInv`
adds that the CPU, `CURRENT_TASK_IDX` and `TSS.RSP0` name the same live process
(`CurrentConsistent`), that only processes in `MayFault` have died
(`DeadHaveFaulted`, hence the search finds somebody, by `NextIdxRunnable`), that
the initial frame waits as long as `kernel_main` has not been left
(`BootFrameIntact`), and that every other process is parked on one of its own
stacks with a frame that can be resumed in its mode (`OthersParked`). A handler
entered in such a state reaches such a state and changes no context
(`ScheduleNextEffect`), so every step is one of `VirtualCpus` (`StepCorrect`).
TLC has confirmed `SchedInv` on the instance of `SchedulerThree`.

`KernelProofs`: `KernelImplementsScheduler` rests on the fact that
`TASK_REGISTRY` and the ids of processes are disjoint (`RegistryApart`), so no
syscall can reach a process's state or priority. That is a fact about the code and not
what `handle_syscall` says (`syscall/mod.rs:106` and `:169`; run `KernelRegistry`); if
the registry did contain the processes, the scheduler would need actions for a
termination and for a change of priority, and this theorem a new proof. With it the scheduler's theorems
hold of the kernel (`KernelNeverReturnsToFault`, `KernelImplementsVirtualCpus`,
`KernelTurnApproaches`: no syscall delays anybody's turn).
`KernelTypeCorrect`, `ServicesAreOwn` (from `IdentityNeverForeign`) and
`MailStaysInOrder` (with `last_read <= irqs`) are proved for any number of
processes, names and interrupts.

`UartProofs` (for any FIFO size, trigger level and amount of input):
`OneBlankMessage`, and `PromptLineIsPending` under the assumption
`Backlog <= Trigger`, which `UartBacklog` shows to be needed. The invariant is
`HighLineIsPending` with the bound on the FIFO (`BacklogBounded`), without which the
read of one byte need not take the line down. `OneBlankAtMost` is inductive with the
types and with the fact that nothing has been read before interrupts are enabled
(`BlankStep`): a second blank would need a request without a byte, and behind the first
one every request is raised by a byte that only its own interrupt reads.

`TrapFrameProofs` (for any number of processes): `RegistersComeBack`,
`SegmentsMatchCode`, `ArgumentsAreTheCallers`, `FramesStayApart`,
`TrapFrameImplementsVirtualCpus`. That the registers are right in ring 3 is not
inductive: they come from a frame, which came from a context in the middle of
`syscall_entry` or of the ignition, which came from another frame. `TrapInv` says of
the process on the CPU in which `Context` it is (in ring 3; in `SYS_YIELD`; behind so
many pops of `syscall_entry`; behind so many pops of `kernel_main`), that is, what its
instruction and stack pointers, the registers already restored and the words on its
three stacks are; that RSP0, the flags and the selectors fit; and of every other
process that the frame at `kernel_rsp` is on top of a stack of its own and holds
exactly what brings such a context back (`Parked`). Four lemmas carry the argument: a
trap parks the process it strikes (`TrapParks`), `iretq` to a parked process yields a
context of it (`ParkedResumes`), what happens on one process's stacks leaves the
others parked (`ParkedStays`), and the instructions of a process move only itself
(`OwnStep`). TLC has confirmed `TrapInv` on the instance of `TrapFrameTwo`.

`ExecutorProofs` (for any finite set of tasks, a queue with a slot for each of them
and any scancode queue, `ExecutorAssumption`): `ExecTypeCorrect`, `NoWakeupIsLost`,
`TasksAreWokenOnce`, `RegistryMatchesExecutor`, and `SpawnNeverPanics`
(`expect("Task queue full")` is not reached). `NoLostWakeup` is not inductive because
`TaskWaker` drops a wake-up when the queue is full. `ExecInv` adds that only the
keyboard task, and only outside the handlers, can be queued twice (`QueueBounded`),
that a queued task exists and is otherwise not being polled and its waker is not in
the stream (`QueuedTasks`), and what each step of `poll_next` relies on
(`StreamSteps`). A queue that holds nothing twice and lacks a task has room for it
(`RoomInQueue`, a pigeonhole argument); so a wake-up that
finds the queue full is one for a task that is queued already.

`HandlersComeToEnd` proves `HandlerComesToEnd`: inside a handler every step of
`run_ready_tasks` makes `StepsLeft` smaller. It counts 4 for each entry of the queue, 3
for each scancode, 1 for each message waiting, and the stage of the poll under way: a
future goes round again only after it has consumed something, no poll queues a task, and
nothing arrives while a handler runs with IF clear. `HandlerReturns`, which adds
fairness, is checked with TLC.

`EchoProofs` (for any number of ticks and device interrupts): `EchoImplementsKernel`,
every step of the init program's two processes is one that `Kernel` allows its
clients, so the theorems about the kernel hold of the booted system. From them follow
`OnlyBDies`, `EchoTypeCorrect` and `EchoStaysInOrder`. `EchoInv` adds that every
serial message in the mailbox or in A's buffer has been typed (`MailWasTyped`) and
that, between A's `SYS_RECV` and its echo, the buffer holds the newest message
delivered and all that has been echoed is older (`EchoPending`). Where A is in its
program is read from its context, on the CPU or in the frame it is parked in: a
switch does not move it, which is `KernelImplementsVirtualCpus` at work.

`AddressSpaceProofs` (for any memory map, image, page size, table size, heap, stacks
and number of processes): `MemTypeCorrect`, `EveryFrameHasOneUse`, `FramesAreUsable`,
`ImageIsLoaded`, `StacksAreUsable`. `PagingInv` says that
every frame in use lies before the allocator's cursor and has one use, and that the
page tables form a tree: then the tables `map_to` lacks for a page are the lowest
ones on its path, and as many frames as it creates tables are taken, in order.
`LoadInv` says how far each loop has come: the pages behind it are mapped with the
flags of that loop, a finished segment shows its bytes with its final flags, and no
page of the present segment or of a stack belongs to the heap or to a finished
segment, since `map_to` fails on a page already mapped; so neither copying nor
protecting disturbs what is finished.

`EveryUsableFrameIsListed` (`FramesListed`) says that `usable_frames()` lists every frame
that lies wholly in a usable region, none twice, and none without a usable address,
wherever in a page the regions begin and end. `step_by` takes one address of each page
from that of the start on (`RegionPages`); each of these is in the region, and a page of
another region has none of them (`RegionsApart`). The proof then goes over
the regions: one more region appends its frames, which no earlier region has
(`OneMoreRegion`, `EveryMapIsListed`). A frame with a usable address is wholly usable if
the regions consist of whole pages (`MeetsIsAcceptable`), which is where
`FramesAreUsable` gets its second half from. The library's induction theorems take a predicate
as a parameter, which the provers cannot instantiate; the lemma `Induction` states
induction for a set of numbers instead, from the least element of its complement
(`WFMin`).

`BootProofs` (same generality): `BootVerdictIsRight`, the safety half of `BootOutcome`. A
boot panics only if memory map and image do not fit (`~Fits`), and is finished only if
they do. `BootInv` says what the boot has used so far: the frames taken are the pages
mapped and the tables created, and the tables are those on the paths of the pages
mapped (`Accounts`); the demands are served in turn, those before the present one completely, the present one
up to the page at hand, those behind it not at all (`Progress`, by `Served`, `Current`
and `Ahead`); and the heap has given out what the kernel stacks so far need
(`HeapAccount`), which `HeapAssumption` makes always enough. So when `map_to` finds no
frame, the pages and tables needed are more than the usable frames (`OutOfFrames`, a
counting argument), and when it finds the page mapped, two demands share it. TLC has
confirmed `BootInv` on the instance of `AddressSpaceBoot`.

Only model-checked: liveness (`EveryLiveProcessRuns`, `InputIsEchoed`,
`FaultyIsKilled`, `BootOutcome`, `MailIsRead`, `HandlerReturns`, `ScancodesAreRead`,
`InputIsTaken`), which the prover does not handle; of `EveryLiveProcessRuns`,
`BootOutcome` and `HandlerReturns` the part that is not about fairness is proved, as
`TurnApproaches`, `BootVerdict` and `HandlerComesToEnd`. And what the five runs expected
to fail show.

## Not modelled

Serial output (formatting and port writes under a lock that is only held with
interrupts masked); code nothing calls (`switch_context`, `fork_ret`,
`jump_to_user_mode`, `init_serial_hardware` beyond its duplicate in `kernel_main`,
`process.rs`, `common`, `spawn_static`); the free list of the heap
(`linked_list_allocator` is a library); key decoding (`pc_keyboard`); the host-side
runner, the empty programs, the test harness.

## Plan

Done: every component that keeps state is modelled, and every safety invariant, action
property and refinement that a passing run checks is proved.

Left:

1. `Executor`: an abstract specification of a mailbox that wakes its reader, and
   `Executor` shown to implement it.
2. `Uart` and `Kernel` composed: the byte read by `serial_handler_inner` followed
   from the FIFO into `INIT_MAILBOX`.
