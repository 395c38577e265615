-------------------------------- MODULE Executor --------------------------------
(***************************************************************************)
(* The asynchronous kernel tasks: kernel/src/task/executor.rs, the two     *)
(* futures a task can wait on (IpcReceiveFuture of kernel/src/task/mod.rs, *)
(* ScancodeStream of kernel/src/task/keyboard.rs) and the two places that  *)
(* wake a task (SYS_SEND, add_scancode).                                   *)
(*                                                                         *)
(* run_ready_tasks is called in two ways, one of which kernel_main settles *)
(* for (in_handler).  TRUE: by poll_kernel_tasks in an interrupt handler,  *)
(* with interrupts masked, so that nothing else happens until the queue is *)
(* empty.  FALSE: by Executor::run, the alternative main loop, with        *)
(* interrupts enabled between any two of its steps and no user process to  *)
(* make a syscall.                                                         *)
(*                                                                         *)
(* A definition X_Word is definition X with a plausible bug; nothing uses  *)
(* it, it shows which property depends on X.                               *)
(***************************************************************************)
EXTENDS Naturals, Sequences, FiniteSets

CONSTANTS Receiver,        \* tasks whose future awaits IpcReceiveFutures
          Reader,          \* tasks that loop on ScancodeStream: none or one
          NoTask,          \* CURRENT_TASK_ID = 0
          QueueCapacity,   \* ArrayQueue::new(100) of the executor
          ScanCapacity,    \* ArrayQueue::new(100) of SCANCODE_QUEUE
          MaxSends,        \* bound on the SYS_SENDs
          MaxScancodes     \* bound on the scancodes that arrive

KTask == Receiver \cup Reader

ASSUME ExecutorAssumption ==
    /\ IsFiniteSet(KTask)
    /\ Receiver \cap Reader = {}
    /\ \A s, t \in Reader : s = t
    /\ NoTask \notin KTask
    /\ QueueCapacity \in Nat
    /\ Cardinality(KTask) <= QueueCapacity
    /\ ScanCapacity \in Nat \ {0}
    /\ MaxSends \in Nat
    /\ MaxScancodes \in Nat

VARIABLES in_handler,      \* who calls run_ready_tasks, see above
          tasks,           \* keys of Executor.tasks
          registry,        \* keys of TASK_REGISTRY
          task_queue,      \* Executor.task_queue
          waker_cache,     \* keys of Executor.waker_cache
          state,           \* Task.state
          mailbox,         \* Task.mailbox, an Option: {} or {message}
          waker,           \* waker[t]: Task.waker of t is Some
          current_id,      \* CURRENT_TASK_ID; the task being polled
          exec,            \* where the executor is
          stream_open,     \* SCANCODE_QUEUE is initialised
          scancodes,       \* number of scancodes in SCANCODE_QUEUE
          stream_waker,    \* WAKER of the stream, an Option: {} or {task}
          sends,           \* history: messages sent so far
          arrived          \* history: scancodes arrived so far

taskVars == <<tasks, registry, waker_cache, current_id>>
ipcVars == <<mailbox, waker, sends>>
streamVars == <<stream_open, scancodes, stream_waker, arrived>>
execVars == <<in_handler, taskVars, ipcVars, streamVars, task_queue, state, exec>>

--------------------------------------------------------------------------------
ExecInit ==
    /\ in_handler \in BOOLEAN
    /\ tasks = {}
    /\ registry = {}
    /\ task_queue = <<>>
    /\ waker_cache = {}
    /\ state = [t \in KTask |-> "Ready"]
    /\ mailbox = [t \in KTask |-> {}]
    /\ waker = [t \in KTask |-> FALSE]
    /\ current_id = NoTask
    /\ exec = "boot"
    /\ stream_open = FALSE
    /\ scancodes = 0
    /\ stream_waker = {}
    /\ sends = 0
    /\ arrived = 0

(* ArrayQueue::push, whose error TaskWaker::wake_task ignores.               *)
Pushed(t) ==
    IF Len(task_queue) < QueueCapacity THEN Append(task_queue, t) ELSE task_queue

(* Executor::spawn, in kernel_main: a full queue is a panic.                 *)
Spawn(t) ==
    /\ exec = "boot"
    /\ t \notin tasks
    /\ tasks' = tasks \cup {t}
    /\ registry' = registry \cup {t}
    /\ task_queue' = Pushed(t)
    /\ exec' = IF Len(task_queue) < QueueCapacity THEN "boot" ELSE "panic"
    /\ UNCHANGED <<in_handler, waker_cache, current_id, state, ipcVars, streamVars>>

(* kernel_main has spawned its tasks and enables interrupts, or calls run.   *)
Start ==
    /\ exec = "boot"
    /\ exec' = IF in_handler THEN "idle" ELSE "loop"
    /\ UNCHANGED <<in_handler, taskVars, ipcVars, streamVars, task_queue, state>>

--------------------------------------------------------------------------------
(* run_ready_tasks: one round of its loop.  An id whose task is gone or not  *)
(* Ready is dropped.                                                         *)
PopTask ==
    /\ exec = "loop"
    /\ task_queue # <<>>
    /\ task_queue' = Tail(task_queue)
    /\ LET t == Head(task_queue)
       IN  IF t \in tasks /\ state[t] = "Ready"
           THEN /\ exec' = "poll"
                /\ current_id' = t
                /\ waker_cache' = waker_cache \cup {t}
           ELSE UNCHANGED <<exec, current_id, waker_cache>>
    /\ UNCHANGED <<in_handler, tasks, registry, state, ipcVars, streamVars>>

RunEnds ==
    /\ exec = "loop"
    /\ task_queue = <<>>
    /\ current_id' = NoTask
    /\ exec' = IF in_handler THEN "idle" ELSE "sleep"
    /\ UNCHANGED <<in_handler, tasks, registry, waker_cache, ipcVars, streamVars, task_queue, state>>

(* TASK_REGISTRY.write().remove.                                             *)
Deregister_Forgotten(t) == UNCHANGED registry
Deregister(t) == registry' = registry \ {t}

(* The future returns Poll::Ready.                                           *)
PollReady ==
    /\ exec = "poll"
    /\ current_id \in Receiver
    /\ tasks' = tasks \ {current_id}
    /\ Deregister(current_id)
    /\ waker_cache' = waker_cache \ {current_id}
    /\ exec' = "loop"
    /\ UNCHANGED <<in_handler, current_id, ipcVars, streamVars, task_queue, state>>

(* The state a task without a message waits in.                              *)
Waiting_Ready == "Ready"
Waiting == "Blocked"

(* The future polls an IpcReceiveFuture: it takes the message and goes on,   *)
(* or leaves its waker and returns Poll::Pending.                            *)
PollReceive ==
    /\ exec = "poll"
    /\ current_id \in Receiver
    /\ IF mailbox[current_id] # {}
       THEN /\ mailbox' = [mailbox EXCEPT ![current_id] = {}]
            /\ state' = [state EXCEPT ![current_id] = "Ready"]
            /\ UNCHANGED <<waker, exec>>
       ELSE /\ waker' = [waker EXCEPT ![current_id] = TRUE]
            /\ state' = [state EXCEPT ![current_id] = Waiting]
            /\ exec' = "loop"
            /\ UNCHANGED mailbox
    /\ UNCHANGED <<in_handler, taskVars, sends, streamVars, task_queue>>

(* print_keypresses: ScancodeStream::new at the first poll, then poll_next   *)
(* again and again.  Its first pop: a scancode is consumed and the next      *)
(* poll_next follows, or the waker must be registered.                       *)
PollNext ==
    /\ exec = "poll"
    /\ current_id \in Reader
    /\ stream_open' = TRUE
    /\ IF scancodes > 0 THEN scancodes' = scancodes - 1 /\ UNCHANGED exec
                        ELSE exec' = "register" /\ UNCHANGED scancodes
    /\ UNCHANGED <<in_handler, taskVars, ipcVars, stream_waker, arrived, task_queue, state>>

(* WAKER.register(cx.waker()).                                               *)
Register ==
    /\ exec = "register"
    /\ stream_waker' = {current_id}
    /\ exec' = "recheck"
    /\ UNCHANGED <<in_handler, taskVars, ipcVars, stream_open, scancodes, arrived, task_queue, state>>

(* The second pop: a scancode that arrived in between, or Poll::Pending.     *)
Recheck_Skipped ==
    /\ exec = "recheck"
    /\ exec' = "loop"
    /\ UNCHANGED <<in_handler, taskVars, ipcVars, streamVars, task_queue, state>>
Recheck_SelfWake ==
    /\ exec = "recheck"
    /\ IF scancodes > 0
       THEN /\ scancodes' = scancodes - 1
            /\ stream_waker' = {}
            /\ exec' = "poll"
            /\ UNCHANGED task_queue
       ELSE /\ exec' = "loop"
            /\ task_queue' = Pushed(current_id)
            /\ UNCHANGED <<scancodes, stream_waker>>
    /\ UNCHANGED <<in_handler, taskVars, ipcVars, stream_open, arrived, state>>
Recheck ==
    /\ exec = "recheck"
    /\ IF scancodes > 0
       THEN /\ scancodes' = scancodes - 1
            /\ stream_waker' = {}
            /\ exec' = "poll"
       ELSE /\ exec' = "loop"
            /\ UNCHANGED <<scancodes, stream_waker>>
    /\ UNCHANGED <<in_handler, taskVars, ipcVars, stream_open, arrived, task_queue, state>>

(* sleep_if_idle, with interrupts disabled from the check to the HLT.        *)
SleepIfIdle ==
    /\ exec = "sleep"
    /\ exec' = IF task_queue = <<>> THEN "halted" ELSE "loop"
    /\ UNCHANGED <<in_handler, taskVars, ipcVars, streamVars, task_queue, state>>

RunStep ==
    \/ PopTask \/ RunEnds \/ PollReady \/ PollReceive
    \/ PollNext \/ Register \/ Recheck \/ SleepIfIdle

--------------------------------------------------------------------------------
(* SYS_SEND makes a Blocked target Ready and takes and calls its waker.      *)
WakeTarget_Always(t) ==
    /\ state' = [state EXCEPT ![t] = "Ready"]
    /\ waker' = [waker EXCEPT ![t] = FALSE]
    /\ task_queue' = Pushed(t)
WakeTarget(t) ==
    IF state[t] = "Blocked"
    THEN /\ state' = [state EXCEPT ![t] = "Ready"]
         /\ waker' = [waker EXCEPT ![t] = FALSE]
         /\ task_queue' = IF waker[t] THEN Pushed(t) ELSE task_queue
    ELSE UNCHANGED <<state, waker, task_queue>>

(* SYS_SEND to a kernel task, from a user process.                           *)
SysSend(t) ==
    /\ exec = "idle"
    /\ sends < MaxSends
    /\ sends' = sends + 1
    /\ t \in registry
    /\ mailbox' = [mailbox EXCEPT ![t] = {sends'}]
    /\ WakeTarget(t)
    /\ UNCHANGED <<in_handler, taskVars, streamVars, exec>>

(* An interrupt can be taken, and what its handler does to the executor: run *)
(* it (poll_kernel_tasks), or end its HLT.                                   *)
Interruptible == exec \in IF in_handler THEN {"idle"}
                          ELSE {"loop", "poll", "register", "recheck", "sleep", "halted"}
AfterInterrupt == IF exec \in {"idle", "halted"} THEN "loop" ELSE exec

Tick ==
    /\ Interruptible
    /\ exec' = AfterInterrupt
    /\ UNCHANGED <<in_handler, taskVars, ipcVars, streamVars, task_queue, state>>

(* SCANCODE_QUEUE is initialised and its push succeeds.                      *)
ScancodeFits_OffByOne == stream_open /\ scancodes <= ScanCapacity
ScancodeFits == stream_open /\ scancodes < ScanCapacity

(* WAKER.wake().                                                             *)
WakeReader_Forgotten == UNCHANGED <<stream_waker, task_queue>>
WakeReader ==
    /\ stream_waker' = {}
    /\ \/ stream_waker = {} /\ UNCHANGED task_queue
       \/ \E t \in stream_waker : task_queue' = Pushed(t)

(* add_scancode, from a keyboard handler.  A scancode that does not fit is   *)
(* dropped without waking anybody.                                           *)
AddScancode ==
    /\ Interruptible
    /\ arrived < MaxScancodes
    /\ arrived' = arrived + 1
    /\ IF ScancodeFits THEN scancodes' = scancodes + 1 /\ WakeReader
                       ELSE UNCHANGED <<scancodes, stream_waker, task_queue>>
    /\ exec' = AfterInterrupt
    /\ UNCHANGED <<in_handler, taskVars, ipcVars, stream_open, state>>

ExecNext ==
    \/ \E t \in KTask : Spawn(t)
    \/ Start
    \/ RunStep
    \/ \E t \in Receiver : SysSend(t)
    \/ Tick
    \/ AddScancode

(* kernel_main gets past its set-up, the CPU executes the executor's code,   *)
(* and the timer ticks.                                                      *)
ExecFairness == WF_execVars(Start) /\ WF_execVars(RunStep) /\ WF_execVars(Tick)

ExecSpec == ExecInit /\ [][ExecNext]_execVars /\ ExecFairness

--------------------------------------------------------------------------------
(* Type invariant of the executor.                                           *)
ExecTypeOK ==
    /\ in_handler \in BOOLEAN
    /\ tasks \subseteq KTask
    /\ registry \subseteq KTask
    /\ task_queue \in Seq(KTask)
    /\ waker_cache \subseteq KTask
    /\ state \in [KTask -> {"Ready", "Blocked"}]
    /\ mailbox \in [KTask -> SUBSET (1 .. MaxSends)]
    /\ waker \in [KTask -> BOOLEAN]
    /\ current_id \in KTask \cup {NoTask}
    /\ exec \in {"boot", "panic", "idle", "loop", "poll", "register", "recheck",
                 "sleep", "halted"}
    /\ stream_open \in BOOLEAN
    /\ scancodes \in 0 .. ScanCapacity
    /\ stream_waker \subseteq Reader
    /\ sends \in 0 .. MaxSends
    /\ arrived \in 0 .. MaxScancodes

Queued(t) == \E k \in 1 .. Len(task_queue) : task_queue[k] = t
Polled(t) == current_id = t /\ exec \in {"poll", "register", "recheck"}

(* A live task is being polled, or queued and Ready, or waits with nothing   *)
(* to wait for having arrived and its waker in the right place: no message   *)
(* and no scancode is ever left lying behind a task that sleeps.             *)
NoLostWakeup ==
    \A t \in tasks :
        \/ Polled(t)
        \/ Queued(t) /\ state[t] = "Ready"
        \/ t \in Receiver /\ state[t] = "Blocked" /\ mailbox[t] = {} /\ waker[t]
        \/ t \in Reader /\ state[t] = "Ready" /\ scancodes = 0 /\ stream_waker = {t}

(* When run_ready_tasks is called from the handlers a task is queued at most *)
(* once, and not while it is polled: with as many slots as tasks, the pushes *)
(* whose failure TaskWaker ignores cannot fail.                              *)
WokenOnce ==
    in_handler =>
        /\ \A j, k \in 1 .. Len(task_queue) : task_queue[j] = task_queue[k] => j = k
        /\ \A t \in KTask : Polled(t) => ~Queued(t)

(* TASK_REGISTRY and the executor name the same tasks: SYS_SEND never        *)
(* reports success for a message nobody can be woken for.                    *)
RegistryIsExecutor == registry = tasks

(* A bound on the steps run_ready_tasks has left: a queued task can be taken *)
(* up and polled to its end, a scancode or a message can make a future go    *)
(* round once more.                                                          *)
Stage ==
    CASE exec = "loop" -> 1
      [] exec = "recheck" -> 2
      [] exec = "register" -> 3
      [] exec = "poll" -> 4
      [] OTHER -> 0
StepsLeft ==
    4 * Len(task_queue) + 3 * scancodes + Cardinality({t \in KTask : mailbox[t] # {}}) + Stage

(* Every step of run_ready_tasks in an interrupt handler brings it closer to *)
(* its end, so that interrupts are masked for a bounded time: no future,     *)
(* polled there, refills the queue that is being drained or waits for        *)
(* something that cannot happen meanwhile.                                   *)
HandlerComesToEnd ==
    [][in_handler /\ exec \in {"loop", "poll", "register", "recheck"} =>
          StepsLeft' < StepsLeft]_execVars

(* run_ready_tasks leaves an interrupt handler again: no future, polled with *)
(* interrupts masked, keeps refilling the queue that is being drained, and   *)
(* the processes get the CPU back.                                           *)
HandlerReturns == (in_handler /\ exec = "loop") ~> (exec = "idle")

(* A message in the mailbox of a live task is read in the end.               *)
MailIsRead ==
    \A t \in Receiver : (mailbox[t] # {}) ~> (mailbox[t] = {} \/ t \notin tasks)

(* The keyboard task reads every scancode that was queued.                   *)
ScancodesAreRead == (scancodes > 0) ~> (scancodes = 0)
================================================================================
