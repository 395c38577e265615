---------------------------- MODULE ExecutorProofs ----------------------------
(***************************************************************************)
(* Theorems about the kernel tasks, for every number of tasks, queue slots *)
(* and scancode slots that satisfies ExecutorAssumption.                   *)
(***************************************************************************)
EXTENDS Executor, FunctionTheorems, FiniteSetTheorems, TLAPS

(***************************************************************************)
(* The inductive invariant.  NoLostWakeup alone says nothing about a push  *)
(* that finds the queue full; the other conjuncts bound how often a task   *)
(* can be in the queue.                                                    *)
(***************************************************************************)
(* The tasks that may be queued more than once: the keyboard task, when an   *)
(* interrupt can wake it while it is polled.                                 *)
MayRequeue == IF in_handler \/ exec = "boot" THEN {} ELSE Reader

(* No other task is in the queue twice.                                      *)
QueueBounded ==
    \A j, k \in 1 .. Len(task_queue) :
        task_queue[j] = task_queue[k] => j = k \/ task_queue[j] \in MayRequeue

(* Only tasks the executor still holds are queued; one that is not polled    *)
(* and whose waker nobody holds.                                             *)
QueuedTasks ==
    \A t \in KTask : Queued(t) =>
        /\ t \in tasks
        /\ t \notin MayRequeue => ~Polled(t) /\ t \notin stream_waker
        /\ state[t] = "Ready"

(* What the steps of ScancodeStream::poll_next rely on.                      *)
StreamSteps ==
    /\ exec \in {"poll", "register", "recheck"} => current_id \in tasks
    /\ exec \in {"register", "recheck"} => current_id \in Reader
    /\ stream_waker \subseteq tasks
    /\ exec = "recheck" /\ scancodes = 0 => stream_waker = {current_id}
    /\ \A t \in Reader : state[t] = "Ready"

(* While kernel_main spawns, no task has run; the processes run only when    *)
(* the tasks are polled by the handlers.                                     *)
BootState ==
    /\ exec = "boot" => stream_waker = {} /\ \A t \in KTask : state[t] = "Ready"
    /\ exec = "idle" => in_handler

(* Executor::spawn has not met a full queue (expect("Task queue full")). *)
NoSpawnPanic == exec # "panic"

(* The inductive invariant itself.                                           *)
ExecInv ==
    /\ ExecTypeOK
    /\ RegistryIsExecutor
    /\ NoSpawnPanic
    /\ QueueBounded
    /\ QueuedTasks
    /\ StreamSteps
    /\ BootState
    /\ NoLostWakeup
--------------------------------------------------------------------------------
(* A queue that holds no task twice and not t has room for t.                *)
LEMMA RoomInQueue ==
    ASSUME NEW q \in Seq(KTask), NEW t \in KTask,
           \A k \in 1 .. Len(q) : q[k] # t,
           \A j, k \in 1 .. Len(q) : q[j] = q[k] => j = k
    PROVE  Len(q) < QueueCapacity
<1> DEFINE D == 1 .. Len(q)
           T == KTask \ {t}
<1>1. Len(q) \in Nat /\ q \in [D -> T]
  OBVIOUS
<1>2. IsFiniteSet(KTask) /\ QueueCapacity \in Nat /\ Cardinality(KTask) <= QueueCapacity
  BY ExecutorAssumption
<1>3. /\ IsFiniteSet(T)
      /\ Cardinality(T) = Cardinality(KTask) - 1
      /\ Cardinality(KTask) \in Nat
      /\ Cardinality(T) \in Nat
  BY <1>2, FS_RemoveElement, FS_CardinalityType
<1>4. IsFiniteSet(D) /\ Cardinality(D) = Len(q)
  BY <1>1, FS_Interval, SMTT(60)
<1>5. ~ (Cardinality(T) < Cardinality(D))
  BY <1>1, <1>3, <1>4, FS_PigeonHole
<1> QED
  BY <1>1, <1>2, <1>3, <1>4, <1>5

(* What a push that succeeds does to the contents of the queue.              *)
LEMMA AppendContents ==
    ASSUME NEW S, NEW q \in Seq(S), NEW t \in S
    PROVE  /\ Append(q, t) \in Seq(S)
           /\ Len(Append(q, t)) = Len(q) + 1
           /\ \A k \in 1 .. Len(q) : Append(q, t)[k] = q[k]
           /\ Append(q, t)[Len(q) + 1] = t
OBVIOUS

(* What a pop does to the contents of the queue.                             *)
LEMMA TailContents ==
    ASSUME NEW S, NEW q \in Seq(S), q # <<>>
    PROVE  /\ Head(q) \in S
           /\ Head(q) = q[1]
           /\ Len(q) \in Nat \ {0}
           /\ Tail(q) \in Seq(S)
           /\ Len(Tail(q)) = Len(q) - 1
           /\ \A k \in 1 .. Len(Tail(q)) : Tail(q)[k] = q[k + 1]
OBVIOUS

(* A push of a task that is not queued.                                      *)
LEMMA PushEffect ==
    ASSUME ExecTypeOK, NEW t \in KTask, ~Queued(t), task_queue' = Pushed(t),
           \A j, k \in 1 .. Len(task_queue) : task_queue[j] = task_queue[k] => j = k
    PROVE  /\ task_queue' \in Seq(KTask)
           /\ Len(task_queue) < QueueCapacity
           /\ \A u : Queued(u)' <=> Queued(u) \/ u = t
           /\ \A j, k \in 1 .. Len(task_queue') : task_queue'[j] = task_queue'[k] => j = k
<1>1. task_queue \in Seq(KTask) /\ Len(task_queue) \in Nat
  BY DEF ExecTypeOK
<1>2. Len(task_queue) < QueueCapacity
  BY <1>1, RoomInQueue DEF Queued
<1>3. task_queue' = Append(task_queue, t)
  BY <1>2 DEF Pushed
<1>4. /\ task_queue' \in Seq(KTask)
      /\ Len(task_queue') = Len(task_queue) + 1
      /\ \A k \in 1 .. Len(task_queue) : task_queue'[k] = task_queue[k]
      /\ task_queue'[Len(task_queue) + 1] = t
  BY <1>1, <1>3, AppendContents
<1>5. \A u : Queued(u)' <=> Queued(u) \/ u = t
  BY <1>1, <1>4 DEF Queued
<1>6. ASSUME NEW j \in 1 .. Len(task_queue'), NEW k \in 1 .. Len(task_queue'),
             task_queue'[j] = task_queue'[k]
      PROVE  j = k
  BY <1>1, <1>4, <1>6 DEF Queued
<1> QED
  BY <1>2, <1>4, <1>5, <1>6
--------------------------------------------------------------------------------
(* A push of a task that is queued already: nothing new, or one more entry.  *)
LEMMA PushAgainEffect ==
    ASSUME ExecTypeOK, NEW t \in KTask, Queued(t), task_queue' = Pushed(t),
           NEW R, t \in R,
           \A j, k \in 1 .. Len(task_queue) :
               task_queue[j] = task_queue[k] => j = k \/ task_queue[j] \in R
    PROVE  /\ \A u : Queued(u)' <=> Queued(u)
           /\ \A j, k \in 1 .. Len(task_queue') :
                  task_queue'[j] = task_queue'[k] => j = k \/ task_queue'[j] \in R
<1>1. task_queue \in Seq(KTask) /\ Len(task_queue) \in Nat
  BY DEF ExecTypeOK
<1>2. CASE task_queue' = task_queue
  BY <1>2 DEF Queued
<1>3. CASE task_queue' = Append(task_queue, t)
  <2>1. /\ Len(task_queue') = Len(task_queue) + 1
        /\ \A k \in 1 .. Len(task_queue) : task_queue'[k] = task_queue[k]
        /\ task_queue'[Len(task_queue) + 1] = t
    BY <1>1, <1>3, AppendContents
  <2>2. \A u : Queued(u)' <=> Queued(u)
    BY <1>1, <2>1 DEF Queued
  <2>3. ASSUME NEW j \in 1 .. Len(task_queue'), NEW k \in 1 .. Len(task_queue'),
               task_queue'[j] = task_queue'[k]
        PROVE  j = k \/ task_queue'[j] \in R
    BY <1>1, <2>1, <2>3
  <2> QED
    BY <2>2, <2>3
<1> QED
  BY <1>2, <1>3 DEF Pushed

(* A pop takes out the one entry of a task that is queued once.              *)
LEMMA PopEffect ==
    ASSUME ExecTypeOK, task_queue # <<>>, task_queue' = Tail(task_queue), NEW R,
           \A j, k \in 1 .. Len(task_queue) :
               task_queue[j] = task_queue[k] => j = k \/ task_queue[j] \in R
    PROVE  /\ Head(task_queue) \in KTask /\ Queued(Head(task_queue))
           /\ \A u : Queued(u)' => Queued(u)
           /\ \A u : Queued(u) => Queued(u)' \/ u = Head(task_queue)
           /\ \A u : u = Head(task_queue) /\ Queued(u)' => u \in R
           /\ \A j, k \in 1 .. Len(task_queue') :
                  task_queue'[j] = task_queue'[k] => j = k \/ task_queue'[j] \in R
<1>1. /\ Head(task_queue) \in KTask /\ Head(task_queue) = task_queue[1]
      /\ Len(task_queue) \in Nat \ {0}
      /\ Len(task_queue') = Len(task_queue) - 1
      /\ \A k \in 1 .. Len(task_queue') : task_queue'[k] = task_queue[k + 1]
  BY TailContents DEF ExecTypeOK
<1>2. Queued(Head(task_queue))
  BY <1>1 DEF Queued
<1>3. \A u : Queued(u)' => Queued(u)
  BY <1>1 DEF Queued
<1>4. ASSUME NEW u, Queued(u), u # Head(task_queue) PROVE Queued(u)'
  <2>1. PICK k \in 1 .. Len(task_queue) : task_queue[k] = u
    BY <1>4 DEF Queued
  <2>2. k - 1 \in 1 .. Len(task_queue') /\ task_queue'[k - 1] = u
    BY <1>1, <1>4, <2>1
  <2> QED
    BY <2>2 DEF Queued
<1>5. ASSUME NEW u, u = Head(task_queue), Queued(u)' PROVE u \in R
  BY <1>1, <1>5 DEF Queued
<1>6. ASSUME NEW j \in 1 .. Len(task_queue'), NEW k \in 1 .. Len(task_queue'),
             task_queue'[j] = task_queue'[k]
      PROVE  j = k \/ task_queue'[j] \in R
  BY <1>1, <1>6
<1> QED
  BY <1>1, <1>2, <1>3, <1>4, <1>5, <1>6

(* The three things WakeTarget can do.                                       *)
LEMMA WakeTargetEffect ==
    ASSUME NEW t, WakeTarget(t)
    PROVE  \/ state[t] # "Blocked" /\ UNCHANGED <<state, waker, task_queue>>
           \/ /\ state[t] = "Blocked"
              /\ state' = [state EXCEPT ![t] = "Ready"]
              /\ waker' = [waker EXCEPT ![t] = FALSE]
              /\ \/ waker[t] /\ task_queue' = Pushed(t)
                 \/ ~waker[t] /\ task_queue' = task_queue
BY Zenon DEF WakeTarget

(* The steps keep the types.                                                 *)
LEMMA ExecTypeStep ==
    ExecInv /\ [ExecNext]_execVars => ExecTypeOK'
<1> SUFFICES ASSUME ExecInv, [ExecNext]_execVars
             PROVE  ExecTypeOK'
  OBVIOUS
<1> USE ExecutorAssumption DEF ExecInv, ExecTypeOK, KTask, taskVars, ipcVars, streamVars
<1>p. ASSUME NEW t \in KTask PROVE Pushed(t) \in Seq(KTask)
  BY <1>p DEF Pushed
<1>1. ASSUME NEW t \in KTask, Spawn(t) PROVE ExecTypeOK'
  BY <1>1, <1>p DEF Spawn
<1>2. CASE Start
  BY <1>2 DEF Start
<1>3. CASE PopTask
  BY <1>3 DEF PopTask
<1>4. CASE RunEnds
  BY <1>4 DEF RunEnds
<1>5. CASE PollReady
  BY <1>5 DEF PollReady, Deregister
<1>6. CASE PollReceive
  BY <1>6 DEF PollReceive, Waiting
<1>7. CASE PollNext
  BY <1>7 DEF PollNext
<1>8. CASE Register
  BY <1>8 DEF Register, StreamSteps
<1>9. CASE Recheck
  BY <1>9 DEF Recheck
<1>10. CASE SleepIfIdle
  BY <1>10 DEF SleepIfIdle
<1>11. ASSUME NEW t \in Receiver, SysSend(t) PROVE ExecTypeOK'
  <2>1. sends' \in 1 .. MaxSends /\ mailbox' \in [KTask -> SUBSET (1 .. MaxSends)]
    BY <1>11 DEF SysSend
  <2>2. CASE UNCHANGED <<state, waker, task_queue>>
    BY <1>11, <2>1, <2>2 DEF SysSend
  <2>3. CASE /\ state' = [state EXCEPT ![t] = "Ready"]
             /\ waker' = [waker EXCEPT ![t] = FALSE]
             /\ task_queue' = Pushed(t) \/ task_queue' = task_queue
    BY <1>11, <1>p, <2>1, <2>3 DEF SysSend
  <2> QED
    BY <1>11, <2>2, <2>3, WakeTargetEffect DEF SysSend
<1>12. CASE Tick
  BY <1>12 DEF Tick, AfterInterrupt
<1>13. CASE AddScancode
  BY <1>13, <1>p DEF AddScancode, AfterInterrupt, ScancodeFits, WakeReader
<1>14. CASE UNCHANGED execVars
  BY <1>14 DEF execVars
<1> QED
  BY <1>1, <1>2, <1>3, <1>4, <1>5, <1>6, <1>7, <1>8, <1>9, <1>10, <1>11, <1>12,
     <1>13, <1>14 DEF ExecNext, RunStep
(* The reader the stream knows is the only one there is.                     *)
LEMMA OneReader ==
    ASSUME NEW s \in Reader, NEW t \in Reader
    PROVE  s = t
BY ExecutorAssumption

(* A step that neither moves the queue nor changes who is polled, the        *)
(* states and what the tasks wait for.                                       *)
LEMMA QuietStep ==
    ASSUME ExecInv, ExecTypeOK',
           UNCHANGED <<in_handler, tasks, registry, task_queue, state, mailbox, waker,
                       scancodes, stream_waker>>,
           exec' # "panic", exec' # "boot", exec' = "idle" => in_handler,
           \/ exec' = exec /\ current_id' = current_id
           \/ {exec, exec'} \cap {"poll", "register", "recheck"} = {}
    PROVE  ExecInv'
<1> USE DEF ExecInv
<1>q. \A t : Queued(t)' <=> Queued(t)
  BY DEF Queued
<1>p. \A t : Polled(t)' <=> Polled(t)
  BY DEF Polled
<1>m. MayRequeue \subseteq MayRequeue'
  BY DEF MayRequeue
<1>1. RegistryIsExecutor' /\ NoSpawnPanic'
  BY DEF RegistryIsExecutor, NoSpawnPanic
<1>2. QueueBounded'
  BY <1>m DEF QueueBounded
<1>3. QueuedTasks'
  BY <1>q, <1>p, <1>m DEF QueuedTasks
<1>4. StreamSteps' /\ BootState'
  BY DEF StreamSteps, BootState
<1>5. NoLostWakeup'
  BY <1>q, <1>p, Zenon DEF NoLostWakeup
<1> QED
  BY <1>1, <1>2, <1>3, <1>4, <1>5
(* Executor::spawn finds room in the queue.                                  *)
LEMMA SpawnStep ==
    ASSUME ExecInv, ExecTypeOK', NEW t \in KTask, Spawn(t)
    PROVE  ExecInv'
<1> USE DEF ExecInv
<1>1. /\ exec = "boot" /\ t \notin tasks /\ task_queue' = Pushed(t)
      /\ tasks' = tasks \cup {t} /\ registry' = registry \cup {t}
      /\ UNCHANGED <<in_handler, state, mailbox, waker, current_id, scancodes, stream_waker>>
      /\ exec' = IF Len(task_queue) < QueueCapacity THEN "boot" ELSE "panic"
  BY DEF Spawn, ipcVars, streamVars
<1>2. MayRequeue = {} /\ ~Queued(t) /\ stream_waker = {}
  BY <1>1 DEF MayRequeue, QueuedTasks, BootState
<1>3. \A j, k \in 1 .. Len(task_queue) : task_queue[j] = task_queue[k] => j = k
  BY <1>2 DEF QueueBounded
<1>4. /\ Len(task_queue) < QueueCapacity
      /\ \A u : Queued(u)' <=> Queued(u) \/ u = t
      /\ \A j, k \in 1 .. Len(task_queue') : task_queue'[j] = task_queue'[k] => j = k
  BY <1>1, <1>2, <1>3, PushEffect
<1>5. exec' = "boot" /\ MayRequeue' = {} /\ (\A u : ~Polled(u) /\ ~Polled(u)')
  BY <1>1, <1>4 DEF MayRequeue, Polled
<1>6. state[t] = "Ready"  BY <1>1 DEF BootState
<1>7. RegistryIsExecutor' /\ NoSpawnPanic' /\ BootState' /\ StreamSteps'
  BY <1>1, <1>5 DEF RegistryIsExecutor, NoSpawnPanic, BootState, StreamSteps
<1>8. QueueBounded'
  BY <1>4 DEF QueueBounded
<1>9. QueuedTasks'
  BY <1>1, <1>2, <1>4, <1>5, <1>6 DEF QueuedTasks
<1>10. NoLostWakeup'
  <2> SUFFICES ASSUME NEW u \in tasks' PROVE Queued(u)' /\ state'[u] = "Ready"
    BY DEF NoLostWakeup
  <2>1. u \in KTask /\ state[u] = "Ready"
    BY <1>1 DEF BootState, ExecTypeOK
  <2>2. u # t => Queued(u)
    BY <1>1, <1>2, <1>5, <2>1 DEF NoLostWakeup
  <2> QED
    BY <1>1, <1>4, <2>1, <2>2
<1> QED
  BY <1>7, <1>8, <1>9, <1>10
(* run_ready_tasks polls what it pops: an id is never dropped.               *)
LEMMA PopStep ==
    ASSUME ExecInv, ExecTypeOK', PopTask
    PROVE  ExecInv'
<1> USE DEF ExecInv
<1>1. /\ exec = "loop" /\ task_queue # <<>> /\ task_queue' = Tail(task_queue)
      /\ UNCHANGED <<in_handler, tasks, registry, state, mailbox, waker, scancodes, stream_waker>>
  BY DEF PopTask, ipcVars, streamVars
<1>2. PICK h \in KTask : h = Head(task_queue)
  BY <1>1, TailContents DEF ExecTypeOK
<1>3. /\ Queued(h)
      /\ \A u : Queued(u)' => Queued(u)
      /\ \A u : Queued(u) => Queued(u)' \/ u = h
      /\ Queued(h)' => h \in MayRequeue
      /\ \A j, k \in 1 .. Len(task_queue') :
             task_queue'[j] = task_queue'[k] => j = k \/ task_queue'[j] \in MayRequeue
  BY <1>1, <1>2, PopEffect DEF QueueBounded
<1>4. h \in tasks /\ state[h] = "Ready"
  BY <1>3 DEF QueuedTasks
<1>5. exec' = "poll" /\ current_id' = h
  BY <1>2, <1>4 DEF PopTask
<1>6. MayRequeue' = MayRequeue
  BY <1>1, <1>5 DEF MayRequeue
<1>7. \A u : ~Polled(u) /\ (Polled(u)' <=> u = h)
  BY <1>1, <1>5 DEF Polled
<1>8. RegistryIsExecutor' /\ NoSpawnPanic' /\ BootState' /\ StreamSteps'
  BY <1>1, <1>4, <1>5 DEF RegistryIsExecutor, NoSpawnPanic, BootState, StreamSteps
<1>9. QueueBounded'
  BY <1>3, <1>6 DEF QueueBounded
<1>10. QueuedTasks'
  BY <1>1, <1>3, <1>6, <1>7 DEF QueuedTasks
<1>11. NoLostWakeup'
  BY <1>1, <1>3, <1>7, Zenon DEF NoLostWakeup
<1> QED
  BY <1>8, <1>9, <1>10, <1>11

(* The task that is polled ends.                                             *)
LEMMA PollReadyStep ==
    ASSUME ExecInv, ExecTypeOK', PollReady
    PROVE  ExecInv'
<1> USE DEF ExecInv
<1>1. /\ exec = "poll" /\ exec' = "loop" /\ current_id \in Receiver
      /\ tasks' = tasks \ {current_id} /\ registry' = registry \ {current_id}
      /\ UNCHANGED <<in_handler, task_queue, state, mailbox, waker, current_id, scancodes,
                     stream_waker>>
  BY DEF PollReady, Deregister, ipcVars, streamVars
<1>2. MayRequeue' = MayRequeue /\ MayRequeue \subseteq Reader
  BY <1>1 DEF MayRequeue
<1>3. /\ \A u : Queued(u)' <=> Queued(u)
      /\ \A u : ~Polled(u)' /\ (Polled(u) <=> u = current_id)
  BY <1>1 DEF Queued, Polled
<1>4. current_id \in KTask /\ current_id \notin Reader
  BY <1>1, ExecutorAssumption DEF KTask
<1>5. ~Queued(current_id)
  BY <1>2, <1>3, <1>4 DEF QueuedTasks
<1>6. RegistryIsExecutor' /\ NoSpawnPanic' /\ BootState'
  BY <1>1 DEF RegistryIsExecutor, NoSpawnPanic, BootState
<1>7. StreamSteps'
  BY <1>1, <1>4 DEF StreamSteps, ExecTypeOK
<1>8. QueueBounded'
  BY <1>1, <1>2 DEF QueueBounded
<1>9. QueuedTasks'
  BY <1>1, <1>2, <1>3, <1>5 DEF QueuedTasks
<1>10. NoLostWakeup'
  BY <1>1, <1>3, Zenon DEF NoLostWakeup
<1> QED
  BY <1>6, <1>7, <1>8, <1>9, <1>10

(* IpcReceiveFuture::poll takes the message, or blocks the task.             *)
LEMMA PollReceiveStep ==
    ASSUME ExecInv, ExecTypeOK', PollReceive
    PROVE  ExecInv'
<1> USE DEF ExecInv
<1>1. /\ exec = "poll" /\ current_id \in Receiver
      /\ UNCHANGED <<in_handler, tasks, registry, task_queue, current_id, scancodes, stream_waker>>
  BY DEF PollReceive, taskVars, streamVars
<1>2. PICK c \in KTask : c = current_id /\ c \in Receiver /\ c \notin Reader
  BY <1>1, ExecutorAssumption DEF KTask
<1>3. MayRequeue \subseteq Reader /\ (\A u : Queued(u)' <=> Queued(u))
  BY <1>1 DEF MayRequeue, Queued
<1>4. \A u : Polled(u) <=> u = c
  BY <1>1, <1>2 DEF Polled
<1>5. ~Queued(c)
  BY <1>2, <1>3, <1>4 DEF QueuedTasks
<1>6. CASE mailbox[c] # {}
  <2>1. /\ exec' = exec /\ waker' = waker
        /\ mailbox' = [mailbox EXCEPT ![c] = {}]
        /\ state' = [state EXCEPT ![c] = "Ready"]
    BY <1>2, <1>6 DEF PollReceive
  <2>2. /\ MayRequeue' = MayRequeue
        /\ \A u : Polled(u)' <=> Polled(u)
    BY <1>1, <2>1 DEF MayRequeue, Polled
  <2>3. \A u \in KTask : u # c => state'[u] = state[u] /\ mailbox'[u] = mailbox[u]
    BY <2>1 DEF ExecTypeOK
  <2>4. RegistryIsExecutor' /\ NoSpawnPanic' /\ BootState'
    BY <1>1, <2>1 DEF RegistryIsExecutor, NoSpawnPanic, BootState
  <2>5. StreamSteps'
    BY <1>1, <1>2, <2>1, <2>3 DEF StreamSteps, KTask
  <2>6. QueueBounded'
    BY <1>1, <2>2 DEF QueueBounded
  <2>7. QueuedTasks'
    BY <1>1, <1>3, <1>5, <2>2, <2>3 DEF QueuedTasks
  <2>8. NoLostWakeup'
    <3> SUFFICES ASSUME NEW u \in tasks, u # c
                 PROVE  \/ Queued(u)' /\ state'[u] = "Ready"
                        \/ u \in Receiver /\ state'[u] = "Blocked" /\ mailbox'[u] = {} /\ waker'[u]
                        \/ u \in Reader /\ state'[u] = "Ready" /\ scancodes' = 0 /\ stream_waker' = {u}
      BY <1>1, <1>4, <2>2, Zenon DEF NoLostWakeup
    <3>1. u \in KTask /\ state'[u] = state[u] /\ mailbox'[u] = mailbox[u]
      BY <2>3 DEF ExecTypeOK
    <3> QED
      BY <1>1, <1>3, <1>4, <2>1, <3>1, Zenon DEF NoLostWakeup
  <2> QED
    BY <2>4, <2>5, <2>6, <2>7, <2>8
<1>7. CASE mailbox[c] = {}
  <2>1. /\ exec' = "loop" /\ mailbox' = mailbox
        /\ waker' = [waker EXCEPT ![c] = TRUE]
        /\ state' = [state EXCEPT ![c] = "Blocked"]
    BY <1>2, <1>7 DEF PollReceive, Waiting
  <2>2. /\ MayRequeue' = MayRequeue
        /\ \A u : ~Polled(u)'
    BY <1>1, <2>1 DEF MayRequeue, Polled
  <2>3. /\ state'[c] = "Blocked"
        /\ \A u \in KTask : u # c => state'[u] = state[u]
    BY <2>1 DEF ExecTypeOK
  <2>4. waker'[c] /\ (\A u \in KTask : u # c => waker'[u] = waker[u])
    BY <2>1 DEF ExecTypeOK
  <2>5. RegistryIsExecutor' /\ NoSpawnPanic' /\ BootState'
    BY <1>1, <2>1 DEF RegistryIsExecutor, NoSpawnPanic, BootState
  <2>6. StreamSteps'
    BY <1>1, <1>2, <2>1, <2>3 DEF StreamSteps, KTask
  <2>7. QueueBounded'
    BY <1>1, <2>2 DEF QueueBounded
  <2>8. QueuedTasks'
    BY <1>1, <1>3, <1>5, <2>2, <2>3 DEF QueuedTasks
  <2>9. NoLostWakeup'
    <3> SUFFICES ASSUME NEW u \in tasks
                 PROVE  \/ Queued(u)' /\ state'[u] = "Ready"
                        \/ u \in Receiver /\ state'[u] = "Blocked" /\ mailbox'[u] = {} /\ waker'[u]
                        \/ u \in Reader /\ state'[u] = "Ready" /\ scancodes' = 0 /\ stream_waker' = {u}
      BY <1>1, Zenon DEF NoLostWakeup
    <3>1. CASE u = c
      BY <1>2, <1>7, <2>1, <2>3, <2>4, <3>1, Zenon
    <3>2. CASE u # c
      <4>1. u \in KTask /\ state'[u] = state[u] /\ waker'[u] = waker[u]
        BY <2>3, <2>4, <3>2 DEF ExecTypeOK
      <4> QED
        BY <1>1, <1>3, <1>4, <2>1, <3>2, <4>1, Zenon DEF NoLostWakeup
    <3> QED
      BY <3>1, <3>2
  <2> QED
    BY <2>5, <2>6, <2>7, <2>8, <2>9
<1> QED
  BY <1>6, <1>7
(* A step of ScancodeStream::poll_next after which the task is still polled. *)
LEMMA StreamStep ==
    ASSUME ExecInv, ExecTypeOK', StreamSteps', current_id \in Reader,
           exec \in {"poll", "register", "recheck"}, exec' \in {"poll", "register", "recheck"},
           UNCHANGED <<in_handler, tasks, registry, task_queue, state, mailbox, waker, current_id>>,
           stream_waker' \subseteq {current_id} \cup stream_waker
    PROVE  ExecInv'
<1> USE DEF ExecInv
<1>1. MayRequeue' = MayRequeue /\ (\A u : Queued(u)' <=> Queued(u))
  BY DEF MayRequeue, Queued
<1>2. \A u : (Polled(u)' <=> Polled(u)) /\ (Polled(u) <=> u = current_id)
  BY DEF Polled
<1>3. RegistryIsExecutor' /\ NoSpawnPanic' /\ BootState'
  BY DEF RegistryIsExecutor, NoSpawnPanic, BootState
<1>4. QueueBounded'
  BY <1>1 DEF QueueBounded
<1>5. QueuedTasks'
  BY <1>1, <1>2 DEF QueuedTasks
<1>6. NoLostWakeup'
  <2> SUFFICES ASSUME NEW u \in tasks, u # current_id
               PROVE  \/ Queued(u)' /\ state'[u] = "Ready"
                      \/ u \in Receiver /\ state'[u] = "Blocked" /\ mailbox'[u] = {} /\ waker'[u]
    BY <1>2, Zenon DEF NoLostWakeup
  <2>1. u \notin Reader
    BY OneReader
  <2> QED
    BY <1>1, <1>2, <2>1, Zenon DEF NoLostWakeup
<1> QED
  BY <1>3, <1>4, <1>5, <1>6

(* poll_next's first look at the queue, before it registers the waker.       *)
LEMMA PollNextStep ==
    ASSUME ExecInv, ExecTypeOK', PollNext
    PROVE  ExecInv'
<1>1. /\ exec = "poll" /\ current_id \in Reader
      /\ UNCHANGED <<in_handler, tasks, registry, task_queue, state, mailbox, waker, current_id,
                     stream_waker>>
      /\ exec' \in {"poll", "register"}
  BY DEF PollNext, taskVars, ipcVars
<1>2. StreamSteps'
  BY <1>1 DEF StreamSteps, ExecInv
<1> QED
  BY <1>1, <1>2, StreamStep

(* poll_next registers the waker of its task.                                *)
LEMMA RegisterStep ==
    ASSUME ExecInv, ExecTypeOK', Register
    PROVE  ExecInv'
<1>1. /\ exec = "register" /\ exec' = "recheck" /\ stream_waker' = {current_id}
      /\ UNCHANGED <<in_handler, tasks, registry, task_queue, state, mailbox, waker, current_id,
                     scancodes>>
  BY DEF Register, taskVars, ipcVars
<1>2. StreamSteps' /\ current_id \in Reader
  BY <1>1 DEF StreamSteps, ExecInv
<1> QED
  BY <1>1, <1>2, StreamStep

(* The second pop of poll_next: after it a task that goes to sleep has its   *)
(* waker in the stream and no scancode in the queue.                         *)
LEMMA RecheckStep ==
    ASSUME ExecInv, ExecTypeOK', Recheck
    PROVE  ExecInv'
<1>1. /\ exec = "recheck"
      /\ UNCHANGED <<in_handler, tasks, registry, task_queue, state, mailbox, waker, current_id>>
  BY DEF Recheck, taskVars, ipcVars
<1>2. current_id \in Reader /\ current_id \in tasks
  BY <1>1 DEF StreamSteps, ExecInv
<1>3. CASE scancodes > 0
  <2>1. exec' = "poll" /\ stream_waker' = {}
    BY <1>3 DEF Recheck
  <2>2. StreamSteps'
    BY <1>1, <1>2, <2>1 DEF StreamSteps, ExecInv
  <2> QED
    BY <1>1, <1>2, <2>1, <2>2, StreamStep
<1>4. CASE ~(scancodes > 0)
  <2> USE DEF ExecInv
  <2>1. exec' = "loop" /\ UNCHANGED <<scancodes, stream_waker>>
    BY <1>4 DEF Recheck
  <2>2. scancodes = 0 /\ stream_waker = {current_id}
    BY <1>1, <1>4, ExecutorAssumption DEF StreamSteps, ExecTypeOK
  <2>3. MayRequeue' = MayRequeue /\ (\A u : Queued(u)' <=> Queued(u))
    BY <1>1, <2>1 DEF MayRequeue, Queued
  <2>4. \A u : ~Polled(u)' /\ (Polled(u) <=> u = current_id)
    BY <1>1, <2>1 DEF Polled
  <2>5. RegistryIsExecutor' /\ NoSpawnPanic' /\ BootState' /\ StreamSteps'
    BY <1>1, <2>1 DEF RegistryIsExecutor, NoSpawnPanic, BootState, StreamSteps
  <2>6. QueueBounded'
    BY <1>1, <2>3 DEF QueueBounded
  <2>7. QueuedTasks'
    BY <1>1, <2>1, <2>3, <2>4 DEF QueuedTasks
  <2>8. NoLostWakeup'
    <3>1. state[current_id] = "Ready"
      BY <1>2 DEF StreamSteps
    <3> QED
      BY <1>1, <1>2, <2>1, <2>2, <2>3, <2>4, <3>1, Zenon DEF NoLostWakeup
  <2> QED
    BY <2>5, <2>6, <2>7, <2>8
<1> QED
  BY <1>3, <1>4

(* SYS_SEND to a task that waits pushes it; one that does not wait is queued *)
(* already.                                                                  *)
LEMMA SysSendStep ==
    ASSUME ExecInv, ExecTypeOK', NEW t \in Receiver, SysSend(t)
    PROVE  ExecInv'
<1> USE DEF ExecInv
<1>1. /\ exec = "idle" /\ exec' = "idle" /\ t \in registry
      /\ mailbox' = [mailbox EXCEPT ![t] = {sends'}]
      /\ WakeTarget(t)
      /\ UNCHANGED <<in_handler, tasks, registry, current_id, scancodes, stream_waker>>
  BY DEF SysSend, taskVars, streamVars
<1>2. t \in tasks /\ t \in KTask /\ t \notin Reader
  BY <1>1, ExecutorAssumption DEF RegistryIsExecutor, KTask
<1>3. \A u : ~Polled(u) /\ ~Polled(u)'
  BY <1>1 DEF Polled
<1>4. MayRequeue' = MayRequeue
  BY <1>1 DEF MayRequeue
<1>5. RegistryIsExecutor' /\ NoSpawnPanic' /\ BootState'
  BY <1>1 DEF RegistryIsExecutor, NoSpawnPanic, BootState
<1>6. \A u \in KTask : u # t => mailbox'[u] = mailbox[u]
  BY <1>1 DEF ExecTypeOK
<1>7. CASE state[t] # "Blocked"
  <2>1. UNCHANGED <<state, waker, task_queue>>
    BY <1>1, <1>7 DEF WakeTarget
  <2>2. \A u : Queued(u)' <=> Queued(u)
    BY <2>1 DEF Queued
  <2>3. Queued(t) /\ state[t] = "Ready"
    BY <1>2, <1>3, <1>7 DEF NoLostWakeup
  <2>4. QueueBounded' /\ QueuedTasks' /\ StreamSteps'
    BY <1>1, <1>3, <1>4, <2>1, <2>2 DEF QueueBounded, QueuedTasks, StreamSteps
  <2>5. NoLostWakeup'
    <3> SUFFICES ASSUME NEW u \in tasks, u # t
                 PROVE  \/ Queued(u)' /\ state'[u] = "Ready"
                        \/ u \in Receiver /\ state'[u] = "Blocked" /\ mailbox'[u] = {} /\ waker'[u]
                        \/ u \in Reader /\ state'[u] = "Ready" /\ scancodes' = 0 /\ stream_waker' = {u}
      BY <1>1, <2>1, <2>2, <2>3, Zenon DEF NoLostWakeup
    <3>1. mailbox'[u] = mailbox[u]
      BY <1>6 DEF ExecTypeOK
    <3> QED
      BY <1>1, <1>3, <2>1, <2>2, <3>1, Zenon DEF NoLostWakeup
  <2> QED
    BY <1>5, <2>4, <2>5
<1>8. CASE state[t] = "Blocked"
  <2>1. waker[t]
    BY <1>2, <1>3, <1>8, Zenon DEF NoLostWakeup
  <2>2. /\ state' = [state EXCEPT ![t] = "Ready"]
        /\ waker' = [waker EXCEPT ![t] = FALSE]
        /\ task_queue' = Pushed(t)
    BY <1>1, <1>8, <2>1, WakeTargetEffect, Zenon
  <2>3. /\ state'[t] = "Ready"
        /\ \A u \in KTask : u # t => state'[u] = state[u]
    BY <1>2, <2>2 DEF ExecTypeOK
  <2>4. \A u \in KTask : u # t => waker'[u] = waker[u]
    BY <2>2 DEF ExecTypeOK  <2>5. ~Queued(t) /\ MayRequeue = {}
    BY <1>1, <1>2, <1>8 DEF QueuedTasks, BootState, MayRequeue
  <2>6. /\ \A u : Queued(u)' <=> Queued(u) \/ u = t
        /\ \A j, k \in 1 .. Len(task_queue') : task_queue'[j] = task_queue'[k] => j = k
    BY <1>2, <2>2, <2>5, PushEffect DEF QueueBounded
  <2>7. QueueBounded'
    BY <2>6 DEF QueueBounded
  <2>8. QueuedTasks'
    <3>1. t \notin stream_waker
      BY <1>2 DEF ExecTypeOK
    <3> QED
      BY <1>1, <1>2, <1>3, <1>4, <2>3, <2>6, <3>1 DEF QueuedTasks
  <2>9. StreamSteps'
    BY <1>1, <1>2, <2>3 DEF StreamSteps, KTask
  <2>10. NoLostWakeup'
    <3> SUFFICES ASSUME NEW u \in tasks, u # t
                 PROVE  \/ Queued(u)' /\ state'[u] = "Ready"
                        \/ u \in Receiver /\ state'[u] = "Blocked" /\ mailbox'[u] = {} /\ waker'[u]
                        \/ u \in Reader /\ state'[u] = "Ready" /\ scancodes' = 0 /\ stream_waker' = {u}
      BY <1>1, <2>3, <2>6, Zenon DEF NoLostWakeup
    <3>1. u \in KTask /\ mailbox'[u] = mailbox[u] /\ state'[u] = state[u]
      BY <1>6, <2>3 DEF ExecTypeOK
    <3>2. waker'[u] = waker[u]
      BY <2>4, <3>1
    <3> QED
      BY <1>1, <1>3, <2>6, <3>1, <3>2, Zenon DEF NoLostWakeup
  <2> QED
    BY <1>5, <2>7, <2>8, <2>9, <2>10
<1> QED
  BY <1>7, <1>8

(* add_scancode: a push of the keyboard task that fails finds it queued      *)
(* already.                                                                  *)
LEMMA AddScancodeStep ==
    ASSUME ExecInv, ExecTypeOK', AddScancode
    PROVE  ExecInv'
<1>1. /\ exec # "boot" /\ exec # "panic" /\ exec' \in {exec, "loop"}
      /\ exec \in {"poll", "register", "recheck"} => exec' = exec
      /\ UNCHANGED <<in_handler, tasks, registry, current_id, state, mailbox, waker>>
      /\ exec' = "idle" => in_handler
  BY DEF AddScancode, AfterInterrupt, Interruptible, taskVars, ipcVars
<1>2. CASE ~ScancodeFits
  <2>1. UNCHANGED <<scancodes, stream_waker, task_queue>>
    BY <1>2 DEF AddScancode
  <2> QED
    BY <1>1, <2>1, QuietStep
<1>3. CASE ScancodeFits
  <2> USE DEF ExecInv
  <2>1. scancodes' = scancodes + 1 /\ scancodes \in Nat /\ WakeReader
    BY <1>3, ExecutorAssumption DEF AddScancode, ExecTypeOK
  <2>2. stream_waker' = {} /\ scancodes' # 0
    BY <2>1 DEF WakeReader
  <2>3. MayRequeue' = MayRequeue
    BY <1>1 DEF MayRequeue
  <2>4. \A u : Polled(u)' <=> Polled(u)
    BY <1>1 DEF Polled
  <2>5. RegistryIsExecutor' /\ NoSpawnPanic' /\ BootState' /\ StreamSteps'
    BY <1>1, <2>2 DEF RegistryIsExecutor, NoSpawnPanic, BootState, StreamSteps
  <2>6. CASE stream_waker = {}
    <3>1. task_queue' = task_queue
      BY <2>1, <2>6 DEF WakeReader
    <3>2. \A u : Queued(u)' <=> Queued(u)
      BY <3>1 DEF Queued
    <3>3. QueueBounded' /\ QueuedTasks'
      BY <1>1, <2>2, <2>3, <2>4, <3>1, <3>2 DEF QueueBounded, QueuedTasks
    <3>4. NoLostWakeup'
      <4>1. \A u : stream_waker # {u}
        BY <2>6
      <4> QED
        BY <1>1, <2>4, <3>2, <4>1, Zenon DEF NoLostWakeup
    <3> QED
      BY <2>5, <3>3, <3>4
  <2>7. ASSUME NEW t \in stream_waker PROVE ExecInv'
    <3>1. /\ t \in Reader /\ t \in KTask /\ t \in tasks /\ state[t] = "Ready"
          /\ \A u \in Reader : u = t
      BY <2>7, OneReader DEF ExecTypeOK, KTask, StreamSteps
    <3>2. task_queue' = Pushed(t)
      BY <2>1, <2>7, <3>1 DEF WakeReader, ExecTypeOK
    <3>3. /\ \A u : Queued(u)' <=> Queued(u) \/ u = t
          /\ QueueBounded'
      <4>1. CASE Queued(t)
        <5>1. t \in MayRequeue
          BY <2>7, <3>1, <4>1 DEF QueuedTasks
        <5> QED
          BY <2>3, <3>1, <3>2, <4>1, <5>1, PushAgainEffect DEF QueueBounded
      <4>2. CASE ~Queued(t)
        <5>1. MayRequeue \subseteq {t}
          BY <3>1 DEF MayRequeue
        <5>2. \A j, k \in 1 .. Len(task_queue) : task_queue[j] = task_queue[k] => j = k
          BY <4>2, <5>1 DEF QueueBounded, Queued
        <5> QED
          BY <3>1, <3>2, <4>2, <5>2, PushEffect DEF QueueBounded
      <4> QED
        BY <4>1, <4>2
    <3>4. QueuedTasks'
      <4>1. t \notin MayRequeue => ~Polled(t)
        BY <1>1, <3>1 DEF AddScancode, Interruptible, MayRequeue, Polled
      <4> QED
        BY <1>1, <2>2, <2>3, <2>4, <3>1, <3>3, <4>1 DEF QueuedTasks
    <3>5. NoLostWakeup'
      BY <1>1, <2>4, <3>1, <3>3, Zenon DEF NoLostWakeup
    <3> QED
      BY <2>5, <3>3, <3>4, <3>5
  <2> QED
    BY <2>6, <2>7
<1> QED
  BY <1>2, <1>3

--------------------------------------------------------------------------------
(* ExecInv is an invariant.                                                  *)
THEOREM ExecInvInvariant == ExecSpec => []ExecInv
<1>1. ExecInit => ExecInv
  <2> SUFFICES ASSUME ExecInit PROVE ExecInv
    OBVIOUS
  <2> USE ExecutorAssumption DEF ExecInit
  <2>a. in_handler \in BOOLEAN /\ stream_open \in BOOLEAN /\ waker \in [KTask -> BOOLEAN]
    BY Zenon
  <2>b. task_queue \in Seq(KTask) /\ mailbox \in [KTask -> SUBSET (1 .. MaxSends)]
    OBVIOUS
  <2>1. ExecTypeOK
    BY <2>a, <2>b DEF ExecTypeOK
  <2>2. \A u : ~Queued(u)
    BY DEF Queued
  <2> QED
    BY <2>1, <2>2 DEF ExecInv, RegistryIsExecutor, NoSpawnPanic, QueueBounded, QueuedTasks,
                      StreamSteps, BootState, NoLostWakeup, KTask
<1>2. ExecInv /\ [ExecNext]_execVars => ExecInv'
  <2> SUFFICES ASSUME ExecInv, [ExecNext]_execVars PROVE ExecInv'
    OBVIOUS
  <2>t. ExecTypeOK'
    BY ExecTypeStep
  <2>1. CASE \E t \in KTask : Spawn(t)
    BY <2>t, <2>1, SpawnStep
  <2>2. CASE Start
    BY <2>t, <2>2, QuietStep DEF Start, taskVars, ipcVars, streamVars
  <2>3. CASE RunEnds
    BY <2>t, <2>3, QuietStep DEF RunEnds, ipcVars, streamVars
  <2>4. CASE SleepIfIdle
    BY <2>t, <2>4, QuietStep DEF SleepIfIdle, taskVars, ipcVars, streamVars
  <2>5. CASE Tick
    BY <2>t, <2>5, QuietStep DEF Tick, Interruptible, AfterInterrupt, taskVars, ipcVars, streamVars,
                                 ExecInv, BootState
  <2>6. CASE PopTask \/ PollReady \/ PollReceive
    BY <2>t, <2>6, PopStep, PollReadyStep, PollReceiveStep
  <2>7. CASE PollNext \/ Register \/ Recheck
    BY <2>t, <2>7, PollNextStep, RegisterStep, RecheckStep
  <2>8. CASE \E t \in Receiver : SysSend(t)
    BY <2>t, <2>8, SysSendStep
  <2>9. CASE AddScancode
    BY <2>t, <2>9, AddScancodeStep
  <2>10. CASE UNCHANGED execVars
    BY <2>10 DEF execVars, taskVars, ipcVars, streamVars, ExecInv, ExecTypeOK, RegistryIsExecutor,
                 NoSpawnPanic, QueueBounded, QueuedTasks, StreamSteps, BootState, NoLostWakeup,
                 MayRequeue, Queued, Polled
  <2> QED
    BY <2>1, <2>2, <2>3, <2>4, <2>5, <2>6, <2>7, <2>8, <2>9, <2>10 DEF ExecNext, RunStep
<1> QED
  BY <1>1, <1>2, PTL DEF ExecSpec

(* The executor's variables keep their types.                                *)
THEOREM ExecTypeCorrect == ExecSpec => []ExecTypeOK
BY ExecInvInvariant, PTL DEF ExecInv

(* Whatever interrupts come between the steps of a poll, no kernel task      *)
(* sleeps with a message or a scancode waiting for it, and its waker is      *)
(* where the next one finds it.                                              *)
THEOREM NoWakeupIsLost == ExecSpec => []NoLostWakeup
BY ExecInvInvariant, PTL DEF ExecInv

(* A task is queued once at a time, when the handlers run the executor: no   *)
(* ArrayQueue::push whose error TaskWaker ignores can fail.                  *)
THEOREM TasksAreWokenOnce == ExecSpec => []WokenOnce
<1>1. ExecInv => WokenOnce
  <2> SUFFICES ASSUME ExecInv, in_handler PROVE WokenOnce
    BY DEF WokenOnce
  <2>1. MayRequeue = {}
    BY DEF MayRequeue
  <2> QED
    BY <2>1 DEF ExecInv, QueueBounded, QueuedTasks, WokenOnce
<1> QED
  BY <1>1, ExecInvInvariant, PTL

(* TASK_REGISTRY names exactly the tasks the executor holds.                 *)
THEOREM RegistryMatchesExecutor == ExecSpec => []RegistryIsExecutor
BY ExecInvInvariant, PTL DEF ExecInv

(* Executor::spawn never meets a full queue: its panic is not reached.       *)
THEOREM SpawnNeverPanics == ExecSpec => []NoSpawnPanic
BY ExecInvInvariant, PTL DEF ExecInv

--------------------------------------------------------------------------------
(* A turn of run_ready_tasks in an interrupt handler comes to its end after  *)
(* at most StepsLeft steps, whatever the tasks do: each step uses up a queue *)
(* entry, a scancode, a message or a stage of the present poll.              *)
THEOREM HandlersComeToEnd == ExecSpec => HandlerComesToEnd
<1> DEFINE Mail == {t \in KTask : mailbox[t] # {}}
           l == Len(task_queue)
           c == Cardinality(Mail)
<1>1. ASSUME ExecInv, ExecNext, in_handler, exec \in {"loop", "poll", "register", "recheck"}
      PROVE  StepsLeft' < StepsLeft
  <2>1. /\ l \in Nat /\ scancodes \in Nat /\ IsFiniteSet(Mail) /\ c \in Nat
        /\ StepsLeft = 4 * l + 3 * scancodes + c + Stage
        /\ StepsLeft' = 4 * l' + 3 * scancodes' + c' + Stage'
        /\ task_queue \in Seq(KTask) /\ mailbox \in [KTask -> SUBSET (1 .. MaxSends)]
    <3>1. l \in Nat /\ scancodes \in Nat /\ task_queue \in Seq(KTask)
          /\ mailbox \in [KTask -> SUBSET (1 .. MaxSends)]
      BY <1>1, ExecutorAssumption DEF ExecInv, ExecTypeOK
    <3>2. Mail \in SUBSET KTask /\ IsFiniteSet(KTask)
      BY ExecutorAssumption
    <3>3. IsFiniteSet(Mail) /\ c \in Nat
      <4> HIDE DEF Mail
      <4> QED
        BY <3>2, FS_Subset, FS_CardinalityType
    <3> QED
      BY <3>1, <3>3, Zenon DEF StepsLeft
  <2>2. UNCHANGED mailbox => c' = c
    OBVIOUS
  <2>3. UNCHANGED task_queue => l' = l
    OBVIOUS
  <2>4. CASE PopTask
    <3>1. /\ exec = "loop" /\ task_queue # <<>> /\ task_queue' = Tail(task_queue)
          /\ exec' \in {"loop", "poll"} /\ UNCHANGED <<scancodes, mailbox>>
      BY <2>4 DEF PopTask, ipcVars, streamVars
    <3>2. l' = l - 1
      BY <2>1, <3>1
    <3>3. Stage = 1 /\ Stage' \in {1, 4}
      BY <3>1 DEF Stage
    <3>4. c' = c /\ scancodes' = scancodes
      BY <2>2, <3>1
    <3>5. /\ l \in Nat /\ scancodes \in Nat /\ c \in Nat
          /\ StepsLeft = 4 * l + 3 * scancodes + c + Stage
          /\ StepsLeft' = 4 * l' + 3 * scancodes' + c' + Stage'
      BY <2>1, Zenon
    <3> HIDE DEF l, c
    <3>6. CASE Stage' = 1
      BY <3>2, <3>3, <3>4, <3>5, <3>6
    <3>7. CASE Stage' = 4
      BY <3>2, <3>3, <3>4, <3>5, <3>7
    <3> QED
      BY <3>3, <3>6, <3>7
  <2>5. CASE RunEnds
    <3>1. exec' = "idle" /\ UNCHANGED <<scancodes, mailbox, task_queue>> /\ exec = "loop"
      BY <1>1, <2>5 DEF RunEnds, ipcVars, streamVars
    <3>2. Stage = 1 /\ Stage' = 0
      BY <3>1 DEF Stage
    <3> HIDE DEF l, c
    <3> QED
      BY <2>1, <2>2, <2>3, <3>1, <3>2
  <2>6. CASE PollReady
    <3>1. exec = "poll" /\ exec' = "loop" /\ UNCHANGED <<scancodes, mailbox, task_queue>>
      BY <2>6 DEF PollReady, ipcVars, streamVars
    <3>2. Stage = 4 /\ Stage' = 1
      BY <3>1 DEF Stage
    <3> HIDE DEF l, c
    <3> QED
      BY <2>1, <2>2, <2>3, <3>1, <3>2
  <2>7. CASE PollReceive
    <3>1. exec = "poll" /\ current_id \in Receiver /\ current_id \in KTask
          /\ UNCHANGED <<scancodes, task_queue>>
      BY <2>7 DEF PollReceive, streamVars, KTask
    <3>2. CASE mailbox[current_id] # {}
      <4>1. mailbox' = [mailbox EXCEPT ![current_id] = {}] /\ exec' = exec
        BY <2>7, <3>2 DEF PollReceive
      <4>2. Mail' = Mail \ {current_id} /\ current_id \in Mail
        BY <2>1, <3>1, <3>2, <4>1
      <4>3. Cardinality(Mail \ {current_id}) = Cardinality(Mail) - 1
        <5> HIDE DEF Mail
        <5> QED
          BY <2>1, <4>2, FS_RemoveElement
      <4>4. c' = c - 1
        BY <4>2, <4>3, Zenon
      <4>5. Stage' = Stage /\ Stage = 4
        BY <3>1, <4>1 DEF Stage
      <4> HIDE DEF l, c
      <4> QED
        BY <2>1, <2>3, <3>1, <4>4, <4>5
    <3>3. CASE mailbox[current_id] = {}
      <4>1. exec' = "loop" /\ UNCHANGED mailbox
        BY <2>7, <3>3 DEF PollReceive
      <4>2. Stage = 4 /\ Stage' = 1
        BY <3>1, <4>1 DEF Stage
      <4> HIDE DEF l, c
      <4> QED
        BY <2>1, <2>2, <2>3, <3>1, <4>1, <4>2
    <3> QED
      BY <3>2, <3>3
  <2>8. CASE PollNext
    <3>1. /\ exec = "poll" /\ UNCHANGED <<mailbox, task_queue>>
          /\ \/ scancodes' = scancodes - 1 /\ exec' = "poll"
             \/ scancodes' = scancodes /\ exec' = "register"
      BY <2>8 DEF PollNext, ipcVars
    <3>2. Stage = 4 /\ (exec' = "poll" => Stage' = 4) /\ (exec' = "register" => Stage' = 3)
      BY <3>1 DEF Stage
    <3> HIDE DEF l, c
    <3> QED
      BY <2>1, <2>2, <2>3, <3>1, <3>2
  <2>9. CASE Register
    <3>1. exec = "register" /\ exec' = "recheck" /\ UNCHANGED <<scancodes, mailbox, task_queue>>
      BY <2>9 DEF Register, ipcVars
    <3>2. Stage = 3 /\ Stage' = 2
      BY <3>1 DEF Stage
    <3> HIDE DEF l, c
    <3> QED
      BY <2>1, <2>2, <2>3, <3>1, <3>2
  <2>10. CASE Recheck
    <3>1. /\ exec = "recheck" /\ UNCHANGED <<mailbox, task_queue>>
          /\ \/ scancodes' = scancodes - 1 /\ exec' = "poll"
             \/ scancodes' = scancodes /\ exec' = "loop"
      BY <2>10 DEF Recheck, ipcVars
    <3>2. Stage = 2 /\ (exec' = "poll" => Stage' = 4) /\ (exec' = "loop" => Stage' = 1)
      BY <3>1 DEF Stage
    <3> HIDE DEF l, c
    <3> QED
      BY <2>1, <2>2, <2>3, <3>1, <3>2
  <2>11. ~(\E t \in KTask : Spawn(t)) /\ ~Start /\ ~SleepIfIdle
    BY <1>1 DEF Spawn, Start, SleepIfIdle
  <2>12. ~(\E t \in Receiver : SysSend(t)) /\ ~Tick /\ ~AddScancode
    BY <1>1 DEF SysSend, Tick, AddScancode, Interruptible
  <2> QED
    BY <1>1, <2>4, <2>5, <2>6, <2>7, <2>8, <2>9, <2>10, <2>11, <2>12 DEF ExecNext, RunStep
<1>2. ExecInv /\ [ExecNext]_execVars
         => [in_handler /\ exec \in {"loop", "poll", "register", "recheck"} =>
                StepsLeft' < StepsLeft]_execVars
  BY <1>1
<1> QED
  BY <1>2, ExecInvInvariant, PTL DEF ExecSpec, HandlerComesToEnd
================================================================================
