# Kernel synchronisation in Linux 2.6.11: TLA+ models, checks and proofs

This project models the mechanisms on which the rest of the kernel builds its
concurrency: the two read/write semaphores, read-copy update, work queues,
futexes, System V message queues and timers, with the parts of CPU hotplug and
of kernel threads they depend on. They are small, they are used everywhere, and
their correctness is a matter of interleavings that tests hardly reach.

## 1. Inventory

The kernel has far more parts than can be modelled; `PROJECT.json` lists them
with the reason for each that is left out. The core synchronisation code is:

| Part | State | Operations | What is hard | What makes it correct |
|---|---|---|---|---|
| Spinlock rwsem, `lib/rwsem-spinlock.c` | `activity`, `wait_list` of on-stack records, `wait_lock` | `down_*`, trylocks, `up_*`, `downgrade_write`, wake-up of the queue | the sleeper polls `waiter.task` without the lock; the waker uses a task it has already released | exclusion, no overtaking, no lost wakeup, no use of a task that is gone |
| Xadd rwsem, `lib/rwsem.c`, `include/asm-i386/rwsem.h` | one packed `count`, `wait_list`, `wait_lock` | the same; fast paths are one locked instruction | `count` changes under the owner of `wait_lock`; failed fast paths stay in it until undone | the same, with an exact count at every step |
| RCU, `kernel/rcupdate.c` | control block (`cur`, `completed`, `next_pending`), mask of CPUs, three callback lists per CPU | `call_rcu`, the tasklet, ticks, `rcu_online_cpu`, `rcu_offline_cpu` | lockless reads of the control block, late noticing of grace periods, CPUs that come and go | callbacks wait for readers, every grace period ends, no callback is lost |
| Work queues, `kernel/workqueue.c` | list, sequence numbers and thread per CPU, pending bit and timer per work | `queue_work`, `queue_delayed_work`, cancel, the worker, `flush_workqueue`, take-over on `CPU_DEAD` | worker sleeps on unlocked tests, flush counts, flush from a work, hotplug | a work is in one place, a flush waits for what was queued, every work runs |
| Kernel threads, `kernel/kthread.c` | `kthread_stop_info` | create, bind, stop | stop against a thread that is about to sleep | stop returns |
| CPU hotplug, `kernel/cpu.c` | `cpucontrol`, `cpu_online_map` | `cpu_up`, `cpu_down`, notifiers | holds `cpucontrol` while it waits for threads | everything on a dead CPU finds a new owner |
| Futexes, `kernel/futex.c` | hashed chains of `futex_q` with a lock and `nqueued` per bucket, a key with a counted reference per waiter | wait, wake, requeue with and without comparison, descriptors with poll and close | the waiter sleeps and unqueues on unlocked reads (`list_empty`, `lock_ptr`); requeue changes a waiter's lock, key and chain under it | no lost wakeup, results are true, references are exact, lists change under the right lock |
| Softirqs, tasklets, `kernel/softirq.c` | pending bits, tasklet state bits | raise, run, disable, kill | tasklet runs on one CPU at a time | `tasklet_kill` waits |
| Timers, `kernel/timer.c` | per CPU: a wheel of lists, `timer_jiffies`, `running_timer`, a lock; per timer: `expires`, `base`, a lock | add, mod, three kinds of delete, the softirq, migration of a dead CPU's timers | `base` and `running_timer` are read without locks, timers move between bases, jiffies wraps | timers run at their jiffy, no deadlock, the handler is over when `del_timer_sync` returns |
| Wait queues, completions, `kernel/wait.c`, `kernel/sched.c` | lists, `done` | wait, wake, complete | sleeping on an unlocked condition | no lost wakeup |
| System V IPC, `ipc/msg.c`, `ipc/util.c` | messages, two lists of sleepers, limits, a lock and an RCU-freed, reference-counted object | send, receive, change, remove (semaphores and shared memory are not modelled) | a receiver takes what it is handed without the lock; removal while others sleep on the object | a message is delivered once, nobody sleeps on what is there, no use after free |

How they interact. RCU and the work queues are called back by the hotplug core
(`rcu_cpu_notify`, `workqueue_cpu_callback`) and read `cpu_online_map`. Work
queues use timers (delayed works), wait queues (`more_work`, `work_done`),
kernel threads and the semaphore `cpucontrol`. RCU is driven by the timer tick
and by `schedule()`, and works inside a tasklet. Both semaphores use the
scheduler through `schedule()` and `wake_up_process()`, and a task's reference
count. A message queue's memory is freed by `call_rcu()`. `futex_wait` sleeps
with a timer of `schedule_timeout()`; the timer softirq runs on every tick and
its wheels are emptied by the hotplug core's `CPU_DEAD`.

## 2. Modules and the code

| Module | What it models |
|---|---|
| `RwSem` | the promise of a read/write semaphore: readers, writers, a queue |
| `RwSemSpinlock` | `lib/rwsem-spinlock.c`, implements `RwSem` |
| `RwSemXadd` | `lib/rwsem.c` over the i386 fast paths, implements `RwSem` |
| `Rcu` | `kernel/rcupdate.c`, the plain flavour, with hotplug |
| `Workqueue` | `kernel/workqueue.c`, with `kthread_stop` and `cpucontrol` |
| `Futex` | `kernel/futex.c` |
| `IpcMsg` | one message queue of `ipc/msg.c`, with `ipc/util.c` |
| `Timer` | the timer wheels of `kernel/timer.c`, with hotplug |
| `RwSemSpinlockProofs`, `RwSemXaddProofs`, `RcuProofs`, `WorkqueueProofs`, `FutexProofs`, `TimerProofs`, `IpcMsgProofs` | proofs about these modules |
| `ListLemmas` | facts about lists as sequences, shared by the proofs about futexes and message queues |
| `MC...` | the instances TLC checks |

**How steps are cut.** A region under a spinlock is one step when everything it
touches is only touched under that lock. It is split at each access to
something others read or write without the lock: `waiter->task`, `tsk->state`
and the task's reference count in the semaphores; every locked instruction on
`sem->count`; `cur`, `completed` and `next_pending` in RCU; the worker's state,
its list seen from outside the lock, and the pending bit in the work queues;
`list_empty(&q->list)`, `q->lock_ptr`, the task state and `nqueued` in the
futexes; a receiver's `r_msg` and the plain reference count in the message
queues; `timer->base` and `base->running_timer` in the timers.
Memory accesses are otherwise sequentially consistent, which is what the
barriers in the code are there for.

**Semaphores.** Variables carry the names of the fields; `waiter[t]` and
`flags[t]` are the record on the stack of task `t`. The wake-up path is a
program counter of the task that owns `wait_lock`, with its locals `tsk`,
`woken` or `loop`, and `after` for the place the call returns to (which also
tells `wakewrite` and `downgrading`). A failed trylock changes nothing and has
no action. `spurious_wakeup` is the "wakeup from another source" the loop around
`schedule()` is for; `do_exit` is a task that exits when it no longer uses the
semaphore, which makes the reference taken by the slow path matter. In the xadd
semaphore `WaitingUnit` stands for 2^16; the assumption that there are fewer
tasks is the limit the header states.

**RCU.** `rcp`, `rsp` and `rdp[c]` are `rcu_ctrlblk`, `rcu_state` and each CPU's
`rcu_data`. A CPU is in user mode or idle (`quiet`), in an interrupt on top of
that (`irq`), in the kernel, or in a read-side section, with the tasklet
possibly on top. Three ghost variables say which sections a callback has to wait
for. `take_cpu_down` is an atomic step for all CPUs, as under `stop_machine`.
`cpu_up` and `cpu_down` exclude each other by `cpucontrol`.

**Work queues.** `adding[w]` is a CPU between winning the pending bit (or the
expiry of the timer) and `__queue_work`. `stack[c]` holds the works the worker
is inside of: more than one when a work flushes its own queue and runs the list
by hand. Each entry carries the sequence number it was inserted under, a ghost.
`single` chooses a single-threaded queue. `work_done` is the return of the
work's function.

**Futexes.** An address stands for its key, `hash` for what `hash_futex()` makes
of it: both every collision and its absence are tried. A waiter holds a bucket's
lock for one list operation only, a step; a waker (`pc[k]`, `op[k]` with the
locals of `futex_wake` and `futex_requeue`) holds one or two over its loop, which
is cut at `list_del_init`, `wake_up_all` and `lock_ptr = NULL`. A call with
`stored` is the user-space protocol of the comment in `futex_wait()`: change the
word, then wake. `EINTR` also stands for the timeout, which takes the same path.
`mmap_sem` is taken for reading only and orders nothing here.

**Message queue.** `req[t]` are the arguments of a task's call. `r_msg` is the
field of the receiver's stack record: a message, NULL while its waker is inside
`wake_up_process()`, or an error. `rcu`, `called` and `blockers` are the read
sections, the pending `call_rcu()` and the sections it still waits for; RCU
itself is `Rcu`'s business. `ipc_rcu_putref` is two steps, since `freeque` calls
it without the lock. The walk over the messages is a recursive function. A
process that sends and receives, one call at a time, is a sender and a receiver.

**Timers.** The wheel has `LEVELS` levels of lists, a timer's `entry` names its
list; `Word`, the range of `unsigned long`, is the wheel's whole span, as on 32
bits. `fired[c]` is the timer whose handler CPU `c` is about to run or runs, and
a handler acts as the agent `c` when it starts its own timer again. Inside
`__mod_timer` and `migrate_timers` interrupts are off: their CPU runs no softirq.
`now`, `due` and `twice` are history. The callers keep the rules of the comments:
nobody restarts a timer that is being deleted synchronously, and `add_timer_on`
is called for a timer that nobody else starts, on a CPU that stays online.
`Instance` holds the bounds of a behaviour, chosen at its start.

## 3. Runs

| Run | Checks | States | Result |
|---|---|---|---|
| `rwsem_spinlock` | `TypeOK`, `Exclusion`, `LastReaderWakesWriter`, `WakeTargetAlive`, `RefinesRwSem`, `EveryWaiterServed` | 79,959 | hold |
| `rwsem_xadd` | `TypeOK`, `Exclusion`, `WakeTargetAlive`, `RefinesRwSem` | 168,679 | hold |
| `rwsem_xadd_served` | `EveryWaiterServed` | | violated, finding 1 |
| `rcu` | `TypeOK`, `GracePeriodCoversReaders`, `BatchIsRegistered` | 1,045,500 | hold |
| `rcu_live` | `EveryGracePeriodEnds` | 60,213 | holds |
| `rcu_online` | `FullGracePeriod` | | violated, finding 2 |
| `rcu_offline` | `CallbackReachable` | | violated, finding 3 |
| `workqueue` | `TypeOK`, `PendingGuardsWork`, `FlushWaitsForQueued`, `NoWorkOnDeadCPU`, `EveryWorkRuns` | 135,590 | hold |
| `workqueue_own_flush` | `OwnFlushReturns` | | violated, finding 4 |
| `futex` | `TypeOK`, `BlocksOnlyWhileValueHolds`, `WakesAreReported`, `CmpRequeueSeesNoLateWaiter`, `KeyRefsExact`, `LinksLive`, `EachHandledOnce`, `NoLostWakeup`, `SomeWakerGoesOn` | 3,930,983 | hold |
| `ipc_msg` | `TypeOK`, `MessageInOnePlace`, `NoMissedHandover`, `NoUseAfterFree`, `WalkFindsOldest`, `RemovalEndsCalls` | 1,037,304 | hold |
| `timer` | `TypeOK`, `RunsOnTime`, `UnlinksWhatItLocked`, `SyncWaitsForHandler`, `NoTimerOnDeadCPU`, `SomeHolderGoesOn` | 3,333,088 | hold |

What they show:

- **Semaphores.** Both implementations exclude, count exactly, let nobody
  overtake a queued task and never touch a task that is gone, with readers,
  writers, trylocks and downgrades in any order. The spinlock one serves every
  waiter. `LastReaderWakesWriter` is the argument behind
  `__rwsem_wake_one_writer`, which grants the front record without looking at
  its kind.
- **RCU.** No callback runs before the readers its grace period knows of are
  done, and no batch gets a number that nobody starts. Each callback is invoked
  in the end unless finding 3 strikes.
- **Work queues.** The pending bit keeps a work in one place through
  re-queueing, timers, cancellation and take-over. When a flush goes on to the
  next CPU, every work queued before it sampled the sequence has finished,
  apart from one that is itself inside a flush of that queue. Nothing stays on
  a dead CPU. Every work runs and `kthread_stop` ends, unless finding 4 strikes.
- **Futexes.** A waiter that passed its test stays queued after a store only
  while the storing task has yet to walk the chain, a waiter off its list is
  about to be woken, and whoever was taken off a list returns 0 whatever else
  happened to it. The references of keys are exact through requeues, the
  unlocked copy of `lock_ptr` never makes `unqueue_me` change a list it has not
  locked, and the comparing requeue touches nobody who queued after its test.
  The comment in `unqueue_me` that `lock_ptr` cannot change back to the original
  value is not true of two requeues, there and back, but nothing depends on it.
- **Message queue.** With the lock dropped at every sleep, a message is queued,
  in one receiver's hand or received, exactly once, also when a signal and a
  hand-over meet. Nobody sleeps with the lock free while what it waits for is
  there, the stack frame a waker stores to is alive, the queue's memory outlives
  all who still use it, and after `IPC_RMID` every call returns.
  `WalkFindsOldest` compares the walk with its definition, negative types
  included, for every queue the run reaches.
- **Timers.** The wheel's cascades, its modular distances and the wrap never
  make a timer early or pass it over, nor does a move to a base that is ahead or
  behind. `__mod_timer`, `del_timer` and `migrate_timers` change a list only
  under its base's lock, do not deadlock, and leave nothing on a dead CPU.

**Findings.**

1. `__rwsem_do_wake` compares the whole count with 0 on its undo path
   (`lib/rwsem.c:135`), where its comment speaks of a transition of the active
   count. If the last active task leaves between the attempt and the undo,
   nobody wakes the queue: a task sleeps on a free semaphore until the next
   release that finds the list.
2. `rcu_start_batch` reads the online map before it increments `cur`. The
   readers of a CPU that comes up in between are not waited for.
3. `__rcu_offline_cpu` takes over `curlist` and `nxtlist`, not `donelist`, and
   the dead CPU's tasklet is killed: callbacks that were due are not invoked.
4. `flush_workqueue` takes `cpucontrol` before it finds that the caller is the
   worker. A flusher or `cpu_down` that holds it waits for that very worker.

The passing properties name exactly the cases these findings are about
(`unseen`, `Stranded`, `flushed`, `OwnFlushBlocked`), so they still say that
nothing else goes wrong.

Three more disagreements were met while modelling; they have no run of their own:

- `del_timer_sync` (`kernel/timer.c:343`) promises that "Upon exit the timer is
  not queued and the handler is not running on any CPU". Dropping `periodic` from
  `SyncWaitsForHandler` makes TLC find a timer that starts itself again and runs
  between the end of the wait and the test of `timer_pending()`; the call
  returns with the handler running. Dropping `twice` makes it find a timer that a
  user restarted after its handler returned and before its softirq cleared
  `running_timer`: a second CPU announces it too, and because of the `break`
  only the first of the two is waited for. On a machine that reorders loads
  there is a third way, as nothing orders the read of `base` in `del_timer`
  before those of `running_timer`; the model has loads in order.
- `freeque` drops its reference with the plain decrement of `ipc_rcu_putref`
  after it has unlocked the queue (`ipc/msg.c:199`), while a woken sender does the
  same under the lock. With the two interleaved a decrement is lost and the
  queue's memory is never freed. It is never freed early (`NoUseAfterFree`).
- The comment in `convert_mode` (`ipc/msg.c:648`) speaks of types less than
  `abs(msgtype)`; `testmsg` accepts an equal one, as POSIX has it.

**Bounds.** Three tasks are the fewest with a holder, a queued writer and a
queued reader behind it, the pattern every grant rule is about; they may acquire
any number of times, so the semaphore runs have no bound on length.
`WaitingUnit = 4` is the smallest unit three tasks allow, so that carries between
the halves would show. Two CPUs give every pair of racing accesses in RCU and
in the work queues and allow one to go down and come up again (`MaxHotplug = 2`).
Two callbacks can be in different batches; `maxbatch = 1` makes the tasklet stop
in the middle of `donelist`. RCU's batch numbers grow only with callbacks, so
the runs are finite without a bound on them. Two works, one of which flushes its
queue, two submissions (`MaxSubmit = 2`) and a flusher from outside reach
re-queueing during execution, nested runs and both deadlocks of finding 4.
With two submissions no worker is ever inside of more than two works
(`MaxDepth = 2`).
Callbacks are symmetric in the RCU safety runs; no symmetry is used with liveness.

A waiter, a poller and two wakers with one call each (`MaxOps = 1`) are enough for
a requeue against a wake, against a requeue the other way and against the
waiter's own unqueueing; three waits in all (`MaxCalls`) let a record be used
again, one fault (`MaxFaults`) takes each fault path. Words have two values,
two futexes collide in one bucket or do not. On the message queue, the
limit `QBytes = 2` admits one large or two small messages, so that senders sleep
and are let in by `IPC_SET`; the three types and sizes make every search mode
pass something over, and `-E2BIG` happens. Each receiver calls once (`MaxRecv`),
two `msgctl` calls (`MaxCtl`) allow a change followed by the removal. The timer
run scales the wheel to four levels of two lists and starts three jiffies before
the wrap; timeouts of 0 and 5 jiffies reach levels 1 to 3. Its five
instances are listed in `MCTimer`: two users on one timer; a CPU that goes
down; two timers on one `work_list`; two users who move two timers crosswise; a
migration that meets users on a third CPU, the fewest with which
`migrate_timers` has to back off. `MaxLag = 1` lets each base be up to one jiffy
behind. The assumption that timeout plus lag stay below half the range is needed:
beyond it `internal_add_timer` on a base that lags takes a long timeout for one
in the past, and `MAX_JIFFY_OFFSET` leaves room for a lag of one jiffy only.
In every state of this run `Prompt`, the hypothesis of the theorem
`TimersRunOnTime` of section 4, holds, which is why `RunsOnTime` needs no such
condition here.
Timers and users are symmetric.

**Deadlock** is checked in RCU. It is not in the semaphore runs, where all tasks
may exit, nor in the work queue runs, where all works may be done, nor in the
futex, message queue and timer runs, whose calls are bounded. For the futexes and
the timers it is the invariants `SomeWakerGoesOn` and `SomeHolderGoesOn` that
exclude a deadlock on the locks, and the theorems `NoLockCycle` of section 4 that
do it for any number of tasks and CPUs.

**Fairness.**

- *Semaphores*: a runnable task is run, so the wait loop and the wake-up path
  go on (weak); holders release in the end, the callers' side of the contract
  (weak). In the xadd semaphore a task spinning for `wait_lock` gets it in the
  end (strong); the violation of `EveryWaiterServed` is found in spite of that.
  Nobody is obliged to acquire, downgrade or exit.
- *RCU*: the timer ticks while there is something pending (weak); softirqs run
  and a CPU spinning for the lock gets it (strong); read-side sections end
  (strong); a CPU passes quiescent states again and again, which is RCU's
  assumption about its users (strong); hotplug operations finish.
- *Work queues*: timers expire, runnable threads run, work functions return,
  the hotplug task runs (all weak). `cpucontrol` is taken a bounded number of
  times in the model, so weak fairness is enough to get it.
- *Message queue*: a call in progress goes on (weak). The calls are bounded, so
  a task that spins for the lock gets it. Nobody is obliged to begin a call, and
  signals are not owed to anyone: without removal a sleeper may sleep for ever.
- *Futexes, timers*: only safety is checked, and none is assumed.

## 4. Proofs

What a run shows for its instance, these theorems state for every value of the
constants. Their hypotheses are the named assumptions of the modules, which
TLC evaluates in the runs: finite sets of tasks and CPUs, NULL-like values that
are no members of them, and, for the xadd semaphore, fewer tasks than
`WaitingUnit`, the limit its header states. For the timers they are a wheel
with at least one level of at least two lists, and timeouts that stay, with the
lag of a base, within half the range of `jiffies`, both ways; for the message
queue finitely many senders and messages, and senders, receivers and `Ctl` told
apart; for the futexes finitely many waiters and wakers, and buckets that are
numbers, as their addresses are. The bounds on hotplug events, submissions,
nesting, faults and calls are arbitrary natural numbers.

Two theorems have a hypothesis of their own:

- `ValueHolds` assumes `StoresWakeAll`: who stores to a futex word wakes as many
  as may wait, the protocol of the comment in `futex_wait()`. The `futex` run's
  calls satisfy it. Who wakes fewer leaves the others to whoever it woke.
- `TimersRunOnTime` assumes `[]Prompt`: from the moment a caller computes
  `expires` to the moment `__mod_timer` links the timer, and while a dead CPU's
  timers are moved, `jiffies` does not get half of its range away. The code has no
  such limit, but depends on it: a task that is held up for longer inside
  `mod_timer` hands in a time that has wrapped, and the wheel takes what is past
  for what is far ahead. Without it TLC finds such a behaviour on a wheel small
  enough; on the kernel's 32 bits it takes 24 days at 1000 Hz.

| Module | Theorem | Statement |
|---|---|---|
| `RwSemSpinlockProofs` | `TypesHold` | `Spec => []TypeOK`: `activity` stays between -1 and the number of tasks, references never become negative |
| | `ExclusionHolds` | `Spec => []Exclusion` |
| | `LastReaderWakesWriterHolds` | `Spec => []LastReaderWakesWriter` |
| | `WakeTargetAliveHolds` | `Spec => []WakeTargetAlive` |
| | `Refinement` | `Spec => RefinesRwSem`: every step is a step of `RwSem` or invisible in it |
| `RwSemXaddProofs` | `TypeCorrect` | `Spec => []TypeOK` |
| | `MutualExclusion` | `Spec => []Exclusion`, the exact count included |
| | `NoDeadTarget` | `Spec => []WakeTargetAlive` |
| | `Refinement` | `Spec => RefinesRwSem` |
| `RcuProofs` | `TypeCorrect` | `Spec => []TypeOK` |
| | `GracePeriod` | `Spec => []GracePeriodCoversReaders` |
| | `BatchRegistration` | `Spec => []BatchIsRegistered` |
| `WorkqueueProofs` | `TypeCorrect` | `Spec => []TypeOK` |
| | `PendingIsExclusive` | `Spec => []PendingGuardsWork` |
| | `FlushIsComplete` | `Spec => []FlushWaitsForQueued` |
| | `DeadCPUIsEmpty` | `Spec => []NoWorkOnDeadCPU` |
| `TimerProofs` | `TypeCorrect` | `Spec => []TypeOK` |
| | `UnlinkedUnderLock` | `Spec => []UnlinksWhatItLocked` |
| | `SyncIsComplete` | `Spec => []SyncWaitsForHandler` |
| | `DeadCPUIsEmpty` | `Spec => []NoTimerOnDeadCPU` |
| | `TimersRunOnTime` | `Spec /\ []Prompt => []RunsOnTime` |
| | `NoLockCycle` | `Spec => []SomeHolderUnblocked`: while locks are taken, one of the holders waits for none |
| `FutexProofs` | `TypeCorrect` | `Spec => []TypeOK` |
| | `LinksStayLive` | `Spec => []LinksLive` |
| | `NoWakeupLost` | `Spec => []NoLostWakeup` |
| | `WakesReported` | `Spec => []WakesAreReported` |
| | `HandledOnce` | `Spec => []EachHandledOnce`, for chains of any length |
| | `ReferencesExact` | `Spec => []KeyRefsExact` |
| | `NoLateWaiterSeen` | `Spec => []CmpRequeueSeesNoLateWaiter` |
| | `ValueHolds` | `Spec => []BlocksOnlyWhileValueHolds`, given `StoresWakeAll` |
| | `NoLockCycle` | `Spec => []SomeWakerUnblocked`: while calls are in progress, one of them waits for no bucket's lock |
| `IpcMsgProofs` | `TypeCorrect` | `Spec => []TypeOK` |
| | `DeadQueueUnused` | `Spec => []NoUseAfterFree` |
| | `NoMessageLost` | `Spec => []MessageInOnePlace` |
| | `NoHandoverMissed` | `Spec => []NoMissedHandover` |
| | `WalkIsCorrect` | `Spec => []WalkFindsOldest`, for queues of any length |

Hardly any of these is inductive by itself. Each module defines an inductive
invariant `IInv` in layers, each preserved given the ones before it, and proves
`Invariance`, `Spec => []IInv`; TLC checked each `IInv` on small instances
before it was proved. A layer is proved action by action, from lemmas on what an
action does to the structure the layer is about.

**Spinlock semaphore.**

- `Base`: types; the wake-up path is run by the owner of `wait_lock` and by
  nobody else; its entry points meet a non-empty list. Without it two wakers
  could change `tsk` under each other.
- `Listed`: every linked record is on the stack of a task that still waits, with
  `waiter.task` set, and no task is linked twice. Needed to know that granting
  the front record grants a task that holds nothing.
- `Count`: what `activity` says about the holders in each phase of the wake-up
  path (during the readers' loop it lags by `woken` and the record in hand), and
  who is at the front: while readers hold the semaphore and nobody is waking,
  the front is a writer. This is the strengthening of both `Exclusion` and
  `LastReaderWakesWriter`.
- `Refs`: each task's reference count is one for its life, one while it is
  linked and one while it is in the waker's hand. It gives `WakeTargetAlive`.

The cardinality arguments about the sets of readers and writers are made once,
in lemmas. For the refinement, `Queue` is shown to grow by `Append`, shrink by
`Tail` and otherwise stay as the concrete list does, and each action is matched
with its abstract one; the wake-up loop grants abstract readers one at a time.

**Xadd semaphore.** The layers have the same names; `Count` is a different
argument. `count` is the number of active tasks and attempts minus
`WaitingUnit` for every writer, failed writer and linked record, at every step
and not only with the lock free. Since there are fewer than `WaitingUnit`
tasks, that sum determines its two parts, so one comparison of the whole word
tells a fast path that nobody holds and nobody waits. The readers a waker is
about to release are granted in the count before they are unlinked; that there
is a well-defined number of readers at the front (`FrontReaders`) is shown with
a least counterexample, by the well-foundedness of the natural numbers. In the
refinement the records the waker has granted already are no longer in `Queue`.

**RCU.**

- `TypeOK`, and `Presence`: only CPUs that are up run the tasklet or read.
- `Numbers`: the lock that `rcu_start_batch` holds over its two halves, that no
  CPU is ahead of `cur` and no batch more than one ahead, and
  `BatchIsRegistered`.
- `Queued`: what is on a list has been submitted.
- `Covered`: what each callback still waits for on its way through the lists. A
  reader that a callback of the running batch waits for is in the mask and owes
  a quiescent state (`Owes`: it has not noticed the grace period or not passed
  one since), so the grace period cannot end before it. A callback whose batch
  is over has nobody left to wait for but the `unseen` readers of finding 2.
  `GracePeriodCoversReaders` alone only speaks of the moment of invocation.

**Work queues.**

- `Base`: types, and a stack exactly while the worker is inside of
  `run_workqueue()`, no deeper than `MaxDepth`.
- `Plugged`: flushers that visit CPUs and `cpu_down` exclude each other by
  `cpucontrol` (`Control`), and nothing is about to be linked, queued or running
  on a CPU that is neither up nor being cleaned up (`Settled`).
- `Placed`: a work is about to be linked, on a timer, at one position of one
  list, or just taken off, never in two of these, with its pending bit set and
  `wq_data` naming that CPU.
- `Counted`: on every CPU that is up, `insert_sequence` minus the length of the
  list is `remove_sequence` plus the depth of the stack; the list is numbered up
  to `insert_sequence`; all works on the stack but the innermost have flushed.
  From it follows that a flusher that saw the number it needed has left nothing
  behind. `remove_sequence <= insert_sequence` needs it, too.

**Timers.**

- `Types`, and `InStep`: the base of a CPU that is up is at most one jiffy ahead
  and `MaxLag` behind, so that its signed difference to `jiffies` is the real
  one. The proof attempt showed that this cannot be said of a CPU that is down:
  its base stands still until the difference wraps, and `TypeOK` now speaks of
  online CPUs only. That the size of the wheel is a positive number, which the
  remainders need, comes from the library's theorem on the number of subsets
  of a finite set.
- `Control`: which call may be at which label with which locals (`Calling`), what
  a softirq has announced (`Running`), the dead CPU and its heir (`Plugged`), and
  who holds the lock of a base at which label (`Locked`). Two holders of one lock
  would be two owners of one variable, hence exclusion follows.
- `Placed`: a timer has a base exactly while it is linked or in the hand of that
  base's softirq, and the holder of a base's lock that found the timer there
  still finds it (`Found`): whoever else moves the timer needs the same lock. A
  base that is not up has timers only until `migrate_timers` is through.
- `Synced`: what `del_timer_sync` knows while it goes once over the CPUs. A CPU
  it has passed cannot announce the timer again, as that takes a linked timer
  and the caller is alone (`Alone`); a CPU it waits for is the only one, unless
  the timer is in `twice`. These are the two exceptions of `SyncWaitsForHandler`
  that section 3 describes.
- `Timed`, with `Clock`: `jiffies` is the real time modulo `Word`, and a linked
  timer is in the one list that its `due` belongs to (`Slot`). A list of a level
  has a time at which it is handled (`Start`): the time itself on the first
  level, on the others the multiple of the lower level's span at or before it,
  when it is cascaded. `Slot` says that this is ahead of the base
  (`Place`) by less than the level's span, so that the base comes to it and comes
  to no other list of the same index first. One turn of `__run_timers` then takes
  off the list of the first level what is due now, and each cascade
  moves a timer at its `Start` to a `Slot` of a lower level. The arithmetic
  behind it is proved, not assumed: that spans are products of powers of 2, from
  the number of subsets of a disjoint union; the laws of quotients and
  remainders by them; and that a signed difference determines the real one when
  that is within half the range (`SignedUnique`).
- `Owned`: the converse of `Locked`. A lock that is taken has a holder at a label
  at which it goes on to release it. Two base locks are taken from the higher
  CPU down, hence whoever has the lowest lock that is taken waits for no base
  lock; and `migrate_timers`, the only one to want a timer's lock under a base's,
  does not wait for it.

**Futexes.**

- `Kinds`, `Asked` and `Owning`: types, the arguments of a waker's call, and
  which bucket locks it has at which label.
- `Chained`: the chains hold no record twice; a linked record is in use, and in
  the chain its `lock_ptr` names; a record off its list that still has a
  `lock_ptr` is in the hand of a waker, which is about to clear it. A
  waiter whose unlocked copy of `lock_ptr` still equals the field once it has
  the lock has therefore locked the right chain, although the field may have
  changed there and back in between. `LinksLive` follows.
- `Sleeping`: a waiter that sleeps off its list is on its own wait queue, and a
  waker has yet to do its `wake_up_all()`. It is `NoLostWakeup` strengthened by
  the states on the way to sleep.
- `Reported`: a waiter is off its list because it was hit or because it took
  itself off; `hit` decides which by the time it returns.
- `Walked`: what the loop has touched is no longer ahead of its cursor. When both
  futexes share a bucket, the loop appends to the chain it walks, and stops at
  the first record it has moved (`head1`): what it has handled is exactly what
  follows from there on.
- `Counted`: the references, as cardinalities of sets of holders and of
  drops owed.
- `Unseen`: while a waiter queued after the comparison is in the bucket, `nqueued`
  is above the waker's copy, so that it gives up with `-EAGAIN`.
- `Coming`: a waiter that passed its test and whose word has changed is ahead of
  a waker that stored. Between the store and the end of its walk the waker's
  cursor never passes such a waiter, as it may wake all.

The chains are sequences, and what `list_add_tail` and `list_del` do to the order
of one is in `ListLemmas`. For the lock order, of the finitely many
wakers that wait for their second lock the one whose first lock is highest
waits for one that nobody has.

**Message queue.**

- The walk first. That `Walk` obeys its recursive definition, and that after `i`
  messages it knows the best of them (`Seen`), is shown for every queue with a
  least counterexample, not by induction over the list.
- `Calling` and `Kinds`: places, arguments and types, with integers for what is
  counted down; `Control`: who is in a section under the lock owns it, and a
  read section lasts as long as its labels say.
- `Listed`: a receiver that waits with `-EAGAIN` is linked to a queue that
  exists; whoever has set its `r_msg` to NULL finds it in its call until it has
  stored the result; and what `expunge_all()` has given those it has visited.
  A receiver that IPC_RMID has expunged may return while its record is still
  linked, which is why the layer tells the visited records from the others.
- `Counted`: the count is at least the number of senders that sleep or have yet
  to drop their reference, plus one for the id, and so is every copy of it that
  a task is about to write back. Equality does not hold: when `freeque()` and a
  sender drop theirs at once, one decrement is lost and the queue is never freed.
  Once `call_rcu()` has been called that number is 0, and all who are going to
  use the queue are in a read section it waits for.
- `Sending`, `Placed`: a message being sent has one sender and is nowhere; the
  queue, the hand of a receiver and `got` exclude each other.
- `Sized`: `q_qnum` and `q_cbytes` are the number of the messages and of their
  bytes. The sum of the sizes is stated as the cardinality of a set of bytes,
  since the provers know cardinalities and no sums.
- `Handed`: no queued message matches a linked receiver that waits; who sleeps
  unwoken on the list may read the queue or `expunge_all()` has yet to come to
  it; a linked sender that sleeps unwoken has no room, or `msgctl()` has yet to
  wake it. With the lock free this is `NoMissedHandover`.

Only model-checked:

- liveness (`EveryWaiterServed`, `EveryGracePeriodEnds`, `EveryWorkRuns`,
  `RemovalEndsCalls`): beyond the prover;
- `SomeHolderGoesOn` and `SomeWakerGoesOn`, which are about `ENABLED`. What they
  say about the locks is proved as `NoLockCycle`, with the guards written out.

## 5. Not modelled

- RCU: the `bh` flavour (the same functions over a second control block),
  `nohz_cpu_mask` (only s390 sets it), `synchronize_kernel` (`call_rcu` and a
  completion). Wrapping of batch numbers, which takes 2^32 grace periods.
- Work queues: `destroy_workqueue`, `CPU_UP_CANCELED`, failure to create a thread.
- kthread creation; notifier registration and `CPU_DOWN_FAILED` of the hotplug core.
- Futexes: `get_futex_key` and its errors (a page table walk that changes no
  state of the futexes), the allocation of a descriptor, `SIGIO`.
- System V IPC: the ids and their reuse, `IPC_STAT`, `ipc/sem.c`, `ipc/shm.c`, the
  security hooks, the copying of messages from and to user space.
- Timers: `init_timers_cpu` of a CPU that comes back (it initialises a base's
  lock that a delayed `del_timer` may still want), `next_timer_interrupt`, the time
  of day, `schedule_timeout` and the system calls; the order within one list.
- Weak memory orderings; the tracing in the semaphores.
- The rest of the kernel, listed with reasons in `PROJECT.json`.

## 6. Plan

Done: `RwSem`, `RwSemSpinlock` and `RwSemXadd` with proofs and refinement, `Rcu`,
`Workqueue`, `Futex`, `Timer` and `IpcMsg` with proofs. Every invariant that the
runs check is proved, but for the two about `ENABLED`.

Next, in this order: `destroy_workqueue` and `CPU_UP_CANCELED` in `Workqueue`;
`ipc/sem.c`; `Tasklet` (`kernel/softirq.c`).
