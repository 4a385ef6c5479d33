---------------------------- MODULE RwSemSpinlock ----------------------------
(***************************************************************************)
(* The generic read/write semaphore, lib/rwsem-spinlock.c: an activity     *)
(* count and a FIFO list of on-stack waiter records, both under            *)
(* sem->wait_lock.                                                         *)
(*                                                                         *)
(* A region under wait_lock that only touches the count and the list is    *)
(* one step: nobody else can see its intermediate states.  The wake-up     *)
(* path is split, because three things it writes are read without the      *)
(* lock: waiter->task (polled by the sleeping owner), the task's state     *)
(* (set by wake_up_process) and the task's reference count.  Between       *)
(* "waiter->task = NULL" and "wake_up_process(tsk)" the owner may already  *)
(* have returned from down_*(), reused its stack and exited.               *)
(***************************************************************************)
EXTENDS Integers, Sequences, FiniteSets

CONSTANTS
  Task,      \* tasks that use the semaphore
  NoTask     \* the NULL task pointer

ASSUME TaskAssumption == IsFiniteSet(Task) /\ NoTask \notin Task

VARIABLES
  activity,    \* sem->activity: readers active, or -1 for a writer
  wait_list,   \* sem->wait_list: the tasks whose waiter records are linked
  wait_lock,   \* owner of sem->wait_lock between steps, or NoTask
  waiter,      \* waiter[t]: waiter.task of the record on t's stack
  flags,       \* flags[t]: waiter.flags of that record
  state,       \* tsk->state
  usage,       \* task_struct reference count
  pc,          \* where each task is
  tsk,         \* wait_lock owner's local: the task it is about to wake
  woken,       \* wait_lock owner's local: readers woken so far
  after        \* where the wait_lock owner's call returns to

vars == <<activity, wait_list, wait_lock, waiter, flags, state, usage, pc,
          tsk, woken, after>>

sem == <<activity, wait_list, wait_lock>>
waiters == <<waiter, flags>>
tasks == <<state, usage>>
locals == <<tsk, woken, after>>

Flags == {"read", "write"}   \* RWSEM_WAITING_FOR_READ / _WRITE
State == {"running", "uninterruptible"}
WakePC == {"wake_one_writer", "do_wake", "wake_writer", "readers", "wake_reader"}
PC == {"idle", "read", "write", "wait", "schedule", "dead"} \cup WakePC

TypeOK ==
  /\ activity \in -1..Cardinality(Task)
  /\ wait_list \in Seq(Task)
  /\ wait_lock \in Task \cup {NoTask}
  /\ waiter \in [Task -> Task \cup {NoTask}]
  /\ flags \in [Task -> Flags]
  /\ state \in [Task -> State]
  /\ usage \in [Task -> Nat]
  /\ pc \in [Task -> PC]
  /\ tsk \in Task \cup {NoTask}
  /\ woken \in Nat
  /\ after \in {"idle", "read"}

Init ==
  /\ activity = 0
  /\ wait_list = <<>>
  /\ wait_lock = NoTask
  /\ waiter = [t \in Task |-> NoTask]
  /\ flags = [t \in Task |-> "read"]
  /\ state = [t \in Task |-> "running"]
  /\ usage = [t \in Task |-> 1]
  /\ pc = [t \in Task |-> "idle"]
  /\ tsk = NoTask /\ woken = 0 /\ after = "idle"

-----------------------------------------------------------------------------
(* Acquiring. *)

Goto(t, l) == pc' = [pc EXCEPT ![t] = l]

(* Mutant: the slow path forgets get_task_struct(tsk). *)
Enqueue_no_get_task(t, f) ==
  /\ state' = [state EXCEPT ![t] = "uninterruptible"]
  /\ waiter' = [waiter EXCEPT ![t] = t]
  /\ flags' = [flags EXCEPT ![t] = f]
  /\ wait_list' = Append(wait_list, t)
  /\ Goto(t, "wait")
  /\ UNCHANGED <<activity, wait_lock, usage, locals>>

(* The slow path of down_read and down_write: link a record on my stack at  *)
(* the tail, then wait for waiter.task to be cleared.                       *)
Enqueue(t, f) ==
  /\ state' = [state EXCEPT ![t] = "uninterruptible"]
  /\ waiter' = [waiter EXCEPT ![t] = t]
  /\ flags' = [flags EXCEPT ![t] = f]
  /\ usage' = [usage EXCEPT ![t] = @ + 1]
  /\ wait_list' = Append(wait_list, t)
  /\ Goto(t, "wait")
  /\ UNCHANGED <<activity, wait_lock, locals>>

(* Mutant: a reader is let in although somebody is queued. *)
ReadFree_ignores_queue == activity >= 0

ReadFree == activity >= 0 /\ wait_list = <<>>

WriteFree == activity = 0 /\ wait_list = <<>>

GrantRead(t) ==
  /\ ReadFree
  /\ activity' = activity + 1
  /\ Goto(t, "read")
  /\ UNCHANGED <<wait_list, wait_lock, waiters, tasks, locals>>

GrantWrite(t) ==
  /\ WriteFree
  /\ activity' = -1
  /\ Goto(t, "write")
  /\ UNCHANGED <<wait_list, wait_lock, waiters, tasks, locals>>

down_read(t) ==
  /\ pc[t] = "idle" /\ wait_lock = NoTask
  /\ \/ GrantRead(t)
     \/ ~ReadFree /\ Enqueue(t, "read")

down_write(t) ==
  /\ pc[t] = "idle" /\ wait_lock = NoTask
  /\ \/ GrantWrite(t)
     \/ ~WriteFree /\ Enqueue(t, "write")

(* A trylock that fails returns 0 and changes nothing. *)
down_read_trylock(t) ==
  /\ pc[t] = "idle" /\ wait_lock = NoTask
  /\ GrantRead(t)

down_write_trylock(t) ==
  /\ pc[t] = "idle" /\ wait_lock = NoTask
  /\ GrantWrite(t)

(* The wait loop, run without wait_lock. *)
wait_check(t) ==
  /\ pc[t] = "wait"
  /\ IF waiter[t] = NoTask
     THEN /\ state' = [state EXCEPT ![t] = "running"]
          /\ Goto(t, flags[t])
     ELSE /\ Goto(t, "schedule")
          /\ UNCHANGED state
  /\ UNCHANGED <<sem, waiters, usage, locals>>

(* schedule() returns once something has made the task runnable. *)
schedule_return(t) ==
  /\ pc[t] = "schedule" /\ state[t] = "running"
  /\ state' = [state EXCEPT ![t] = "uninterruptible"]
  /\ Goto(t, "wait")
  /\ UNCHANGED <<sem, waiters, usage, locals>>

-----------------------------------------------------------------------------
(* Releasing.  The caller drops its hold and, when somebody may be woken,   *)
(* keeps wait_lock while it walks the list.                                 *)

StartWake(t, where, ret) ==
  /\ wait_lock' = t
  /\ after' = ret
  /\ Goto(t, where)

Unlock(t) ==
  /\ wait_lock' = NoTask
  /\ Goto(t, after)

(* up_read: only the last reader wakes, and it wakes one writer. *)
up_read(t) ==
  /\ pc[t] = "read" /\ wait_lock = NoTask
  /\ activity' = activity - 1
  /\ \/ /\ activity - 1 = 0 /\ wait_list # <<>>
        /\ StartWake(t, "wake_one_writer", "idle")
     \/ /\ ~(activity - 1 = 0 /\ wait_list # <<>>)
        /\ Goto(t, "idle")
        /\ UNCHANGED <<wait_lock, after>>
  /\ UNCHANGED <<wait_list, waiters, tasks, tsk, woken>>

up_write(t) ==
  /\ pc[t] = "write" /\ wait_lock = NoTask
  /\ activity' = 0
  /\ \/ /\ wait_list # <<>>
        /\ StartWake(t, "do_wake", "idle")
     \/ /\ wait_list = <<>>
        /\ Goto(t, "idle")
        /\ UNCHANGED <<wait_lock, after>>
  /\ UNCHANGED <<wait_list, waiters, tasks, tsk, woken>>

(* Mutant: the downgrade does not wake the readers at the front. *)
downgrade_write_no_wake(t) ==
  /\ pc[t] = "write" /\ wait_lock = NoTask
  /\ activity' = 1
  /\ Goto(t, "read")
  /\ UNCHANGED <<wait_list, wait_lock, waiters, tasks, locals>>

downgrade_write(t) ==
  /\ pc[t] = "write" /\ wait_lock = NoTask
  /\ activity' = 1
  /\ \/ /\ wait_list # <<>>
        /\ StartWake(t, "do_wake", "read")
     \/ /\ wait_list = <<>>
        /\ Goto(t, "read")
        /\ UNCHANGED <<wait_lock, after>>
  /\ UNCHANGED <<wait_list, waiters, tasks, tsk, woken>>

(* list_del(&waiter->list); tsk = waiter->task; waiter->task = NULL *)
GrantFront ==
  /\ wait_list' = Tail(wait_list)
  /\ tsk' = Head(wait_list)
  /\ waiter' = [waiter EXCEPT ![Head(wait_list)] = NoTask]

(* Mutant: the record is granted, but its owner is not woken. *)
WakeAndPut_no_wake ==
  /\ usage' = [usage EXCEPT ![tsk] = @ - 1]
  /\ UNCHANGED state

(* wake_up_process(tsk); put_task_struct(tsk) *)
WakeAndPut ==
  /\ state' = [state EXCEPT ![tsk] = "running"]
  /\ usage' = [usage EXCEPT ![tsk] = @ - 1]

wake_one_writer(t) ==
  /\ pc[t] = "wake_one_writer"
  /\ activity' = -1
  /\ GrantFront
  /\ Goto(t, "wake_writer")
  /\ UNCHANGED <<wait_lock, flags, tasks, woken, after>>

(* Mutant: "wakewrite" is ignored. *)
do_wake_writer_downgrading(t) ==
  /\ pc[t] = "do_wake"
  /\ flags[Head(wait_list)] = "write"
  /\ activity' = -1
  /\ GrantFront
  /\ Goto(t, "wake_writer")
  /\ UNCHANGED <<wait_lock, flags, tasks, woken, after>>

(* __rwsem_do_wake(sem, wakewrite), where wakewrite is (after = "idle"). *)
do_wake_writer(t) ==
  /\ pc[t] = "do_wake" /\ after = "idle"
  /\ flags[Head(wait_list)] = "write"
  /\ activity' = -1
  /\ GrantFront
  /\ Goto(t, "wake_writer")
  /\ UNCHANGED <<wait_lock, flags, tasks, woken, after>>

do_wake_out(t) ==
  /\ pc[t] = "do_wake" /\ after = "read"
  /\ flags[Head(wait_list)] = "write"
  /\ Unlock(t)
  /\ UNCHANGED <<activity, wait_list, waiters, tasks, locals>>

do_wake_readers(t) ==
  /\ pc[t] = "do_wake"
  /\ flags[Head(wait_list)] = "read"
  /\ woken' = 0
  /\ Goto(t, "readers")
  /\ UNCHANGED <<sem, waiters, tasks, tsk, after>>

ReaderAtFront == wait_list # <<>> /\ flags[Head(wait_list)] = "read"

readers_loop(t) ==
  /\ pc[t] = "readers" /\ ReaderAtFront
  /\ GrantFront
  /\ Goto(t, "wake_reader")
  /\ UNCHANGED <<activity, wait_lock, flags, tasks, woken, after>>

readers_done(t) ==
  /\ pc[t] = "readers" /\ ~ReaderAtFront
  /\ activity' = activity + woken
  /\ Unlock(t)
  /\ UNCHANGED <<wait_list, waiters, tasks, locals>>

wake_reader(t) ==
  /\ pc[t] = "wake_reader"
  /\ WakeAndPut
  /\ woken' = woken + 1
  /\ Goto(t, "readers")
  /\ UNCHANGED <<sem, waiters, tsk, after>>

wake_writer(t) ==
  /\ pc[t] = "wake_writer"
  /\ WakeAndPut
  /\ Unlock(t)
  /\ UNCHANGED <<activity, wait_list, waiters, locals>>

-----------------------------------------------------------------------------
(* The environment: a wakeup "from another source" (the reason for the loop *)
(* around schedule), and a task that exits once it uses the semaphore no    *)
(* more, dropping the reference it was created with.                        *)

spurious_wakeup(t) ==
  /\ pc[t] \in {"wait", "schedule"}
  /\ state' = [state EXCEPT ![t] = "running"]
  /\ UNCHANGED <<sem, waiters, usage, pc, locals>>

do_exit(t) ==
  /\ pc[t] = "idle"
  /\ usage' = [usage EXCEPT ![t] = @ - 1]
  /\ Goto(t, "dead")
  /\ UNCHANGED <<sem, waiters, state, locals>>

Acquire(t) == \/ down_read(t) \/ down_write(t)
              \/ down_read_trylock(t) \/ down_write_trylock(t)

Wakeup(t) == \/ wake_one_writer(t) \/ do_wake_writer(t) \/ do_wake_out(t)
             \/ do_wake_readers(t) \/ readers_loop(t) \/ readers_done(t)
             \/ wake_reader(t) \/ wake_writer(t)

Next ==
  \E t \in Task :
    \/ Acquire(t) \/ wait_check(t) \/ schedule_return(t)
    \/ up_read(t) \/ up_write(t) \/ downgrade_write(t)
    \/ Wakeup(t)
    \/ spurious_wakeup(t) \/ do_exit(t)

Spec == Init /\ [][Next]_vars

(* The scheduler runs a runnable task, so the wait loop and the wake-up     *)
(* path progress; and a holder releases in the end, which is the callers'   *)
(* side of the contract.  Nobody has to acquire, downgrade or exit.         *)
Fairness ==
  \A t \in Task :
    /\ WF_vars(wait_check(t)) /\ WF_vars(schedule_return(t))
    /\ WF_vars(Wakeup(t))
    /\ WF_vars(up_read(t) \/ up_write(t))

FairSpec == Spec /\ Fairness
-----------------------------------------------------------------------------
(* Properties. *)

(* A queued task is granted the moment its waiter.task is cleared. *)
Granted(t) == pc[t] \in {"wait", "schedule"} /\ waiter[t] = NoTask

Readers == {t \in Task : \/ pc[t] = "read"
                         \/ pc[t] \in WakePC /\ after = "read"
                         \/ Granted(t) /\ flags[t] = "read"}

Writers == {t \in Task : \/ pc[t] = "write"
                         \/ Granted(t) /\ flags[t] = "write"}

(* A writer is alone: no interleaving of the fast paths, the trylocks, a    *)
(* downgrade and the wake-up loop lets a second writer or a reader in, and  *)
(* whenever wait_lock is free sem->activity says exactly who is inside.     *)
Exclusion ==
  /\ \A t, u \in Writers : t = u
  /\ Writers = {} \/ Readers = {}
  /\ wait_lock = NoTask =>
       activity = IF Writers # {} THEN -1 ELSE Cardinality(Readers)

(* __rwsem_wake_one_writer never looks at waiter->flags: it relies on the   *)
(* front of the list being a writer whenever the last reader leaves.  A     *)
(* reader granted there would be accounted as a writer.                     *)
LastReaderWakesWriter ==
  \A t \in Task : pc[t] = "wake_one_writer" =>
    wait_list # <<>> /\ flags[Head(wait_list)] = "write"

(* The waker's use of tsk after waiter->task = NULL is safe: the reference  *)
(* taken when the task queued itself keeps its task_struct allocated even   *)
(* when the task has already left down_*() and exited.  Records still       *)
(* linked belong to tasks still inside the wait loop, so the list never     *)
(* runs through a stack frame that has been popped.                         *)
WakeTargetAlive ==
  /\ \A t \in Task : pc[t] \in {"wake_reader", "wake_writer"} => usage[tsk] > 0
  /\ \A i \in DOMAIN wait_list :
       /\ pc[wait_list[i]] \in {"wait", "schedule"}
       /\ waiter[wait_list[i]] = wait_list[i]

Queue == [i \in DOMAIN wait_list |->
            [task |-> wait_list[i], mode |-> flags[wait_list[i]]]]

(* The implementation is a read/write semaphore: every step is a step of    *)
(* the abstract one or invisible in it.                                     *)
Abstract == INSTANCE RwSem WITH
  readers <- Readers, writers <- Writers, queue <- Queue

RefinesRwSem == Abstract!Spec

(* Nobody sleeps for ever: a task that queued itself gets the semaphore, as *)
(* long as holders release it.  A wakeup lost between waiter.task = NULL,   *)
(* the check of it and schedule() would leave a granted task asleep.        *)
EveryWaiterServed ==
  \A t \in Task : pc[t] = "wait" ~> pc[t] \in {"read", "write"}
=============================================================================
