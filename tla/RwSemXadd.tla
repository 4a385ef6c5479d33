------------------------------ MODULE RwSemXadd ------------------------------
(***************************************************************************)
(* The optimised read/write semaphore: the i386 fast paths of              *)
(* include/asm-i386/rwsem.h, which change sem->count with one locked       *)
(* instruction and no spinlock, and the contention paths of lib/rwsem.c,   *)
(* which run under sem->wait_lock.                                         *)
(*                                                                         *)
(* sem->count packs two numbers: the low half counts active tasks, the     *)
(* high half is minus the number of tasks that wait or write.  A task      *)
(* whose fast path failed has already changed the count; it undoes that    *)
(* when it gets wait_lock and links itself.  So between any two atomic     *)
(* operations of a lock owner the count may change under it, and that is   *)
(* what the steps below are cut at.                                        *)
(***************************************************************************)
EXTENDS Integers, Sequences, FiniteSets

CONSTANTS
  Task,          \* tasks that use the semaphore
  NoTask,        \* the NULL task pointer
  WaitingUnit    \* -RWSEM_WAITING_BIAS = 1 + RWSEM_ACTIVE_MASK, 2^16 on i386

ASSUME TaskAssumption == IsFiniteSet(Task) /\ NoTask \notin Task

(* The header's limit on processes: the active part never overflows. *)
ASSUME UnitAssumption ==
  WaitingUnit \in Nat /\ Cardinality(Task) < WaitingUnit

VARIABLES
  count,       \* sem->count
  wait_list,   \* sem->wait_list
  wait_lock,   \* owner of sem->wait_lock between steps, or NoTask
  waiter,      \* waiter[t]: waiter.task of the record on t's stack
  flags,       \* flags[t]: waiter.flags of that record
  state,       \* tsk->state
  usage,       \* task_struct reference count
  pc,          \* where each task is
  tsk,         \* wait_lock owner's local: the task it is about to wake
  loop,        \* wait_lock owner's local: readers still to be woken
  after        \* where the wait_lock owner's call returns to

vars == <<count, wait_list, wait_lock, waiter, flags, state, usage, pc,
          tsk, loop, after>>

waiters == <<waiter, flags>>
tasks == <<state, usage>>
locals == <<tsk, loop, after>>

ACTIVE_BIAS == 1
WAITING_BIAS == -WaitingUnit
ACTIVE_WRITE_BIAS == WAITING_BIAS + ACTIVE_BIAS

(* count & RWSEM_ACTIVE_MASK, of a two's complement number *)
Active(c) == c % WaitingUnit

Flags == {"read", "write"}
State == {"running", "uninterruptible"}
(* program counters of the owner of wait_lock *)
OwnerPC == {"do_wake", "undo", "wake_writer", "readers_only", "readers", "wake_reader"}
PC == {"idle", "read", "write", "failed", "wait", "schedule", "dead",
       "rwsem_wake", "downgrade_wake"} \cup OwnerPC

TypeOK ==
  /\ count \in Int
  /\ wait_list \in Seq(Task)
  /\ wait_lock \in Task \cup {NoTask}
  /\ waiter \in [Task -> Task \cup {NoTask}]
  /\ flags \in [Task -> Flags]
  /\ state \in [Task -> State]
  /\ usage \in [Task -> Nat]
  /\ pc \in [Task -> PC]
  /\ tsk \in Task \cup {NoTask}
  /\ loop \in Nat
  /\ after \in {"idle", "read", "wait"}

Init ==
  /\ count = 0
  /\ wait_list = <<>>
  /\ wait_lock = NoTask
  /\ waiter = [t \in Task |-> NoTask]
  /\ flags = [t \in Task |-> "read"]
  /\ state = [t \in Task |-> "running"]
  /\ usage = [t \in Task |-> 1]
  /\ pc = [t \in Task |-> "idle"]
  /\ tsk = NoTask /\ loop = 0 /\ after = "idle"

Goto(t, l) == pc' = [pc EXCEPT ![t] = l]

-----------------------------------------------------------------------------
(* Fast paths: one locked instruction each, decided by its result. *)

down_read(t) ==
  /\ pc[t] = "idle"
  /\ count' = count + ACTIVE_BIAS
  /\ flags' = [flags EXCEPT ![t] = "read"]
  /\ Goto(t, IF count' < 0 THEN "failed" ELSE "read")
  /\ UNCHANGED <<wait_list, wait_lock, waiter, tasks, locals>>

(* Mutant: the test is on the active half only, as if nobody could queue. *)
down_write_ignores_queue(t) ==
  /\ pc[t] = "idle"
  /\ count' = count + ACTIVE_WRITE_BIAS
  /\ flags' = [flags EXCEPT ![t] = "write"]
  /\ Goto(t, IF Active(count) # 0 THEN "failed" ELSE "write")
  /\ UNCHANGED <<wait_list, wait_lock, waiter, tasks, locals>>

down_write(t) ==
  /\ pc[t] = "idle"
  /\ count' = count + ACTIVE_WRITE_BIAS
  /\ flags' = [flags EXCEPT ![t] = "write"]
  /\ Goto(t, IF count # 0 THEN "failed" ELSE "write")
  /\ UNCHANGED <<wait_list, wait_lock, waiter, tasks, locals>>

(* The trylocks change the count only when they succeed. *)
down_read_trylock(t) ==
  /\ pc[t] = "idle"
  /\ count + ACTIVE_BIAS > 0
  /\ count' = count + ACTIVE_BIAS
  /\ Goto(t, "read")
  /\ UNCHANGED <<wait_list, wait_lock, waiters, tasks, locals>>

down_write_trylock(t) ==
  /\ pc[t] = "idle"
  /\ count = 0
  /\ count' = ACTIVE_WRITE_BIAS
  /\ Goto(t, "write")
  /\ UNCHANGED <<wait_list, wait_lock, waiters, tasks, locals>>

(* "decw %dx" on the old value: was I the only active task? *)
LastActive == Active(count) = 1

up_read(t) ==
  /\ pc[t] = "read"
  /\ count' = count - ACTIVE_BIAS
  /\ Goto(t, IF count' < 0 /\ LastActive THEN "rwsem_wake" ELSE "idle")
  /\ UNCHANGED <<wait_list, wait_lock, waiters, tasks, locals>>

up_write(t) ==
  /\ pc[t] = "write"
  /\ count' = count - ACTIVE_WRITE_BIAS
  /\ Goto(t, IF count' # 0 /\ LastActive THEN "rwsem_wake" ELSE "idle")
  /\ UNCHANGED <<wait_list, wait_lock, waiters, tasks, locals>>

downgrade_write(t) ==
  /\ pc[t] = "write"
  /\ count' = count - WAITING_BIAS
  /\ Goto(t, IF count' < 0 THEN "downgrade_wake" ELSE "read")
  /\ UNCHANGED <<wait_list, wait_lock, waiters, tasks, locals>>

-----------------------------------------------------------------------------
(* Contention paths. *)

Lock(t, ret) == wait_lock' = t /\ after' = ret

Unlock(t) == wait_lock' = NoTask /\ Goto(t, after)

(* What a queued request leaves in the count instead of its fast path bias. *)
Adjustment(f) ==
  IF f = "read" THEN WAITING_BIAS - ACTIVE_BIAS ELSE -ACTIVE_BIAS

(* Mutant: the contention path forgets get_task_struct(tsk). *)
down_failed_no_get_task(t) ==
  /\ pc[t] = "failed" /\ wait_lock = NoTask
  /\ state' = [state EXCEPT ![t] = "uninterruptible"]
  /\ waiter' = [waiter EXCEPT ![t] = t]
  /\ wait_list' = Append(wait_list, t)
  /\ count' = count + Adjustment(flags[t])
  /\ Goto(t, IF Active(count') = 0 THEN "do_wake" ELSE "wait")
  /\ IF Active(count') = 0 THEN Lock(t, "wait") ELSE UNCHANGED <<wait_lock, after>>
  /\ UNCHANGED <<flags, usage, tsk, loop>>

(* rwsem_down_failed_common *)
down_failed(t) ==
  /\ pc[t] = "failed" /\ wait_lock = NoTask
  /\ state' = [state EXCEPT ![t] = "uninterruptible"]
  /\ waiter' = [waiter EXCEPT ![t] = t]
  /\ usage' = [usage EXCEPT ![t] = @ + 1]
  /\ wait_list' = Append(wait_list, t)
  /\ count' = count + Adjustment(flags[t])
  /\ \/ /\ Active(count') = 0
        /\ Lock(t, "wait")
        /\ Goto(t, "do_wake")
     \/ /\ Active(count') # 0
        /\ Goto(t, "wait")
        /\ UNCHANGED <<wait_lock, after>>
  /\ UNCHANGED <<flags, tsk, loop>>

wait_check(t) ==
  /\ pc[t] = "wait"
  /\ IF waiter[t] = NoTask
     THEN /\ state' = [state EXCEPT ![t] = "running"]
          /\ Goto(t, flags[t])
     ELSE /\ Goto(t, "schedule")
          /\ UNCHANGED state
  /\ UNCHANGED <<count, wait_list, wait_lock, waiters, usage, locals>>

schedule_return(t) ==
  /\ pc[t] = "schedule" /\ state[t] = "running"
  /\ state' = [state EXCEPT ![t] = "uninterruptible"]
  /\ Goto(t, "wait")
  /\ UNCHANGED <<count, wait_list, wait_lock, waiters, usage, locals>>

rwsem_wake(t) ==
  /\ pc[t] = "rwsem_wake" /\ wait_lock = NoTask
  /\ \/ /\ wait_list # <<>>
        /\ Lock(t, "idle")
        /\ Goto(t, "do_wake")
     \/ /\ wait_list = <<>>
        /\ Goto(t, "idle")
        /\ UNCHANGED <<wait_lock, after>>
  /\ UNCHANGED <<count, wait_list, waiters, tasks, tsk, loop>>

ReaderAtFront == wait_list # <<>> /\ flags[Head(wait_list)] = "read"

(* rwsem_downgrade_wake, with do_wake's test for a writer at the front *)
rwsem_downgrade_wake(t) ==
  /\ pc[t] = "downgrade_wake" /\ wait_lock = NoTask
  /\ \/ /\ ReaderAtFront
        /\ Lock(t, "read")
        /\ Goto(t, "readers_only")
     \/ /\ ~ReaderAtFront
        /\ Goto(t, "read")
        /\ UNCHANGED <<wait_lock, after>>
  /\ UNCHANGED <<count, wait_list, waiters, tasks, tsk, loop>>

(* __rwsem_do_wake from try_again: take the active part from 0 to 1, then   *)
(* hand that 1 to the writer at the front or fold it into the readers'.     *)
do_wake_busy(t) ==
  /\ pc[t] = "do_wake"
  /\ count' = count + ACTIVE_BIAS
  /\ Active(count) # 0
  /\ Goto(t, "undo")
  /\ UNCHANGED <<wait_list, wait_lock, waiters, tasks, locals>>

do_wake_writer(t) ==
  /\ pc[t] = "do_wake"
  /\ count' = count + ACTIVE_BIAS
  /\ Active(count) = 0 /\ ~ReaderAtFront
  /\ wait_list' = Tail(wait_list)
  /\ tsk' = Head(wait_list)
  /\ waiter' = [waiter EXCEPT ![Head(wait_list)] = NoTask]
  /\ Goto(t, "wake_writer")
  /\ UNCHANGED <<wait_lock, flags, tasks, loop, after>>

do_wake_readers(t) ==
  /\ pc[t] = "do_wake"
  /\ count' = count + ACTIVE_BIAS
  /\ Active(count) = 0 /\ ReaderAtFront
  /\ Goto(t, "readers_only")
  /\ UNCHANGED <<wait_list, wait_lock, waiters, tasks, locals>>

(* undo: "if (rwsem_atomic_update(-RWSEM_ACTIVE_BIAS, sem) != 0) goto out", *)
(* else goto try_again.  The test is on the whole count, not on its active  *)
(* part, so it sends the owner back only when nobody waits.                 *)
do_wake_undo(t) ==
  /\ pc[t] = "undo"
  /\ count' = count - ACTIVE_BIAS
  /\ wait_lock' = IF count' # 0 THEN NoTask ELSE t
  /\ Goto(t, IF count' # 0 THEN after ELSE "do_wake")
  /\ UNCHANGED <<wait_list, waiters, tasks, locals>>

(* How many readers stand at the front of the list. *)
FrontReaders ==
  CHOOSE n \in 1..Len(wait_list) :
    /\ \A i \in 1..n : flags[wait_list[i]] = "read"
    /\ n = Len(wait_list) \/ flags[wait_list[n + 1]] # "read"

(* Mutant: the increment already done at try_again is counted twice. *)
readers_only_twice(t) ==
  /\ pc[t] = "readers_only"
  /\ loop' = FrontReaders
  /\ count' = count + FrontReaders * (ACTIVE_BIAS - WAITING_BIAS)
  /\ Goto(t, "readers")
  /\ UNCHANGED <<wait_list, wait_lock, waiters, tasks, tsk, after>>

readers_only(t) ==
  /\ pc[t] = "readers_only"
  /\ loop' = FrontReaders
  /\ count' = count + FrontReaders * (ACTIVE_BIAS - WAITING_BIAS)
                    - (IF after = "read" THEN 0 ELSE ACTIVE_BIAS)
  /\ Goto(t, "readers")
  /\ UNCHANGED <<wait_list, wait_lock, waiters, tasks, tsk, after>>

(* The list head is moved past each record before its owner is released:    *)
(* the code reads waiter->list.next first and stores the head at the end,   *)
(* and nobody else may look at the list meanwhile.                          *)
readers_loop(t) ==
  /\ pc[t] = "readers" /\ loop > 0
  /\ wait_list' = Tail(wait_list)
  /\ tsk' = Head(wait_list)
  /\ waiter' = [waiter EXCEPT ![Head(wait_list)] = NoTask]
  /\ loop' = loop - 1
  /\ Goto(t, "wake_reader")
  /\ UNCHANGED <<count, wait_lock, flags, tasks, after>>

readers_done(t) ==
  /\ pc[t] = "readers" /\ loop = 0
  /\ Unlock(t)
  /\ UNCHANGED <<count, wait_list, waiters, tasks, locals>>

(* wake_up_process(tsk); put_task_struct(tsk) *)
WakeAndPut ==
  /\ state' = [state EXCEPT ![tsk] = "running"]
  /\ usage' = [usage EXCEPT ![tsk] = @ - 1]

wake_reader(t) ==
  /\ pc[t] = "wake_reader"
  /\ WakeAndPut
  /\ Goto(t, "readers")
  /\ UNCHANGED <<count, wait_list, wait_lock, waiters, locals>>

wake_writer(t) ==
  /\ pc[t] = "wake_writer"
  /\ WakeAndPut
  /\ Unlock(t)
  /\ UNCHANGED <<count, wait_list, waiters, locals>>

-----------------------------------------------------------------------------
(* The environment: wakeups from another source, and tasks that exit. *)

spurious_wakeup(t) ==
  /\ pc[t] \in {"wait", "schedule"}
  /\ state' = [state EXCEPT ![t] = "running"]
  /\ UNCHANGED <<count, wait_list, wait_lock, waiters, usage, pc, locals>>

do_exit(t) ==
  /\ pc[t] = "idle"
  /\ usage' = [usage EXCEPT ![t] = @ - 1]
  /\ Goto(t, "dead")
  /\ UNCHANGED <<count, wait_list, wait_lock, waiters, state, locals>>

Acquire(t) == \/ down_read(t) \/ down_write(t)
              \/ down_read_trylock(t) \/ down_write_trylock(t)

Contend(t) ==
  \/ down_failed(t) \/ rwsem_wake(t) \/ rwsem_downgrade_wake(t)
  \/ do_wake_busy(t) \/ do_wake_writer(t) \/ do_wake_readers(t)
  \/ do_wake_undo(t) \/ readers_only(t) \/ readers_loop(t)
  \/ readers_done(t) \/ wake_reader(t) \/ wake_writer(t)

Next ==
  \E t \in Task :
    \/ Acquire(t) \/ wait_check(t) \/ schedule_return(t)
    \/ up_read(t) \/ up_write(t) \/ downgrade_write(t)
    \/ Contend(t)
    \/ spurious_wakeup(t) \/ do_exit(t)

Spec == Init /\ [][Next]_vars

(* The scheduler runs a runnable task, a spinning task gets a free          *)
(* wait_lock in the end, and a holder releases in the end.                  *)
Fairness ==
  \A t \in Task :
    /\ WF_vars(wait_check(t)) /\ WF_vars(schedule_return(t))
    /\ SF_vars(Contend(t))
    /\ WF_vars(up_read(t) \/ up_write(t))

FairSpec == Spec /\ Fairness
-----------------------------------------------------------------------------
(* Properties. *)

(* A queued task is granted when its waiter.task is cleared; a reader       *)
(* already when the count has been adjusted for it, so the first "loop"     *)
(* records of the list are granted as well.                                 *)
Granted(t) ==
  \/ pc[t] \in {"wait", "schedule"} /\ waiter[t] = NoTask
  \/ pc[t] \in OwnerPC /\ after = "wait" /\ waiter[t] = NoTask
  \/ \E i \in 1..loop : wait_list[i] = t

Readers == {t \in Task : \/ pc[t] \in {"read", "downgrade_wake"}
                         \/ pc[t] \in OwnerPC /\ after = "read"
                         \/ Granted(t) /\ flags[t] = "read"}

Writers == {t \in Task : \/ pc[t] = "write"
                         \/ Granted(t) /\ flags[t] = "write"}

(* Tasks whose fast path failed and has not been undone yet. *)
Failed(f) == {t \in Task : pc[t] = "failed" /\ flags[t] = f}

(* A writer is alone, although both halves of the count are changed without *)
(* a lock while the wake-up path runs.  The count is exact at every step:   *)
(* one for each holder, each failed fast path not undone yet and a waker's  *)
(* attempt; minus one unit for each writer and each ungranted record.       *)
Exclusion ==
  /\ \A t, u \in Writers : t = u
  /\ Writers = {} \/ Readers = {}
  /\ count =
       LET attempt == {t \in Task : \/ pc[t] = "undo"
                                    \/ pc[t] = "readers_only" /\ after # "read"}
           active  == Readers \cup Writers \cup Failed("read") \cup
                      Failed("write")
           waiting == Cardinality(Writers) + Cardinality(Failed("write"))
                        + Len(wait_list) - loop
       IN  Cardinality(active) + Cardinality(attempt) - waiting * WaitingUnit

(* The waker's last use of tsk finds its task_struct allocated, and every   *)
(* linked record belongs to a task that is still waiting.                   *)
WakeTargetAlive ==
  /\ \A t \in Task : pc[t] \in {"wake_reader", "wake_writer"} => usage[tsk] > 0
  /\ \A i \in DOMAIN wait_list :
       /\ pc[wait_list[i]] \in {"wait", "schedule"} \cup OwnerPC
       /\ waiter[wait_list[i]] = wait_list[i]

(* The ungranted requests: the records behind the first "loop". *)
Queue == [i \in 1..(Len(wait_list) - loop) |->
            [task |-> wait_list[i + loop], mode |-> flags[wait_list[i + loop]]]]

(* The optimised semaphore is a read/write semaphore too. *)
Abstract == INSTANCE RwSem WITH
  readers <- Readers, writers <- Writers, queue <- Queue

RefinesRwSem == Abstract!Spec

(* lib/rwsem.c:133 says the undo path checks "for a transition 1->0" of the *)
(* active count, so that somebody wakes the queue when the last active task *)
(* left during the attempt: a queued task is served when holders release.   *)
EveryWaiterServed ==
  \A t \in Task : pc[t] = "wait" ~> pc[t] \in {"read", "write"}
=============================================================================
