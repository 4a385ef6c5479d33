-------------------------------- MODULE Futex --------------------------------
(***************************************************************************)
(* Futexes, kernel/futex.c: tasks that sleep in futex_wait() or poll a     *)
(* futex descriptor, and tasks that store to the word, wake the waiters    *)
(* with futex_wake() and move them with futex_requeue().                   *)
(*                                                                         *)
(* A waiter takes a bucket's lock for a single list operation, one step    *)
(* here.  A waker holds one or two of them over a loop whose steps the     *)
(* waiters see without any lock: through list_empty(&q->list), through     *)
(* q->lock_ptr and through their task state.  mmap_sem is only read-locked *)
(* here and excludes none of these steps.                                  *)
(***************************************************************************)
EXTENDS Integers, Sequences, FiniteSets, SequencesExt

CONSTANTS
  Waiter,       \* tasks that wait, each with one futex_q at a time
  FdWaiter,     \* those that wait by polling a futex descriptor
  Waker,        \* tasks that store, wake and requeue
  Addr,         \* user addresses, each the key of one futex
  Bucket,       \* indices of futex_queues[], in address order
  Value,        \* values of a futex word
  Hashing,      \* what hash_futex() may be: address -> bucket
  Wait,         \* arguments of each waiter's calls: an address and a value
  Request,      \* arguments of each waker's calls, and whether it stores first
  MaxCalls,     \* bound: futex_wait() and futex_fd() calls in all
  MaxOps,       \* bound: calls of each waker
  MaxFaults     \* bound: page faults on a futex word in all

ASSUME FutexAssumption ==
  /\ IsFiniteSet(Waiter) /\ IsFiniteSet(Waker) /\ FdWaiter \subseteq Waiter
  /\ Bucket \subseteq Nat
  /\ Hashing \subseteq [Addr -> Bucket]
  /\ Wait \in [Waiter -> SUBSET (Addr \X Value)]
  /\ Request \in [Waker -> SUBSET
       [kind : {"wake", "requeue", "cmp_requeue"}, key1 : Addr, key2 : Addr,
        nr_wake : Nat, nr_requeue : Nat, val : Value, stored : BOOLEAN]]
  /\ \A k \in Waker : \A r \in Request[k] :
       (r.kind = "wake" => r.key1 = r.key2) /\ (r.stored => r.kind = "wake")
  /\ MaxCalls \in Nat /\ MaxOps \in Nat /\ MaxFaults \in Nat

Nobody == "nobody"      \* owner of a free lock
ListHead == "head"      \* the list head itself, as a cursor
NULL == -1              \* q->lock_ptr of a woken waiter

ASSUME NameAssumption ==
  Nobody \notin Waker /\ ListHead \notin Waiter /\ Addr # {} /\ Value # {}

VARIABLES
  hash,         \* hash_futex(): key -> bucket
  word,         \* the futex words in user memory
  chain,        \* bucket -> linked waiters
  lock,         \* bucket -> the waker holding its lock, or Nobody
  nqueued,      \* bucket -> how many waiters were ever queued
  key, lock_ptr,\* q->key and q->lock_ptr
  on_wq,        \* the task is on q->waiters
  task,         \* its state
  wpc,          \* where it is
  call,         \* what it called, and the error it is about to return
  lp,           \* unqueue_me()'s copy of lock_ptr
  ret,          \* what its last futex_wait() returned: 0, or some error
  pc,           \* where the waker is
  op,           \* its call: arguments and locals
  refs,         \* references to the object behind each key
  hit,          \* history: a waker took this waiter off its list
  moved,        \* history: a requeue gave it another key
  late,         \* history: queued since this waker read the word
  calls, ops, faults

buckets == <<chain, lock, nqueued>>
futex_q == <<key, lock_ptr>>
waiter == <<on_wq, task, wpc, call, lp, ret>>
waker == <<pc, op>>
ghost == <<hit, moved, late>>
bounds == <<calls, ops, faults>>
vars == <<hash, word, buckets, futex_q, waiter, waker, refs, ghost, bounds>>

(* "EINTR" also stands for -ETIMEDOUT, told from it by the time left. *)
Error == {"none", "EWOULDBLOCK", "EFAULT", "EINTR"}
Idle == [kind |-> "none"]
AnyAddr == CHOOSE a \in Addr : TRUE
AnyValue == CHOOSE v \in Value : TRUE

TypeOK ==
  /\ hash \in [Addr -> Bucket] /\ word \in [Addr -> Value]
  /\ chain \in [Bucket -> Seq(Waiter)]
  /\ lock \in [Bucket -> Waker \cup {Nobody}] /\ nqueued \in [Bucket -> Nat]
  /\ key \in [Waiter -> Addr] /\ lock_ptr \in [Waiter -> Bucket \cup {NULL}]
  /\ on_wq \in [Waiter -> BOOLEAN]
  /\ task \in [Waiter -> {"running", "interruptible"}]
  /\ wpc \in [Waiter -> {"idle", "test", "prepare", "check", "sleep", "open",
                         "unqueue", "spin", "refault"}]
  /\ call \in [Waiter -> [uaddr : Addr, val : Value, err : Error]]
  /\ lp \in [Waiter -> Bucket \cup {NULL}]
  /\ ret \in [Waiter -> {"none", "0", "error"}]
  /\ pc \in [Waker -> {"idle", "start", "value", "lock1", "lock2", "locked", "scan",
                       "wake", "clear", "unlock", "drop"}]
  /\ \A k \in Waker : op[k] = Idle <=> pc[k] = "idle"
  /\ refs \in [Addr -> Nat]
  /\ hit \in [Waiter -> BOOLEAN] /\ moved \in [Waiter -> BOOLEAN]
  /\ late \in [Waker -> SUBSET Waiter]
  /\ calls \in 0..MaxCalls /\ ops \in [Waker -> 0..MaxOps] /\ faults \in 0..MaxFaults

Init ==
  /\ hash \in Hashing
  /\ word = [a \in Addr |-> AnyValue] /\ key = [w \in Waiter |-> AnyAddr]
  /\ call = [w \in Waiter |-> [uaddr |-> AnyAddr, val |-> AnyValue, err |-> "none"]]
  /\ chain = [b \in Bucket |-> <<>>] /\ lock = [b \in Bucket |-> Nobody]
  /\ nqueued = [b \in Bucket |-> 0]
  /\ lock_ptr = [w \in Waiter |-> NULL] /\ lp = [w \in Waiter |-> NULL]
  /\ on_wq = [w \in Waiter |-> FALSE] /\ task = [w \in Waiter |-> "running"]
  /\ wpc = [w \in Waiter |-> "idle"] /\ ret = [w \in Waiter |-> "none"]
  /\ pc = [k \in Waker |-> "idle"] /\ op = [k \in Waker |-> Idle]
  /\ refs = [a \in Addr |-> 0]
  /\ hit = [w \in Waiter |-> FALSE] /\ moved = [w \in Waiter |-> FALSE]
  /\ late = [k \in Waker |-> {}]
  /\ calls = 0 /\ ops = [k \in Waker |-> 0] /\ faults = 0

-----------------------------------------------------------------------------
(* The hash chains. *)

InChain(w, b) == w \in ToSet(chain[b])

(* !list_empty(&q->list) *)
Linked(w) == \E b \in Bucket : InChain(w, b)

(* Mutant: schedule_timeout() without a look at the list. *)
MaySleep_always(w) == TRUE

(* if (likely(!list_empty(&q.list))), without a lock *)
MaySleep(w) == Linked(w)

(* Mutant: woken already when off the list. *)
WasWoken_unlinked(w) == ~Linked(w)

(* unqueue_me(): lock_ptr is NULL, without a lock *)
WasWoken(w) == lock_ptr[w] = NULL

(* Mutant: lock_ptr is not compared again under the lock. *)
WrongLock_never(w) == FALSE

(* if (unlikely(lock_ptr != q->lock_ptr)), under the lock just taken *)
WrongLock(w) == lp[w] # lock_ptr[w]

(* chain[b] after list_del() of w *)
Without(w, b) == RemoveFirst(chain[b], w)

(* What follows w in its chain. *)
NextOf(w, b) ==
  LET i == CHOOSE j \in DOMAIN chain[b] : chain[b][j] = w
  IN  IF i = Len(chain[b]) THEN ListHead ELSE chain[b][i + 1]

First(b) == IF chain[b] = <<>> THEN ListHead ELSE chain[b][1]

-----------------------------------------------------------------------------
(* Waiting. *)

(* Wakers for which a waiter queued in bucket b now is a late one: they     *)
(* have read the word and do not hold the lock yet.                         *)
HaveRead(b) ==
  {k \in Waker : /\ pc[k] \in {"lock1", "lock2"} /\ op[k].kind = "cmp_requeue"
                 /\ hash[op[k].key1] = b}

(* Mutant: no reference is taken. *)
get_key_refs_none(a) == UNCHANGED refs

get_key_refs(a) == refs' = [refs EXCEPT ![a] = @ + 1]

(* Mutant: nqueued is not counted up. *)
CountQueued_none(b) == UNCHANGED nqueued

CountQueued(b) == nqueued' = [nqueued EXCEPT ![b] = @ + 1]

(* Nobody sees the futex_q before it is linked, and the lock is held for    *)
(* nothing else.                                                            *)
queue_me(w, a) ==
  LET b == hash[a] IN
  /\ lock[b] = Nobody
  /\ get_key_refs(a) /\ CountQueued(b)
  /\ key' = [key EXCEPT ![w] = a] /\ lock_ptr' = [lock_ptr EXCEPT ![w] = b]
  /\ chain' = [chain EXCEPT ![b] = Append(@, w)]
  /\ on_wq' = [on_wq EXCEPT ![w] = FALSE]
  /\ hit' = [hit EXCEPT ![w] = FALSE] /\ moved' = [moved EXCEPT ![w] = FALSE]
  /\ late' = [k \in Waker |-> IF k \in HaveRead(b) THEN late[k] \cup {w} ELSE late[k]]
  /\ UNCHANGED lock

(* futex_wait() up to its test of the word, and futex_fd() whole *)
futex_wait(w, a, v) ==
  /\ w \notin FdWaiter /\ wpc[w] = "idle" /\ calls < MaxCalls
  /\ queue_me(w, a)
  /\ call' = [call EXCEPT ![w] = [uaddr |-> a, val |-> v, err |-> "none"]]
  /\ wpc' = [wpc EXCEPT ![w] = "test"] /\ ret' = [ret EXCEPT ![w] = "none"]
  /\ calls' = calls + 1
  /\ UNCHANGED <<hash, word, task, lp, waker, ops, faults>>

futex_fd(w, a) ==
  /\ w \in FdWaiter /\ wpc[w] = "idle" /\ calls < MaxCalls
  /\ queue_me(w, a)
  /\ call' = [call EXCEPT ![w].uaddr = a]
  /\ wpc' = [wpc EXCEPT ![w] = "open"] /\ ret' = [ret EXCEPT ![w] = "none"]
  /\ calls' = calls + 1
  /\ UNCHANGED <<hash, word, task, lp, waker, ops, faults>>

(* Waiter w goes to label l, about to return e if it was not woken. *)
Goto(w, l, e) ==
  /\ wpc' = [wpc EXCEPT ![w] = l] /\ call' = [call EXCEPT ![w].err = e]

(* Mutant: the result of get_futex_value_locked() is ignored. *)
AfterFault_none(w) == Goto(w, "prepare", "none")

(* Unqueue, then fault the page in. *)
AfterFault(w) == Goto(w, "unqueue", "EFAULT")

(* get_futex_value_locked(), after queue_me() *)
TestValue(w) ==
  /\ wpc[w] = "test"
  /\ \/ /\ word[call[w].uaddr] = call[w].val
        /\ Goto(w, "prepare", "none") /\ UNCHANGED faults
     \/ /\ word[call[w].uaddr] # call[w].val
        /\ Goto(w, "unqueue", "EWOULDBLOCK") /\ UNCHANGED faults
     \/ /\ faults < MaxFaults /\ faults' = faults + 1
        /\ AfterFault(w)
  /\ UNCHANGED <<hash, word, buckets, futex_q, on_wq, task, lp, ret, waker, refs,
                 ghost, calls, ops>>

(* Unqueued again after a fault: get_user() brings the page in and the call *)
(* starts over, or fails.                                                   *)
Refault(w) ==
  /\ wpc[w] = "refault"
  /\ \/ /\ queue_me(w, call[w].uaddr) /\ Goto(w, "test", "none") /\ UNCHANGED ret
     \/ /\ wpc' = [wpc EXCEPT ![w] = "idle"] /\ ret' = [ret EXCEPT ![w] = "error"]
        /\ UNCHANGED <<buckets, futex_q, on_wq, refs, ghost, call>>
  /\ UNCHANGED <<hash, word, task, lp, waker, bounds>>

(* __set_current_state(TASK_INTERRUPTIBLE), then add_wait_queue(): a        *)
(* wake_up_all() between the two does what one before both does.  A poller  *)
(* does the same, in sys_poll() and in poll_wait().                         *)
Prepare(w) ==
  /\ wpc[w] = "prepare" \/ wpc[w] = "open"
  /\ task' = [task EXCEPT ![w] = "interruptible"]
  /\ on_wq' = [on_wq EXCEPT ![w] = TRUE]
  /\ Goto(w, "check", "none")
  /\ UNCHANGED <<hash, word, buckets, futex_q, lp, ret, waker, refs, ghost, bounds>>

(* Awake again: futex_wait() goes on to unqueue_me(), with what it returns  *)
(* if nobody woke it, and stays on its wait queue; a poll leaves the queue  *)
(* and returns.                                                             *)
Awake(w, e) ==
  /\ task' = [task EXCEPT ![w] = "running"]
  /\ on_wq' = [on_wq EXCEPT ![w] = w \notin FdWaiter]
  /\ IF w \in FdWaiter THEN Goto(w, "open", "none") ELSE Goto(w, "unqueue", e)

(* futex_wait() from there to schedule_timeout(), and futex_poll() *)
CheckList(w) ==
  /\ wpc[w] = "check"
  /\ IF MaySleep(w) THEN Goto(w, "sleep", "none") /\ UNCHANGED <<task, on_wq>>
                    ELSE Awake(w, "EINTR")
  /\ UNCHANGED <<hash, word, buckets, futex_q, lp, ret, waker, refs, ghost, bounds>>

(* schedule_timeout() returns: woken, ... *)
Woken(w) ==
  /\ wpc[w] = "sleep" /\ task[w] = "running"
  /\ Awake(w, "EINTR")
  /\ UNCHANGED <<hash, word, buckets, futex_q, lp, ret, waker, refs, ghost, bounds>>

(* ... after the timeout, or for a signal. *)
GivesUp(w) ==
  /\ wpc[w] = "sleep"
  /\ Awake(w, "EINTR")
  /\ UNCHANGED <<hash, word, buckets, futex_q, lp, ret, waker, refs, ghost, bounds>>

futex_close(w) ==
  /\ wpc[w] = "open" /\ Goto(w, "unqueue", "none")
  /\ UNCHANGED <<hash, word, buckets, futex_q, on_wq, task, lp, ret, waker, refs,
                 ghost, bounds>>

(* drop_key_refs(&q->key), and the futex_q is gone. *)
Dropped(w) ==
  /\ refs' = [refs EXCEPT ![key[w]] = @ - 1]
  /\ key' = [key EXCEPT ![w] = AnyAddr] /\ lock_ptr' = [lock_ptr EXCEPT ![w] = NULL]
  /\ lp' = [lp EXCEPT ![w] = NULL] /\ on_wq' = [on_wq EXCEPT ![w] = FALSE]
  /\ moved' = [moved EXCEPT ![w] = FALSE]

Return(w, r) ==
  Dropped(w) /\ Goto(w, "idle", "none") /\ ret' = [ret EXCEPT ![w] = r]

(* unqueue_me(): lock_ptr is read without a lock; NULL means woken. *)
unqueue_me(w) ==
  /\ wpc[w] = "unqueue"
  /\ IF WasWoken(w) THEN Return(w, IF w \in FdWaiter THEN "none" ELSE "0")
     ELSE /\ lp' = [lp EXCEPT ![w] = lock_ptr[w]] /\ wpc' = [wpc EXCEPT ![w] = "spin"]
          /\ UNCHANGED <<refs, futex_q, on_wq, call, ret, moved>>
  /\ UNCHANGED <<hash, word, buckets, task, waker, hit, late, bounds>>

(* ... and its part under the lock.  After a fault futex_wait() goes on to  *)
(* get_user() instead of returning.                                         *)
UnqueueLocked(w) ==
  /\ wpc[w] = "spin" /\ lock[lp[w]] = Nobody
  /\ IF WrongLock(w)
     THEN /\ wpc' = [wpc EXCEPT ![w] = "unqueue"]
          /\ UNCHANGED <<chain, refs, futex_q, on_wq, call, lp, ret, moved>>
     ELSE /\ chain' = [chain EXCEPT ![lp[w]] = Without(w, lp[w])]
          /\ IF call[w].err = "EFAULT"
             THEN Dropped(w) /\ Goto(w, "refault", "none") /\ UNCHANGED ret
             ELSE Return(w, IF w \in FdWaiter THEN "none" ELSE "error")
  /\ UNCHANGED <<hash, word, lock, nqueued, task, waker, hit, late, bounds>>

-----------------------------------------------------------------------------
(* Waking and requeueing. *)

(* A call begins.  One that stores first is the user-space waker of the     *)
(* comment in futex_wait(): var = new; futex_wake(&var).                    *)
Begins(k, r) ==
  /\ pc[k] = "idle" /\ ops[k] < MaxOps
  /\ word' = IF r.stored THEN [word EXCEPT ![r.key1] = r.val] ELSE word
  /\ op' = [op EXCEPT ![k] =
       [kind |-> r.kind, key1 |-> r.key1, key2 |-> r.key2, nr_wake |-> r.nr_wake,
        nr_requeue |-> r.nr_requeue, val |-> r.val, stored |-> r.stored,
        nqueued |-> 0, ret |-> 0, this |-> ListHead, next |-> ListHead,
        head1 |-> ListHead, drop_count |-> 0, touched |-> {}]]
  /\ pc' = [pc EXCEPT ![k] = IF r.kind = "wake" THEN "lock1" ELSE "start"]
  /\ ops' = [ops EXCEPT ![k] = @ + 1]
  /\ UNCHANGED <<hash, buckets, futex_q, waiter, refs, ghost, calls, faults>>

bh1(k) == hash[op[k].key1]
bh2(k) == hash[op[k].key2]
GotoK(k, l) == pc' = [pc EXCEPT ![k] = l]
Finish(k) ==
  /\ pc' = [pc EXCEPT ![k] = "idle"] /\ op' = [op EXCEPT ![k] = Idle]
  /\ late' = [late EXCEPT ![k] = {}]

(* nqueued is read before the word, ... *)
ReadNqueued(k) ==
  /\ pc[k] = "start"
  /\ op' = [op EXCEPT ![k].nqueued = nqueued[bh1(k)]]
  /\ GotoK(k, IF op[k].kind = "cmp_requeue" THEN "value" ELSE "lock1")
  /\ UNCHANGED <<hash, word, buckets, futex_q, waiter, refs, ghost, bounds>>

(* ... which is compared, or makes the call return -EAGAIN, or faults and   *)
(* makes it start over or fail, ...                                         *)
ReadValue(k) ==
  /\ pc[k] = "value"
  /\ \/ word[op[k].key1] = op[k].val /\ GotoK(k, "lock1") /\ UNCHANGED <<op, late, faults>>
     \/ word[op[k].key1] # op[k].val /\ Finish(k) /\ UNCHANGED faults
     \/ /\ faults < MaxFaults /\ faults' = faults + 1
        /\ Finish(k) \/ (GotoK(k, "start") /\ UNCHANGED <<op, late>>)
  /\ UNCHANGED <<hash, word, buckets, futex_q, waiter, refs, hit, moved, calls, ops>>

Lower(k) == IF bh1(k) < bh2(k) THEN bh1(k) ELSE bh2(k)

Acquire(k, b, l) ==
  /\ lock[b] = Nobody /\ lock' = [lock EXCEPT ![b] = k]
  /\ GotoK(k, l)
  /\ UNCHANGED <<hash, word, chain, nqueued, futex_q, waiter, op, refs, ghost, bounds>>

(* Mutant: bh1's lock first, whatever the addresses. *)
LockFirst_bh1(k) ==
  pc[k] = "lock1" /\ Acquire(k, bh1(k), IF bh1(k) = bh2(k) THEN "locked" ELSE "lock2")

(* ... the locks taken, the one at the lower address first. *)
LockFirst(k) ==
  pc[k] = "lock1" /\ Acquire(k, Lower(k), IF bh1(k) = bh2(k) THEN "locked" ELSE "lock2")

LockSecond(k) ==
  pc[k] = "lock2" /\ \E b \in {bh1(k), bh2(k)} : lock[b] # k /\ Acquire(k, b, "locked")

(* if (unlikely(nqueued != bh1->nqueued && valp != NULL)), else the loop    *)
(* starts at the first entry of bh1's chain.                                *)
CheckNqueued(k) ==
  /\ pc[k] = "locked"
  /\ IF op[k].kind = "cmp_requeue" /\ op[k].nqueued # nqueued[bh1(k)]
     THEN GotoK(k, "unlock") /\ UNCHANGED op
     ELSE GotoK(k, "scan") /\ op' = [op EXCEPT ![k].next = First(bh1(k))]
  /\ UNCHANGED <<hash, word, buckets, futex_q, waiter, refs, ghost, bounds>>

(* if (!match_futex(&this->key, &key1)) continue *)
LoopSkips(k) ==
  LET t == op[k].next IN
  /\ pc[k] = "scan" /\ t # op[k].head1 /\ key[t] # op[k].key1
  /\ op' = [op EXCEPT ![k].next = NextOf(t, bh1(k))]
  /\ UNCHANGED <<hash, word, buckets, futex_q, waiter, pc, refs, ghost, bounds>>

(* The loop has a match, the r-th, in t. *)
Matches(k, t) ==
  /\ pc[k] = "scan" /\ t = op[k].next /\ t # op[k].head1 /\ key[t] = op[k].key1

Wakes(k) == op[k].kind = "wake" \/ op[k].ret + 1 <= op[k].nr_wake

(* wake_futex(): list_del_init(), ... *)
wake_futex(k) ==
  LET t == op[k].next IN
  /\ Matches(k, t) /\ Wakes(k)
  /\ chain' = [chain EXCEPT ![bh1(k)] = Without(t, bh1(k))]
  /\ hit' = [hit EXCEPT ![t] = TRUE]
  /\ op' = [op EXCEPT ![k] = [@ EXCEPT
               !.this = t, !.next = NextOf(t, bh1(k)), !.ret = op[k].ret + 1,
               !.touched = op[k].touched \cup {t}]]
  /\ GotoK(k, "wake")
  /\ UNCHANGED <<hash, word, lock, nqueued, futex_q, waiter, refs, moved, late, bounds>>

(* ... wake_up_all(&q->waiters), ... *)
WakeUpAll(k) ==
  LET t == op[k].this IN
  /\ pc[k] = "wake"
  /\ task' = IF on_wq[t] THEN [task EXCEPT ![t] = "running"] ELSE task
  /\ GotoK(k, "clear")
  /\ UNCHANGED <<hash, word, buckets, futex_q, on_wq, wpc, call, lp, ret, op, refs,
                 ghost, bounds>>

(* ... q->lock_ptr = NULL.  futex_wake() stops after nr_wake of them. *)
ClearLockPtr(k) ==
  /\ pc[k] = "clear"
  /\ lock_ptr' = [lock_ptr EXCEPT ![op[k].this] = NULL]
  /\ GotoK(k, IF op[k].kind = "wake" /\ op[k].ret >= op[k].nr_wake
              THEN "unlock" ELSE "scan")
  /\ UNCHANGED <<hash, word, buckets, key, waiter, op, refs, ghost, bounds>>

(* Mutant: the loop has no such stop. *)
NewHead_same(k, t, next) == op[k].head1

(* Where the loop ends from now on: at the entry moved first, when it moves *)
(* entries to the tail of the list it walks.                                *)
NewHead(k, t, next) ==
  IF bh1(k) = bh2(k) /\ op[k].head1 = ListHead /\ next # ListHead THEN t ELSE op[k].head1

(* list_move_tail() to bh2's chain, with the lock, key and reference of the *)
(* waiter's new futex *)
Requeue(k) ==
  LET t == op[k].next
      next == NextOf(t, bh1(k)) IN
  /\ Matches(k, t) /\ ~Wakes(k)
  /\ chain' = [b \in Bucket |-> IF b = bh2(k) THEN Append(Without(t, b), t)
                                ELSE IF b = bh1(k) THEN Without(t, b) ELSE chain[b]]
  /\ lock_ptr' = [lock_ptr EXCEPT ![t] = bh2(k)]
  /\ key' = [key EXCEPT ![t] = op[k].key2]
  /\ get_key_refs(op[k].key2)
  /\ moved' = [moved EXCEPT ![t] = @ \/ op[k].key1 # op[k].key2]
  /\ op' = [op EXCEPT ![k] = [@ EXCEPT
               !.ret = op[k].ret + 1, !.drop_count = op[k].drop_count + 1,
               !.touched = op[k].touched \cup {t}, !.next = next,
               !.head1 = NewHead(k, t, next)]]
  /\ GotoK(k, IF op[k].ret + 1 - op[k].nr_wake >= op[k].nr_requeue
              THEN "unlock" ELSE "scan")
  /\ UNCHANGED <<hash, word, lock, nqueued, waiter, hit, late, bounds>>

(* The loop is at its head again or was left: the locks are released. *)
Unlock(k) ==
  /\ pc[k] = "unlock" \/ (pc[k] = "scan" /\ op[k].next = op[k].head1)
  /\ lock' = [b \in Bucket |-> IF lock[b] = k THEN Nobody ELSE lock[b]]
  /\ IF op[k].drop_count = 0 THEN Finish(k) ELSE GotoK(k, "drop") /\ UNCHANGED <<op, late>>
  /\ UNCHANGED <<hash, word, chain, nqueued, futex_q, waiter, refs, hit, moved, bounds>>

(* Mutant: the last one is missed. *)
Drops_fewer(k) == IF op[k].drop_count = 0 THEN 0 ELSE op[k].drop_count - 1

(* while (--drop_count >= 0) *)
Drops(k) == op[k].drop_count

(* drop_key_refs(&key1), as often as a waiter was moved *)
DropKeyRefs(k) ==
  /\ pc[k] = "drop"
  /\ refs' = [refs EXCEPT ![op[k].key1] = @ - Drops(k)]
  /\ Finish(k)
  /\ UNCHANGED <<hash, word, buckets, futex_q, waiter, hit, moved, bounds>>

-----------------------------------------------------------------------------
WaiterStep(w) ==
  \/ TestValue(w) \/ Refault(w) \/ CheckList(w) \/ Woken(w) \/ unqueue_me(w)
  \/ UnqueueLocked(w) \/ (wpc[w] = "prepare" /\ Prepare(w))

WakerStep(k) ==
  \/ ReadNqueued(k) \/ ReadValue(k) \/ LockFirst(k) \/ LockSecond(k) \/ CheckNqueued(k)
  \/ LoopSkips(k) \/ wake_futex(k) \/ WakeUpAll(k) \/ ClearLockPtr(k)
  \/ Requeue(k) \/ Unlock(k) \/ DropKeyRefs(k)

Next ==
  \/ \E w \in Waiter :
       \/ WaiterStep(w) \/ GivesUp(w) \/ futex_close(w)
       \/ wpc[w] = "open" /\ Prepare(w)
       \/ \E c \in Wait[w] : futex_fd(w, c[1]) \/ futex_wait(w, c[1], c[2])
  \/ \E k \in Waker :
       \/ WakerStep(k)
       \/ \E r \in Request[k] : Begins(k, r)

Spec == Init /\ [][Next]_vars

-----------------------------------------------------------------------------
(* Properties. *)

(* Waiter w has a futex_q: its call has queued it and not unqueued it. *)
Holds(w) == wpc[w] \notin {"idle", "refault"}

(* A futex "blocks ONLY if cond(var) is known to be true at the time of     *)
(* blocking": a waiter of futex_wait() that passed its test stays linked    *)
(* under its own key while the word differs from its value only if the task *)
(* that stored has yet to walk the chain.                                   *)
BlocksOnlyWhileValueHolds ==
  \A w \in Waiter :
    (/\ wpc[w] \in {"prepare", "check", "sleep"} /\ w \notin FdWaiter
     /\ Linked(w) /\ ~moved[w] /\ word[call[w].uaddr] # call[w].val)
    => \E k \in Waker : /\ pc[k] \in {"lock1", "locked", "scan", "wake", "clear"}
                        /\ op[k].stored /\ op[k].key1 = call[w].uaddr

(* "If we were woken (and unqueued), we succeeded, whatever": a waiter that *)
(* a waker took off its list and counted returns 0, not the timeout, signal *)
(* or mismatch it met on the way, and only such a waiter does.              *)
WakesAreReported ==
  \A w \in Waiter :
    (wpc[w] = "idle" /\ ret[w] # "none") => (hit[w] <=> ret[w] = "0")

(* FUTEX_CMP_REQUEUE reads the word without the locks; a waiter queued      *)
(* after that read is neither woken nor moved by the call (nqueued).        *)
CmpRequeueSeesNoLateWaiter ==
  \A k \in Waker : pc[k] # "idle" => op[k].touched \cap late[k] = {}

(* Each key's object has one reference for every futex_q with that key, and *)
(* one for every waiter moved away by a call that has yet to drop it, so    *)
(* that it outlives them and is not leaked.                                 *)
KeyRefsExact ==
  \A a \in Addr :
    refs[a] = Cardinality({w \in Waiter : Holds(w) /\ key[w] = a})
              + Cardinality({p \in Waker \X (1..Cardinality(Waiter)) :
                               /\ pc[p[1]] # "idle" /\ op[p[1]].key1 = a
                               /\ p[2] <= op[p[1]].drop_count})

(* "The waiting task can free the futex_q as soon as this is written": a    *)
(* waker in wake_futex() works on a futex_q that its owner still has, and   *)
(* the next entry it remembers is in the chain it walks.                    *)
WakeTargetLive ==
  \A k \in Waker :
    /\ pc[k] \in {"wake", "clear"} => /\ Holds(op[k].this)
                                      /\ lock_ptr[op[k].this] = bh1(k)
    /\ pc[k] \in {"scan", "wake", "clear"} =>
         op[k].next = ListHead \/ InChain(op[k].next, bh1(k))

(* unqueue_me() under the lock lock_ptr names: the waiter is in that        *)
(* bucket's chain (WARN_ON(list_empty(&q->list))), and a linked waiter is   *)
(* in one chain, once, the one its key hashes to.                           *)
UnqueuesFromItsChain ==
  /\ \A w \in Waiter :
       (wpc[w] = "spin" /\ lp[w] = lock_ptr[w] /\ lock[lp[w]] = Nobody)
         => InChain(w, lp[w])
  /\ \A b \in Bucket : \A i, j \in DOMAIN chain[b] :
       /\ i # j => chain[b][i] # chain[b][j]
       /\ Holds(chain[b][i])
       /\ lock_ptr[chain[b][i]] = b /\ hash[key[chain[b][i]]] = b

(* The waiter's and the waker's side of one rule: a futex_q is reached      *)
(* through a chain, or by wake_futex(), only while it is live and where its *)
(* lock_ptr says.                                                           *)
LinksLive == WakeTargetLive /\ UnqueuesFromItsChain

(* A wake or requeue handles a waiter at most once, also when it moves      *)
(* waiters to the tail of the chain it walks, and returns their number.     *)
EachHandledOnce ==
  \A k \in Waker : pc[k] # "idle" => op[k].ret = Cardinality(op[k].touched)

(* No wakeup is lost between the list, the wait queue and the task state: a *)
(* waiter that sleeps off its list is one that a waker in wake_futex() is   *)
(* about to wake.                                                           *)
NoLostWakeup ==
  \A w \in Waiter :
    (wpc[w] = "sleep" /\ task[w] = "interruptible" /\ ~Linked(w))
      => \E k \in Waker : pc[k] = "wake" /\ op[k].this = w

(* Requeues in opposite directions do not deadlock on the bucket locks:     *)
(* while some waker is in a call, some waker can go on.                     *)
SomeWakerGoesOn ==
  (\E k \in Waker : pc[k] # "idle") => \E k \in Waker : ENABLED WakerStep(k)
=============================================================================
