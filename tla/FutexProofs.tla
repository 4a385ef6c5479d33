----------------------------- MODULE FutexProofs -----------------------------
(***************************************************************************)
(* Proofs about Futex.tla, for any waiters, pollers and wakers, any        *)
(* futexes, any hash function and any arguments of the calls.              *)
(*                                                                         *)
(* The inductive invariant, in layers, each proved from the ones before:   *)
(*                                                                         *)
(*   Kinds     types, with integers for the references;                    *)
(*   Asked     the calls of the wakers;                                    *)
(*   Owning    which locks a waker has where;                              *)
(*   Chained   what is linked is live and where its lock_ptr says, and     *)
(*             what has a lock_ptr is linked or about to lose it;          *)
(*   Sleeping  who sleeps off its list is about to be woken;               *)
(*   Reported  a waiter is off its list because it was woken;              *)
(*   Walked    the loop's cursor is before what the loop has moved;        *)
(*   Counted   the references;                                             *)
(*   Unseen    who was queued after the word was read shows in nqueued;    *)
(*   Coming    who waits though the word has changed is ahead of a waker.  *)
(*                                                                         *)
(* Owning also gives the order of the buckets' locks, by which some waker  *)
(* waits for none.                                                         *)
(***************************************************************************)
EXTENDS Futex, ListLemmas, FiniteSetTheorems

Cursor == Waiter \cup {ListHead}

(* A waker's call. *)
Calls ==
  [kind : {"wake", "requeue", "cmp_requeue"}, key1 : Addr, key2 : Addr, nr_wake : Nat,
   nr_requeue : Nat, val : Value, stored : BOOLEAN, nqueued : Nat, ret : Nat,
   this : Cursor, next : Cursor, head1 : Cursor, drop_count : Nat,
   touched : SUBSET Waiter]

BucketKinds ==
  /\ chain \in [Bucket -> Seq(Waiter)]
  /\ lock \in [Bucket -> Waker \cup {Nobody}] /\ nqueued \in [Bucket -> Nat]

QueueKinds ==
  /\ key \in [Waiter -> Addr] /\ lock_ptr \in [Waiter -> Bucket \cup {NULL}]
  /\ on_wq \in [Waiter -> BOOLEAN]
  /\ refs \in [Addr -> Int]
  /\ hit \in [Waiter -> BOOLEAN] /\ moved \in [Waiter -> BOOLEAN]
  /\ late \in [Waker -> SUBSET Waiter]

TaskKinds ==
  /\ task \in [Waiter -> {"running", "interruptible"}]
  /\ lp \in [Waiter -> Bucket \cup {NULL}]
  /\ ret \in [Waiter -> {"none", "0", "error"}]

Label == {"idle", "test", "prepare", "check", "sleep", "open", "unqueue", "spin", "refault"}

LabelKinds ==
  /\ wpc \in [Waiter -> Label]
  /\ call \in [Waiter -> [uaddr : Addr, val : Value, err : Error]]

OtherKinds ==
  /\ hash \in [Addr -> Bucket] /\ word \in [Addr -> Value]
  /\ pc \in [Waker -> {"idle", "start", "value", "lock1", "lock2", "locked", "scan",
                       "wake", "clear", "unlock", "drop"}]
  /\ calls \in 0..MaxCalls /\ ops \in [Waker -> 0..MaxOps] /\ faults \in 0..MaxFaults

Kinds == BucketKinds /\ QueueKinds /\ TaskKinds /\ LabelKinds /\ OtherKinds

(* What the wakers have called. *)
Asked ==
  /\ DOMAIN op = Waker
  /\ \A k \in Waker : pc[k] = "idle" => op[k] = Idle
  /\ \A k \in Waker : pc[k] # "idle" =>
       op[k] \in Calls /\ (op[k].kind = "wake" => op[k].key1 = op[k].key2)

(* Waker k has all of its locks. *)
Inside(k) == pc[k] \in {"locked", "scan", "wake", "clear", "unlock"}

Owning ==
  /\ \A k \in Waker, b \in Bucket : lock[b] = k =>
       \/ Inside(k) /\ b \in {bh1(k), bh2(k)}
       \/ pc[k] = "lock2" /\ b = Lower(k)
  /\ \A k \in Waker : Inside(k) => lock[bh1(k)] = k /\ lock[bh2(k)] = k
  /\ \A k \in Waker : pc[k] = "lock2" => lock[Lower(k)] = k /\ bh1(k) # bh2(k)

(* Waker k is in its loop, and in wake_futex(). *)
Walking(k) == pc[k] \in {"scan", "wake", "clear"}
Waking(k) == pc[k] \in {"wake", "clear"}

Chained ==
  /\ \A b \in Bucket : Once(chain[b])
  /\ \A b \in Bucket : \A w \in ToSet(chain[b]) :
       Holds(w) /\ lock_ptr[w] = b /\ hash[key[w]] = b
  /\ \A w \in Waiter : ~Holds(w) => lock_ptr[w] = NULL
  /\ \A w \in Waiter : lock_ptr[w] # NULL =>
       \/ InChain(w, lock_ptr[w])
       \/ \E k \in Waker : Waking(k) /\ op[k].this = w
  /\ \A k \in Waker : Waking(k) =>
       /\ op[k].this \in Waiter /\ lock_ptr[op[k].this] = bh1(k)
       /\ ~InChain(op[k].this, bh1(k))
  /\ \A k \in Waker : Walking(k) => op[k].next = ListHead \/ InChain(op[k].next, bh1(k))
  /\ \A w \in Waiter : wpc[w] = "spin" => lp[w] \in Bucket

Sleeping ==
  \A w \in Waiter :
    /\ wpc[w] \in {"check", "sleep"} => on_wq[w]
    /\ (wpc[w] = "sleep" /\ task[w] = "interruptible" /\ ~Linked(w))
         => \E k \in Waker : pc[k] = "wake" /\ op[k].this = w

Reported ==
  \A w \in Waiter :
    /\ Holds(w) => (hit[w] <=> ~Linked(w))
    /\ wpc[w] = "refault" => ~hit[w]
    /\ (wpc[w] = "idle" /\ ret[w] # "none") => (hit[w] <=> ret[w] = "0")

(* Where a loop over list c is that has handled the entries in d, is at n   *)
(* and stops at h: nothing at or after its cursor was handled before it set *)
(* the stop, and everything from the stop on was.                           *)
StopAt(c, d, h, n) ==
  /\ h = ListHead => n = ListHead \/ d \cap ToSet(c) = {}
  /\ h # ListHead => /\ h \in ToSet(c) /\ (n = h \/ Ahead(c, n, h))
                     /\ \A x \in ToSet(c) : x \in d <=> (x = h \/ Ahead(c, h, x))

Stopped(k) == StopAt(chain[bh1(k)], op[k].touched, op[k].head1, op[k].next)

Walked ==
  \A k \in Waker :
    /\ pc[k] # "idle" => /\ op[k].ret = Cardinality(op[k].touched)
                         /\ op[k].drop_count <= op[k].ret
    /\ pc[k] \in {"start", "value", "lock1", "lock2", "locked"} =>
         op[k].touched = {} /\ op[k].head1 = ListHead
    /\ Walking(k) => /\ Stopped(k)
                     /\ op[k].kind = "wake" => /\ op[k].head1 = ListHead
                                               /\ op[k].touched \cap ToSet(chain[bh1(k)]) = {}

(* The waiters that have a reference to a, and those that a waker has moved *)
(* away from it and not dropped one for.                                    *)
Holders(a) == {w \in Waiter : Holds(w) /\ key[w] = a}
Owed(a) ==
  {p \in Waker \X (1..Cardinality(Waiter)) :
     /\ pc[p[1]] # "idle" /\ op[p[1]].key1 = a
     /\ p[2] <= op[p[1]].drop_count}

Counted == \A a \in Addr : refs[a] = Cardinality(Holders(a)) + Cardinality(Owed(a))

(* A waker with late waiters has not handled any, and nqueued tells. *)
Unseen ==
  \A k \in Waker :
    /\ late[k] # {} => /\ pc[k] \in {"lock1", "lock2", "locked", "unlock", "drop"}
                       /\ op[k].kind = "cmp_requeue" /\ op[k].touched = {}
    /\ (late[k] # {} /\ pc[k] \in {"lock1", "lock2", "locked"})
         => op[k].nqueued < nqueued[bh1(k)]
    /\ (pc[k] \in {"value", "lock1", "lock2", "locked"} /\ op[k].kind = "cmp_requeue")
         => op[k].nqueued <= nqueued[bh1(k)]

(* A task that stores wakes all who wait, "var = new; futex_wake(&var)" of  *)
(* the comment in futex_wait().                                             *)
StoresWakeAll ==
  \A k \in Waker : \A r \in Request[k] : r.stored => r.nr_wake >= Cardinality(Waiter)

(* Waker k has stored to the word that w waits on and has yet to reach w. *)
ComesTo(k, w) ==
  /\ pc[k] # "idle" /\ op[k].stored /\ op[k].key1 = call[w].uaddr
  /\ \/ pc[k] \in {"lock1", "locked"}
     \/ Walking(k) /\ (op[k].next = w \/ Ahead(chain[bh1(k)], op[k].next, w))

Outdated(w) ==
  /\ wpc[w] \in {"prepare", "check", "sleep"} /\ w \notin FdWaiter
  /\ Linked(w) /\ ~moved[w] /\ word[call[w].uaddr] # call[w].val

Coming ==
  /\ \A k \in Waker : pc[k] # "idle" /\ op[k].stored =>
       op[k].kind = "wake" /\ op[k].nr_wake >= Cardinality(Waiter)
  /\ \A w \in Waiter : wpc[w] = "open" => w \in FdWaiter
  /\ \A w \in Waiter : Holds(w) /\ ~moved[w] => key[w] = call[w].uaddr
  /\ \A w \in Waiter : Outdated(w) => \E k \in Waker : ComesTo(k, w)

-----------------------------------------------------------------------------
(* The steps. *)

WaiterSteps(w) ==
  \/ \E c \in Wait[w] : futex_wait(w, c[1], c[2])
  \/ \E c \in Wait[w] : futex_fd(w, c[1])
  \/ TestValue(w) \/ Refault(w) \/ Prepare(w) \/ CheckList(w) \/ Woken(w) \/ GivesUp(w)
  \/ futex_close(w) \/ unqueue_me(w) \/ UnqueueLocked(w)

WakerSteps(k) ==
  \/ \E r \in Request[k] : Begins(k, r)
  \/ ReadNqueued(k) \/ ReadValue(k) \/ LockFirst(k) \/ LockSecond(k) \/ CheckNqueued(k)
  \/ LoopSkips(k) \/ wake_futex(k) \/ WakeUpAll(k) \/ ClearLockPtr(k) \/ Requeue(k)
  \/ Unlock(k) \/ DropKeyRefs(k)

(* Every step is a waiter's or a waker's. *)
LEMMA NextCases ==
  ASSUME Next
  PROVE  (\E w \in Waiter : WaiterSteps(w)) \/ (\E k \in Waker : WakerSteps(k))
BY DEF Next, WaiterStep, WakerStep, WaiterSteps, WakerSteps

(* What a waiter and a waker may ask for. *)
LEMMA Arguments ==
  /\ \A w \in Waiter : \A c \in Wait[w] : c[1] \in Addr /\ c[2] \in Value
  /\ \A k \in Waker : \A r \in Request[k] :
       /\ r \in [kind : {"wake", "requeue", "cmp_requeue"}, key1 : Addr, key2 : Addr,
                 nr_wake : Nat, nr_requeue : Nat, val : Value, stored : BOOLEAN]
       /\ r.kind = "wake" => r.key1 = r.key2
       /\ r.stored => r.kind = "wake"
<1>1. ASSUME NEW w \in Waiter, NEW c \in Wait[w] PROVE c[1] \in Addr /\ c[2] \in Value
  <2>1. Wait[w] \in SUBSET (Addr \X Value)
    BY FutexAssumption
  <2> QED
    BY <2>1
<1>2. ASSUME NEW k \in Waker, NEW r \in Request[k]
      PROVE  /\ r \in [kind : {"wake", "requeue", "cmp_requeue"}, key1 : Addr, key2 : Addr,
                       nr_wake : Nat, nr_requeue : Nat, val : Value, stored : BOOLEAN]
             /\ r.kind = "wake" => r.key1 = r.key2
             /\ r.stored => r.kind = "wake"
  <2>1. Request[k] \in SUBSET
            [kind : {"wake", "requeue", "cmp_requeue"}, key1 : Addr, key2 : Addr,
             nr_wake : Nat, nr_requeue : Nat, val : Value, stored : BOOLEAN]
    BY FutexAssumption
  <2>2. (r.kind = "wake" => r.key1 = r.key2) /\ (r.stored => r.kind = "wake")
    BY FutexAssumption
  <2> QED
    BY <2>1, <2>2
<1> QED
  BY <1>1, <1>2

(* The constants. *)
LEMMA Distinct ==
  /\ Bucket \subseteq Nat /\ NULL \notin Bucket /\ Nobody \notin Waker
  /\ ListHead \notin Waiter
  /\ AnyAddr \in Addr /\ AnyValue \in Value
  /\ IsFiniteSet(Waiter) /\ IsFiniteSet(Waker)
<1>1. NULL \notin Nat
  BY DEF NULL
<1> QED
  BY <1>1, FutexAssumption, NameAssumption DEF AnyAddr, AnyValue

-----------------------------------------------------------------------------
(* The chains. *)

(* list_del() of an entry of a chain, and list_add_tail(). *)
LEMMA WithoutType ==
  ASSUME Kinds, NEW b \in Bucket, NEW w
  PROVE  Without(w, b) \in Seq(Waiter)
BY RemoveFirstSub DEF Without, Kinds, BucketKinds

LEMMA WithoutIn ==
  ASSUME Kinds, Chained, NEW b \in Bucket, NEW w
  PROVE  /\ Without(w, b) \in Seq(Waiter) /\ ToSet(Without(w, b)) = ToSet(chain[b]) \ {w}
         /\ Once(Without(w, b))
<1>1. chain[b] \in Seq(Waiter) /\ \A i, j \in DOMAIN chain[b] : chain[b][i] = chain[b][j] => i = j
  BY DEF Kinds, BucketKinds, Chained, Once
<1> QED
  BY <1>1, RemoveFirstSet DEF Without, Once

(* First() and NextOf() are entries of the chain, or its head. *)
LEMMA FirstType ==
  ASSUME Kinds, NEW b \in Bucket
  PROVE  First(b) \in Cursor /\ (First(b) = ListHead \/ InChain(First(b), b))
<1>1. chain[b] \in Seq(Waiter)
  BY DEF Kinds, BucketKinds
<1>2. ToSet(chain[b]) \in SUBSET Waiter
  BY <1>1, ListSet
<1>3. chain[b] # <<>> => chain[b][1] \in ToSet(chain[b])
  BY <1>1, AheadFirst
<1> QED
  BY <1>2, <1>3 DEF First, Cursor, InChain

(* Where w is in the chain. *)
LEMMA NextOfAt ==
  ASSUME Kinds, NEW b \in Bucket, NEW w, InChain(w, b)
  PROVE  \E i \in DOMAIN chain[b] :
           /\ chain[b][i] = w
           /\ NextOf(w, b) = IF i = Len(chain[b]) THEN ListHead ELSE chain[b][i + 1]
<1> DEFINE i == CHOOSE j \in DOMAIN chain[b] : chain[b][j] = w
<1>1. \E j \in DOMAIN chain[b] : chain[b][j] = w
  BY DEF InChain, ToSet
<1>2. i \in DOMAIN chain[b] /\ chain[b][i] = w
  BY <1>1
<1> QED
  BY <1>2 DEF NextOf

LEMMA NextOfType ==
  ASSUME Kinds, NEW b \in Bucket, NEW w, InChain(w, b)
  PROVE  NextOf(w, b) \in Cursor /\ (NextOf(w, b) = ListHead \/ InChain(NextOf(w, b), b))
<1>1. PICK i \in DOMAIN chain[b] :
           /\ chain[b][i] = w
           /\ NextOf(w, b) = IF i = Len(chain[b]) THEN ListHead ELSE chain[b][i + 1]
  BY NextOfAt
<1>2. chain[b] \in Seq(Waiter)
  BY DEF Kinds, BucketKinds
<1>3. ToSet(chain[b]) \in SUBSET Waiter
  BY <1>2, ListSet
<1>4. i # Len(chain[b]) => i + 1 \in DOMAIN chain[b]
  BY <1>2
<1>5. i # Len(chain[b]) => chain[b][i + 1] \in ToSet(chain[b])
  BY <1>4 DEF ToSet
<1> QED
  BY <1>1, <1>3, <1>5 DEF InChain, Cursor

(* The order of a chain from there on. *)
LEMMA NextOfOrder ==
  ASSUME Kinds, Chained, NEW b \in Bucket, NEW w, InChain(w, b)
  PROVE  LET c == chain[b]  n == NextOf(w, b) IN
         /\ n = ListHead => \A y \in ToSet(c) : ~Ahead(c, w, y)
         /\ n # ListHead => Ahead(c, w, n) /\ n # w
         /\ \A y \in ToSet(c) : Ahead(c, w, y) => y = n \/ Ahead(c, n, y)
<1> DEFINE c == chain[b]
           n == NextOf(w, b)
<1>1. PICK i \in DOMAIN c : /\ c[i] = w
                            /\ n = IF i = Len(c) THEN ListHead ELSE c[i + 1]
  BY NextOfAt
<1>2. c \in Seq(Waiter) /\ Once(c)
  BY DEF Kinds, BucketKinds, Chained
<1>3. ToSet(c) \in SUBSET Waiter
  BY <1>2, ListSet
<1>4. /\ i = Len(c) => \A y : ~Ahead(c, c[i], y)
      /\ i # Len(c) =>
              /\ i + 1 \in DOMAIN c /\ Ahead(c, c[i], c[i + 1])
              /\ \A y : Ahead(c, c[i], y) => y = c[i + 1] \/ Ahead(c, c[i + 1], y)
  BY <1>2, AheadNext
<1>5. CASE i = Len(c)
  BY <1>1, <1>4, <1>5
<1>6. CASE i # Len(c)
  <2>1. n = c[i + 1] /\ Ahead(c, w, n) /\ i + 1 \in DOMAIN c
    BY <1>1, <1>4, <1>6
  <2>2. n \in Waiter /\ n # ListHead
    BY <1>3, <2>1, Distinct DEF ToSet
  <2>3. n # w
    BY <1>2, <2>1, AheadOrder
  <2> QED
    BY <1>1, <1>4, <1>6, <2>1, <2>2, <2>3
<1> QED
  BY <1>5, <1>6

(* Where the loop's cursor is. *)
LEMMA AtCursor ==
  ASSUME Kinds, Asked, Chained, Walked, NEW k \in Waker, pc[k] = "scan",
         op[k].next # op[k].head1
  PROVE  /\ op[k] \in Calls /\ bh1(k) \in Bucket /\ bh2(k) \in Bucket
         /\ op[k].next \in Waiter /\ InChain(op[k].next, bh1(k))
<1>1. op[k] \in Calls
  BY DEF Asked
<1>2. bh1(k) \in Bucket /\ bh2(k) \in Bucket
  BY <1>1 DEF Calls, bh1, bh2, Kinds, OtherKinds
<1>3. PICK c \in Seq(Waiter) : c = chain[bh1(k)] /\ Once(c) /\ ToSet(c) \in SUBSET Waiter
  BY <1>2, ListSet DEF Kinds, BucketKinds, Chained
<1>4. op[k].next \in ToSet(c)
  <2>1. CASE op[k].head1 = ListHead
    BY <1>3, <2>1 DEF Chained, Walking, InChain
  <2>2. CASE op[k].head1 # ListHead
    <3>1. Ahead(c, op[k].next, op[k].head1)
      BY <1>3, <2>2 DEF Walked, Walking, Stopped, StopAt
    <3> QED
      BY <1>3, <3>1, AheadOrder
  <2> QED
    BY <2>1, <2>2
<1> QED
  BY <1>1, <1>2, <1>3, <1>4 DEF InChain

-----------------------------------------------------------------------------
(* Kinds and Asked. *)

LEMMA GotoKinds ==
  ASSUME Kinds, NEW w \in Waiter, NEW l \in Label, NEW e \in Error, Goto(w, l, e)
  PROVE  LabelKinds'
BY DEF Kinds, LabelKinds, Goto

LEMMA AwakeKinds ==
  ASSUME Kinds, NEW w \in Waiter, NEW e \in Error, Awake(w, e)
  PROVE  /\ LabelKinds' /\ on_wq' \in [Waiter -> BOOLEAN]
         /\ task' \in [Waiter -> {"running", "interruptible"}]
<1>1. "open" \in Label /\ "unqueue" \in Label /\ "none" \in Error
  BY DEF Label, Error
<1>2. LabelKinds'
  BY <1>1, GotoKinds DEF Awake
<1>3. task' \in [Waiter -> {"running", "interruptible"}]
  BY DEF Awake, Kinds, TaskKinds
<1>4. PICK v \in BOOLEAN : v = (w \notin FdWaiter)
  OBVIOUS
<1>5. on_wq' = [on_wq EXCEPT ![w] = v]
  BY <1>4 DEF Awake
<1>6. on_wq' \in [Waiter -> BOOLEAN]
  BY <1>5 DEF Kinds, QueueKinds
<1> QED
  BY <1>2, <1>3, <1>6

LEMMA QueueMeKinds ==
  ASSUME Kinds, NEW w \in Waiter, NEW a \in Addr, queue_me(w, a)
  PROVE  BucketKinds' /\ QueueKinds'
<1>1. PICK b \in Bucket : b = hash[a]
  BY DEF Kinds, OtherKinds
<1>2. /\ get_key_refs(a) /\ CountQueued(b)
      /\ key' = [key EXCEPT ![w] = a] /\ lock_ptr' = [lock_ptr EXCEPT ![w] = b]
      /\ chain' = [chain EXCEPT ![b] = Append(@, w)]
      /\ on_wq' = [on_wq EXCEPT ![w] = FALSE]
      /\ hit' = [hit EXCEPT ![w] = FALSE] /\ moved' = [moved EXCEPT ![w] = FALSE]
      /\ late' = [k \in Waker |-> IF k \in HaveRead(b) THEN late[k] \cup {w} ELSE late[k]]
      /\ UNCHANGED lock
  BY <1>1 DEF queue_me
<1>3. Append(chain[b], w) \in Seq(Waiter)
  BY DEF Kinds, BucketKinds
<1>4. BucketKinds'
  BY <1>2, <1>3 DEF CountQueued, Kinds, BucketKinds
<1>5. late' \in [Waker -> SUBSET Waiter]
  BY <1>2 DEF Kinds, QueueKinds
<1>6. refs' \in [Addr -> Int]
  BY <1>2 DEF get_key_refs, Kinds, QueueKinds
<1>7. key' \in [Waiter -> Addr] /\ lock_ptr' \in [Waiter -> Bucket \cup {NULL}]
  BY <1>2 DEF Kinds, QueueKinds
<1>8. /\ on_wq' \in [Waiter -> BOOLEAN] /\ hit' \in [Waiter -> BOOLEAN]
      /\ moved' \in [Waiter -> BOOLEAN]
  BY <1>2 DEF Kinds, QueueKinds
<1> QED
  BY <1>4, <1>5, <1>6, <1>7, <1>8 DEF QueueKinds

LEMMA DroppedKinds ==
  ASSUME Kinds, NEW w \in Waiter, Dropped(w)
  PROVE  /\ key' \in [Waiter -> Addr] /\ lock_ptr' \in [Waiter -> Bucket \cup {NULL}]
         /\ on_wq' \in [Waiter -> BOOLEAN] /\ refs' \in [Addr -> Int]
         /\ moved' \in [Waiter -> BOOLEAN] /\ lp' \in [Waiter -> Bucket \cup {NULL}]
<1>1. key' \in [Waiter -> Addr] /\ lock_ptr' \in [Waiter -> Bucket \cup {NULL}]
  BY Distinct DEF Dropped, Kinds, QueueKinds
<1>2. lp' \in [Waiter -> Bucket \cup {NULL}]
  BY DEF Dropped, Kinds, TaskKinds
<1>3. on_wq' \in [Waiter -> BOOLEAN] /\ moved' \in [Waiter -> BOOLEAN]
  BY DEF Dropped, Kinds, QueueKinds
<1>4. refs' \in [Addr -> Int]
  BY DEF Dropped, Kinds, QueueKinds
<1> QED
  BY <1>1, <1>2, <1>3, <1>4

LEMMA ReturnKinds ==
  ASSUME Kinds, NEW w \in Waiter, NEW r \in {"none", "0", "error"}, Return(w, r)
  PROVE  LabelKinds' /\ ret' \in [Waiter -> {"none", "0", "error"}] /\ Dropped(w)
<1>1. "idle" \in Label /\ "none" \in Error
  BY DEF Label, Error
<1>2. LabelKinds'
  BY <1>1, GotoKinds DEF Return
<1> QED
  BY <1>2 DEF Return, Kinds, TaskKinds

LEMMA FinishKinds ==
  ASSUME Kinds, NEW k \in Waker, Finish(k)
  PROVE  /\ late' \in [Waker -> SUBSET Waiter]
         /\ pc' \in [Waker -> {"idle", "start", "value", "lock1", "lock2", "locked",
                               "scan", "wake", "clear", "unlock", "drop"}]
BY DEF Finish, Kinds, QueueKinds, OtherKinds

LEMMA KindsWaiter ==
  ASSUME Kinds, Asked, NEW w \in Waiter, WaiterSteps(w)
  PROVE  Kinds'
<1>1. ASSUME NEW c \in Wait[w], futex_wait(w, c[1], c[2]) PROVE Kinds'
  <2>0. c[1] \in Addr /\ c[2] \in Value
    BY Arguments
  <2>1. BucketKinds' /\ QueueKinds'
    BY <1>1, <2>0, QueueMeKinds DEF futex_wait
  <2>2. LabelKinds'
    BY <1>1, <2>0 DEF futex_wait, Kinds, LabelKinds, Label, Error
  <2>3. TaskKinds'
    BY <1>1 DEF futex_wait, Kinds, TaskKinds
  <2>4. OtherKinds'
    BY <1>1, FutexAssumption DEF futex_wait, Kinds, OtherKinds, waker
  <2> QED
    BY <2>1, <2>2, <2>3, <2>4 DEF Kinds
<1>2. ASSUME NEW c \in Wait[w], futex_fd(w, c[1]) PROVE Kinds'
  <2>0. c[1] \in Addr /\ c[2] \in Value
    BY Arguments
  <2>1. BucketKinds' /\ QueueKinds'
    BY <1>2, <2>0, QueueMeKinds DEF futex_fd
  <2>2. LabelKinds'
    BY <1>2, <2>0 DEF futex_fd, Kinds, LabelKinds, Label, Error
  <2>3. TaskKinds'
    BY <1>2 DEF futex_fd, Kinds, TaskKinds
  <2>4. OtherKinds'
    BY <1>2, FutexAssumption DEF futex_fd, Kinds, OtherKinds, waker
  <2> QED
    BY <2>1, <2>2, <2>3, <2>4 DEF Kinds
<1>3. ASSUME TestValue(w) PROVE Kinds'
  <2>1. LabelKinds'
    BY <1>3, GotoKinds DEF TestValue, AfterFault, Label, Error
  <2>2. OtherKinds'
    <3>1. faults' \in 0..MaxFaults
      BY <1>3, FutexAssumption DEF TestValue, Kinds, OtherKinds
    <3> QED
      BY <1>3, <3>1 DEF TestValue, Kinds, OtherKinds, waker
  <2>3. BucketKinds' /\ QueueKinds' /\ TaskKinds'
    BY <1>3 DEF TestValue, Kinds, BucketKinds, QueueKinds, TaskKinds, buckets, futex_q, ghost
  <2> QED
    BY <2>1, <2>2, <2>3 DEF Kinds
<1>4. ASSUME Refault(w) PROVE Kinds'
  <2>1. CASE queue_me(w, call[w].uaddr) /\ Goto(w, "test", "none") /\ UNCHANGED ret
    <3>1. call[w].uaddr \in Addr
      BY DEF Kinds, LabelKinds
    <3>2. BucketKinds' /\ QueueKinds'
      BY <2>1, <3>1, QueueMeKinds
    <3>3. LabelKinds'
      BY <2>1, GotoKinds DEF Label, Error
    <3>4. TaskKinds' /\ OtherKinds'
      BY <1>4, <2>1 DEF Refault, Kinds, TaskKinds, OtherKinds, waker, bounds
    <3> QED
      BY <3>2, <3>3, <3>4 DEF Kinds
  <2>2. CASE /\ wpc' = [wpc EXCEPT ![w] = "idle"] /\ ret' = [ret EXCEPT ![w] = "error"]
             /\ UNCHANGED <<buckets, futex_q, on_wq, refs, ghost, call>>
    <3>1. LabelKinds' /\ TaskKinds'
      BY <1>4, <2>2 DEF Refault, Kinds, TaskKinds, LabelKinds, Label
    <3>2. BucketKinds' /\ QueueKinds' /\ OtherKinds'
      BY <1>4, <2>2 DEF Refault, Kinds, BucketKinds, QueueKinds, OtherKinds, waker, bounds,
                     buckets, futex_q, ghost
    <3> QED
      BY <3>1, <3>2 DEF Kinds
  <2> QED
    BY <1>4, <2>1, <2>2 DEF Refault
<1>5. ASSUME Prepare(w) PROVE Kinds'
  BY <1>5, Arguments, Distinct, ZenonT(60)
  DEF Prepare, Goto, Label, Error, Kinds, BucketKinds, QueueKinds, TaskKinds, LabelKinds,
      OtherKinds, buckets, futex_q, waiter, waker, ghost, bounds
<1>6. ASSUME CheckList(w) PROVE Kinds'
  <2>1. /\ LabelKinds' /\ on_wq' \in [Waiter -> BOOLEAN]
        /\ task' \in [Waiter -> {"running", "interruptible"}]
    <3>1. CASE Goto(w, "sleep", "none") /\ UNCHANGED <<task, on_wq>>
      <4>1. LabelKinds'
        BY <3>1, GotoKinds DEF Label, Error
      <4> QED
        BY <3>1, <4>1 DEF Kinds, QueueKinds, TaskKinds
    <3>2. CASE Awake(w, "EINTR")
      BY <3>2, AwakeKinds DEF Error
    <3> QED
      BY <1>6, <3>1, <3>2 DEF CheckList
  <2> QED
    BY <1>6, <2>1 DEF CheckList, Kinds, BucketKinds, QueueKinds, TaskKinds, OtherKinds, waker,
                   bounds, buckets, futex_q, ghost
<1>7. ASSUME Woken(w) PROVE Kinds'
  <2>1. /\ LabelKinds' /\ on_wq' \in [Waiter -> BOOLEAN]
        /\ task' \in [Waiter -> {"running", "interruptible"}]
    BY <1>7, AwakeKinds DEF Woken, Error
  <2> QED
    BY <1>7, <2>1 DEF Woken, Kinds, BucketKinds, QueueKinds, TaskKinds, OtherKinds, waker,
                   bounds, buckets, futex_q, ghost
<1>8. ASSUME GivesUp(w) PROVE Kinds'
  <2>1. /\ LabelKinds' /\ on_wq' \in [Waiter -> BOOLEAN]
        /\ task' \in [Waiter -> {"running", "interruptible"}]
    BY <1>8, AwakeKinds DEF GivesUp, Error
  <2> QED
    BY <1>8, <2>1 DEF GivesUp, Kinds, BucketKinds, QueueKinds, TaskKinds, OtherKinds, waker,
                   bounds, buckets, futex_q, ghost
<1>9. ASSUME futex_close(w) PROVE Kinds'
  <2>1. LabelKinds'
    BY <1>9, GotoKinds DEF futex_close, Label, Error
  <2> QED
    BY <1>9, <2>1 DEF futex_close, Kinds, BucketKinds, QueueKinds, TaskKinds, OtherKinds,
                   waker, bounds, buckets, futex_q, ghost
<1>10. ASSUME unqueue_me(w) PROVE Kinds'
  <2>1. CASE WasWoken(w)
    <3>1. PICK r \in {"none", "0", "error"} : Return(w, r)
      BY <1>10, <2>1 DEF unqueue_me
    <3>2. LabelKinds' /\ ret' \in [Waiter -> {"none", "0", "error"}] /\ Dropped(w)
      BY <3>1, ReturnKinds
    <3>3. /\ key' \in [Waiter -> Addr] /\ lock_ptr' \in [Waiter -> Bucket \cup {NULL}]
          /\ on_wq' \in [Waiter -> BOOLEAN] /\ refs' \in [Addr -> Int]
          /\ moved' \in [Waiter -> BOOLEAN] /\ lp' \in [Waiter -> Bucket \cup {NULL}]
      BY <3>2, DroppedKinds
    <3> QED
      BY <1>10, <3>2, <3>3 DEF unqueue_me, Kinds, BucketKinds, QueueKinds, TaskKinds,
                           OtherKinds, waker, bounds, buckets
  <2>2. CASE ~WasWoken(w)
    BY <1>10, <2>2, ZenonT(60) DEF unqueue_me, Kinds, BucketKinds, QueueKinds, TaskKinds, LabelKinds,
                   OtherKinds, Label, waker, bounds, buckets, futex_q
  <2> QED
    BY <2>1, <2>2
<1>11. ASSUME UnqueueLocked(w) PROVE Kinds'
  <2>1. CASE WrongLock(w)
    BY <1>11, <2>1 DEF UnqueueLocked, Kinds, BucketKinds, QueueKinds, TaskKinds, LabelKinds,
                   OtherKinds, Label, waker, bounds, futex_q
  <2>2. CASE ~WrongLock(w)
    <3>1. /\ Dropped(w) /\ LabelKinds' /\ ret' \in [Waiter -> {"none", "0", "error"}]
      <4>1. CASE Dropped(w) /\ Goto(w, "refault", "none") /\ UNCHANGED ret
        <5>1. LabelKinds'
          BY <4>1, GotoKinds DEF Label, Error
        <5> QED
          BY <4>1, <5>1 DEF Kinds, TaskKinds
      <4>2. CASE Return(w, IF w \in FdWaiter THEN "none" ELSE "error")
        BY <4>2, ReturnKinds
      <4> QED
        BY <1>11, <2>2, <4>1, <4>2 DEF UnqueueLocked
    <3>2. /\ key' \in [Waiter -> Addr] /\ lock_ptr' \in [Waiter -> Bucket \cup {NULL}]
          /\ on_wq' \in [Waiter -> BOOLEAN] /\ refs' \in [Addr -> Int]
          /\ moved' \in [Waiter -> BOOLEAN] /\ lp' \in [Waiter -> Bucket \cup {NULL}]
      BY <3>1, DroppedKinds
    <3>3. chain' \in [Bucket -> Seq(Waiter)]
      <4>1. \A b \in Bucket : Without(w, b) \in Seq(Waiter)
        BY WithoutType
      <4>2. chain' = [chain EXCEPT ![lp[w]] = Without(w, lp[w])]
        BY <1>11, <2>2 DEF UnqueueLocked
      <4> QED
        BY <4>1, <4>2 DEF Kinds, BucketKinds
    <3> QED
      BY <1>11, <3>1, <3>2, <3>3 DEF UnqueueLocked, Kinds, BucketKinds, QueueKinds, TaskKinds,
                                 OtherKinds, waker, bounds
  <2> QED
    BY <2>1, <2>2
<1> QED
  BY <1>1, <1>2, <1>3, <1>4, <1>5, <1>6, <1>7, <1>8, <1>9, <1>10, <1>11 DEF
     WaiterSteps

LEMMA KindsWaker ==
  ASSUME Kinds, Asked, Chained, Walked, NEW k \in Waker, WakerSteps(k)
  PROVE  Kinds'
<1>1. ASSUME NEW r \in Request[k], Begins(k, r) PROVE Kinds'
  <2>1. word' \in [Addr -> Value]
    BY <1>1, Arguments DEF Begins, Kinds, OtherKinds
  <2>2. ops' \in [Waker -> 0..MaxOps]
    BY <1>1, FutexAssumption DEF Begins, Kinds, OtherKinds
  <2> QED
    BY <1>1, <2>1, <2>2 DEF Begins, Kinds, BucketKinds, QueueKinds, TaskKinds, LabelKinds, OtherKinds,
                   buckets, futex_q, waiter, waker, ghost, bounds
<1>2. ASSUME ReadNqueued(k) PROVE Kinds'
  BY <1>2, Arguments, Distinct
  DEF ReadNqueued, GotoK, Kinds, BucketKinds, QueueKinds, TaskKinds,
      LabelKinds, OtherKinds, Error, Label, buckets, futex_q, waiter, waker,
      ghost, bounds
<1>3. ASSUME ReadValue(k) PROVE Kinds'
  <2>1. faults' \in 0..MaxFaults
    BY <1>3, FutexAssumption DEF ReadValue, Kinds, OtherKinds
  <2>2. /\ late' \in [Waker -> SUBSET Waiter]
        /\ pc' \in [Waker -> {"idle", "start", "value", "lock1", "lock2", "locked",
                              "scan", "wake", "clear", "unlock", "drop"}]
    BY <1>3, FinishKinds DEF ReadValue, GotoK, Kinds, QueueKinds, OtherKinds
  <2> QED
    BY <1>3, <2>1, <2>2 DEF ReadValue, Kinds, BucketKinds, QueueKinds, TaskKinds, LabelKinds, OtherKinds,
                   buckets, futex_q, waiter, waker, ghost, bounds
<1>4. ASSUME LockFirst(k) PROVE Kinds'
  <2>1. lock' \in [Bucket -> Waker \cup {Nobody}]
    BY <1>4 DEF LockFirst, Acquire, Kinds, BucketKinds
  <2> QED
    BY <1>4, <2>1 DEF LockFirst, Acquire, GotoK, Kinds, BucketKinds, QueueKinds, TaskKinds, LabelKinds, OtherKinds,
                   buckets, futex_q, waiter, waker, ghost, bounds
<1>5. ASSUME LockSecond(k) PROVE Kinds'
  <2>1. PICK b \in {bh1(k), bh2(k)} : lock[b] # k /\ Acquire(k, b, "locked")
    BY <1>5 DEF LockSecond
  <2>2. lock' \in [Bucket -> Waker \cup {Nobody}]
    BY <2>1 DEF Acquire, Kinds, BucketKinds
  <2> QED
    BY <2>1, <2>2 DEF Acquire, GotoK, Kinds, BucketKinds, QueueKinds, TaskKinds, LabelKinds, OtherKinds,
                   buckets, futex_q, waiter, waker, ghost, bounds
<1>6. ASSUME CheckNqueued(k) PROVE Kinds'
  BY <1>6, Arguments, Distinct, ZenonT(60)
  DEF CheckNqueued, GotoK, Kinds, BucketKinds, QueueKinds, TaskKinds,
      LabelKinds, OtherKinds, Error, Label, buckets, futex_q, waiter, waker,
      ghost, bounds
<1>7. ASSUME LoopSkips(k) PROVE Kinds'
  BY <1>7, Arguments, Distinct
  DEF LoopSkips, Kinds, BucketKinds, QueueKinds, TaskKinds, LabelKinds,
      OtherKinds, Error, Label, buckets, futex_q, waiter, waker, ghost, bounds
<1>8. ASSUME wake_futex(k) PROVE Kinds'
  <2>1. chain' \in [Bucket -> Seq(Waiter)]
    <3>1. \A b \in Bucket : Without(op[k].next, b) \in Seq(Waiter)
      BY WithoutType
    <3> QED
      BY <1>8, <3>1 DEF wake_futex, Kinds, BucketKinds
  <2>2. hit' \in [Waiter -> BOOLEAN]
    BY <1>8 DEF wake_futex, Kinds, QueueKinds
  <2> QED
    BY <1>8, <2>1, <2>2 DEF wake_futex, GotoK, Kinds, BucketKinds, QueueKinds, TaskKinds, LabelKinds, OtherKinds,
                   buckets, futex_q, waiter, waker, ghost, bounds
<1>9. ASSUME WakeUpAll(k) PROVE Kinds'
  <2>1. task' \in [Waiter -> {"running", "interruptible"}]
    BY <1>9 DEF WakeUpAll, Kinds, TaskKinds
  <2> QED
    BY <1>9, <2>1 DEF WakeUpAll, GotoK, Kinds, BucketKinds, QueueKinds, TaskKinds, LabelKinds, OtherKinds,
                   buckets, futex_q, waiter, waker, ghost, bounds
<1>10. ASSUME ClearLockPtr(k) PROVE Kinds'
  <2>1. lock_ptr' \in [Waiter -> Bucket \cup {NULL}]
    BY <1>10 DEF ClearLockPtr, Kinds, QueueKinds
  <2> QED
    BY <1>10, <2>1 DEF ClearLockPtr, GotoK, Kinds, BucketKinds, QueueKinds, TaskKinds, LabelKinds, OtherKinds,
                   buckets, futex_q, waiter, waker, ghost, bounds
<1>11. ASSUME Requeue(k) PROVE Kinds'
  <2> DEFINE t == op[k].next
  <2>1. op[k] \in Calls /\ t \in Waiter
    BY <1>11, AtCursor DEF Requeue, Matches
  <2>2. bh1(k) \in Bucket /\ bh2(k) \in Bucket /\ op[k].key2 \in Addr
    BY <2>1 DEF bh1, bh2, Kinds, OtherKinds, Calls
  <2>3. chain' \in [Bucket -> Seq(Waiter)]
    <3>1. \A b \in Bucket : Without(t, b) \in Seq(Waiter)
      BY WithoutType
    <3>2. Append(Without(t, bh2(k)), t) \in Seq(Waiter)
      BY <2>1, <2>2, <3>1
    <3> QED
      BY <1>11, <2>2, <3>1, <3>2 DEF Requeue, Kinds, BucketKinds
  <2>4. lock_ptr' \in [Waiter -> Bucket \cup {NULL}] /\ key' \in [Waiter -> Addr]
    BY <1>11, <2>2 DEF Requeue, Kinds, QueueKinds
  <2>5. refs' \in [Addr -> Int]
    BY <1>11, <2>2 DEF Requeue, get_key_refs, Kinds, QueueKinds
  <2>6. moved' \in [Waiter -> BOOLEAN]
    <3>1. PICK v \in BOOLEAN : v = (moved[t] \/ op[k].key1 # op[k].key2)
      BY <2>1 DEF Kinds, QueueKinds
    <3>2. moved' = [moved EXCEPT ![t] = v]
      BY <1>11, <3>1 DEF Requeue
    <3> QED
      BY <3>2 DEF Kinds, QueueKinds
  <2>7. pc' \in [Waker -> {"idle", "start", "value", "lock1", "lock2", "locked", "scan",
                          "wake", "clear", "unlock", "drop"}]
    BY <1>11 DEF Requeue, GotoK, Kinds, OtherKinds
  <2> QED
    BY <1>11, <2>3, <2>4, <2>5, <2>6, <2>7 DEF Requeue, Kinds, BucketKinds, QueueKinds, TaskKinds, LabelKinds, OtherKinds,
                   buckets, futex_q, waiter, waker, ghost, bounds
<1>12. ASSUME Unlock(k) PROVE Kinds'
  <2>1. lock' \in [Bucket -> Waker \cup {Nobody}]
    BY <1>12 DEF Unlock, Kinds, BucketKinds
  <2>2. /\ late' \in [Waker -> SUBSET Waiter]
        /\ pc' \in [Waker -> {"idle", "start", "value", "lock1", "lock2", "locked",
                              "scan", "wake", "clear", "unlock", "drop"}]
    BY <1>12, FinishKinds DEF Unlock, GotoK, Kinds, QueueKinds, OtherKinds
  <2> QED
    BY <1>12, <2>1, <2>2 DEF Unlock, Kinds, BucketKinds, QueueKinds, TaskKinds, LabelKinds, OtherKinds,
                   buckets, futex_q, waiter, waker, ghost, bounds
<1>13. ASSUME DropKeyRefs(k) PROVE Kinds'
  <2>1. op[k] \in Calls
    BY <1>13 DEF DropKeyRefs, Asked
  <2>2. PICK n \in Nat : n = Drops(k)
    BY <2>1 DEF Calls, Drops
  <2>3. PICK a \in Addr : a = op[k].key1
    BY <2>1 DEF Calls
  <2>4. refs' = [refs EXCEPT ![a] = refs[a] - n]
    BY <1>13, <2>2, <2>3 DEF DropKeyRefs
  <2>5. refs' \in [Addr -> Int]
    BY <2>4 DEF Kinds, QueueKinds
  <2>6. /\ late' \in [Waker -> SUBSET Waiter]
        /\ pc' \in [Waker -> {"idle", "start", "value", "lock1", "lock2", "locked",
                              "scan", "wake", "clear", "unlock", "drop"}]
    BY <1>13, FinishKinds DEF DropKeyRefs
  <2> QED
    BY <1>13, <2>5, <2>6 DEF DropKeyRefs, Kinds, BucketKinds, QueueKinds, TaskKinds, LabelKinds, OtherKinds,
                   buckets, futex_q, waiter, waker, ghost, bounds
<1> QED
  BY <1>1, <1>2, <1>3, <1>4, <1>5, <1>6, <1>7, <1>8, <1>9, <1>10, <1>11, <1>12,
     <1>13 DEF WakerSteps

-----------------------------------------------------------------------------
(* What a step of waker k makes of its call. *)

(* The other wakers' calls are what they were. *)
OthersKeep(k) == \A j \in Waker \ {k} : op'[j] = op[j] /\ pc'[j] = pc[j]

(* So are the arguments of k's. *)
ArgsKept(k) ==
  /\ op'[k].kind = op[k].kind /\ op'[k].key1 = op[k].key1 /\ op'[k].key2 = op[k].key2
  /\ op'[k].nr_wake = op[k].nr_wake /\ op'[k].nr_requeue = op[k].nr_requeue
  /\ op'[k].val = op[k].val /\ op'[k].stored = op[k].stored

(* So is what it has done. *)
DoneKept(k) ==
  /\ op'[k].ret = op[k].ret /\ op'[k].drop_count = op[k].drop_count
  /\ op'[k].touched = op[k].touched /\ op'[k].head1 = op[k].head1
  /\ op'[k].this = op[k].this

LEMMA BeginsOp ==
  ASSUME Kinds, Asked, NEW k \in Waker, NEW r \in Request[k], Begins(k, r)
  PROVE  /\ OthersKeep(k) /\ DOMAIN op' = Waker /\ op'[k] \in Calls
         /\ pc[k] = "idle" /\ pc'[k] = IF r.kind = "wake" THEN "lock1" ELSE "start"
         /\ op'[k].kind = r.kind /\ op'[k].key1 = r.key1 /\ op'[k].key2 = r.key2
         /\ op'[k].nr_wake = r.nr_wake /\ op'[k].stored = r.stored
         /\ op'[k].ret = 0 /\ op'[k].drop_count = 0 /\ op'[k].touched = {}
         /\ op'[k].head1 = ListHead
<1> DEFINE c == [kind |-> r.kind, key1 |-> r.key1, key2 |-> r.key2, nr_wake |-> r.nr_wake,
                 nr_requeue |-> r.nr_requeue, val |-> r.val, stored |-> r.stored,
                 nqueued |-> 0, ret |-> 0, this |-> ListHead, next |-> ListHead,
                 head1 |-> ListHead, drop_count |-> 0, touched |-> {}]
<1>1. op' = [op EXCEPT ![k] = c] /\ pc[k] = "idle"
  BY DEF Begins
<1>2. r \in [kind : {"wake", "requeue", "cmp_requeue"}, key1 : Addr, key2 : Addr,
             nr_wake : Nat, nr_requeue : Nat, val : Value, stored : BOOLEAN]
  BY Arguments
<1>3. c \in Calls
  BY <1>2 DEF Calls, Cursor
<1>4. /\ DOMAIN op' = Waker /\ op'[k] = c
      /\ \A j \in Waker \ {k} : op'[j] = op[j]
  BY <1>1 DEF Asked
<1>5. /\ pc'[k] = IF r.kind = "wake" THEN "lock1" ELSE "start"
      /\ \A j \in Waker \ {k} : pc'[j] = pc[j]
  BY DEF Begins, Kinds, OtherKinds
<1>6. /\ c.kind = r.kind /\ c.key1 = r.key1 /\ c.key2 = r.key2
      /\ c.nr_wake = r.nr_wake /\ c.stored = r.stored
      /\ c.ret = 0 /\ c.drop_count = 0 /\ c.touched = {}
      /\ c.head1 = ListHead
  OBVIOUS
<1> HIDE DEF c
<1> QED
  BY <1>1, <1>3, <1>4, <1>5, <1>6 DEF OthersKeep

LEMMA ReadNqueuedOp ==
  ASSUME Kinds, Asked, NEW k \in Waker, ReadNqueued(k)
  PROVE  /\ OthersKeep(k) /\ DOMAIN op' = Waker /\ op'[k] \in Calls
         /\ ArgsKept(k) /\ DoneKept(k) /\ op'[k].nqueued = nqueued[bh1(k)]
         /\ pc'[k] = IF op[k].kind = "cmp_requeue" THEN "value" ELSE "lock1"
<1>1. op[k] \in Calls /\ pc[k] = "start"
  BY DEF ReadNqueued, Asked
<1>2. bh1(k) \in Bucket
  BY <1>1 DEF Calls, bh1, Kinds, OtherKinds
<1>3. PICK n \in Nat : n = nqueued[bh1(k)]
  BY <1>2 DEF Kinds, BucketKinds
<1>4. op' = [op EXCEPT ![k] = [op[k] EXCEPT !.nqueued = n]]
  BY <1>3 DEF ReadNqueued
<1>5. DOMAIN op' = Waker /\ op'[k] = [op[k] EXCEPT !.nqueued = n]
  BY <1>4 DEF Asked
<1>6. op'[k] \in Calls /\ ArgsKept(k) /\ DoneKept(k) /\ op'[k].nqueued = n
  BY <1>1, <1>5 DEF Calls, ArgsKept, DoneKept
<1>7. OthersKeep(k)
  BY <1>4 DEF ReadNqueued, GotoK, OthersKeep, Kinds, OtherKinds, Asked
<1> QED
  BY <1>3, <1>5, <1>6, <1>7 DEF ReadNqueued, GotoK, Kinds, OtherKinds

(* The cursor goes to n. *)
LEMMA CursorOp ==
  ASSUME Kinds, Asked, NEW k \in Waker, pc[k] # "idle", NEW n \in Cursor,
         op' = [op EXCEPT ![k].next = n]
  PROVE  /\ DOMAIN op' = Waker /\ op'[k] \in Calls /\ ArgsKept(k) /\ DoneKept(k)
         /\ op'[k].next = n /\ op'[k].nqueued = op[k].nqueued
         /\ \A j \in Waker \ {k} : op'[j] = op[j]
<1>1. op[k] \in Calls
  BY DEF Asked
<1>2. op' = [op EXCEPT ![k] = [op[k] EXCEPT !.next = n]]
  OBVIOUS
<1>3. /\ DOMAIN op' = Waker /\ op'[k] = [op[k] EXCEPT !.next = n]
      /\ \A j \in Waker \ {k} : op'[j] = op[j]
  BY <1>2 DEF Asked
<1> QED
  BY <1>1, <1>3 DEF Calls, ArgsKept, DoneKept

LEMMA CheckNqueuedOp ==
  ASSUME Kinds, Asked, NEW k \in Waker, CheckNqueued(k)
  PROVE  /\ OthersKeep(k) /\ DOMAIN op' = Waker /\ op'[k] \in Calls
         /\ ArgsKept(k) /\ DoneKept(k)
         /\ pc[k] = "locked" /\ op[k] \in Calls /\ bh1(k) \in Bucket
         /\ \/ pc'[k] = "unlock"
            \/ /\ pc'[k] = "scan" /\ op'[k].next = First(bh1(k))
               /\ op[k].kind = "cmp_requeue" => op[k].nqueued = nqueued[bh1(k)]
<1>1. op[k] \in Calls /\ pc[k] = "locked"
  BY DEF CheckNqueued, Asked
<1>2. bh1(k) \in Bucket
  BY <1>1 DEF Calls, bh1, Kinds, OtherKinds
<1>3. CASE GotoK(k, "unlock") /\ UNCHANGED op
  BY <1>1, <1>2, <1>3 DEF GotoK, OthersKeep, Kinds, OtherKinds, ArgsKept, DoneKept, Asked
<1>4. CASE /\ GotoK(k, "scan") /\ op' = [op EXCEPT ![k].next = First(bh1(k))]
           /\ op[k].kind = "cmp_requeue" => op[k].nqueued = nqueued[bh1(k)]
  <2>1. First(bh1(k)) \in Cursor
    BY <1>2, FirstType
  <2>2. /\ DOMAIN op' = Waker /\ op'[k] \in Calls /\ ArgsKept(k) /\ DoneKept(k)
        /\ op'[k].next = First(bh1(k))
        /\ \A j \in Waker \ {k} : op'[j] = op[j]
    BY <1>1, <1>4, <2>1, CursorOp
  <2> QED
    BY <1>1, <1>2, <1>4, <2>2 DEF GotoK, OthersKeep, Kinds, OtherKinds
<1> QED
  BY <1>3, <1>4 DEF CheckNqueued

LEMMA LoopSkipsOp ==
  ASSUME Kinds, Asked, Chained, Walked, NEW k \in Waker, LoopSkips(k)
  PROVE  /\ OthersKeep(k) /\ DOMAIN op' = Waker /\ op'[k] \in Calls /\ pc' = pc
         /\ ArgsKept(k) /\ DoneKept(k) /\ pc[k] = "scan"
         /\ op[k].next # op[k].head1 /\ key[op[k].next] # op[k].key1
         /\ op'[k].next = NextOf(op[k].next, bh1(k))
<1>1. pc[k] = "scan" /\ op[k].next # op[k].head1
  BY DEF LoopSkips
<1>2. NextOf(op[k].next, bh1(k)) \in Cursor
  BY <1>1, AtCursor, NextOfType
<1>3. op' = [op EXCEPT ![k].next = NextOf(op[k].next, bh1(k))]
  BY DEF LoopSkips
<1>4. /\ DOMAIN op' = Waker /\ op'[k] \in Calls /\ ArgsKept(k) /\ DoneKept(k)
      /\ op'[k].next = NextOf(op[k].next, bh1(k))
      /\ \A j \in Waker \ {k} : op'[j] = op[j]
  BY <1>1, <1>2, <1>3, CursorOp
<1> QED
  BY <1>1, <1>4 DEF LoopSkips, OthersKeep

LEMMA WakeFutexOp ==
  ASSUME Kinds, Asked, Chained, Walked, NEW k \in Waker, wake_futex(k)
  PROVE  /\ OthersKeep(k) /\ DOMAIN op' = Waker /\ op'[k] \in Calls
         /\ ArgsKept(k) /\ pc[k] = "scan" /\ pc' = [pc EXCEPT ![k] = "wake"]
         /\ op[k].next # op[k].head1 /\ key[op[k].next] = op[k].key1
         /\ op'[k].this = op[k].next /\ op'[k].next = NextOf(op[k].next, bh1(k))
         /\ op'[k].head1 = op[k].head1 /\ op'[k].drop_count = op[k].drop_count
         /\ op'[k].ret = op[k].ret + 1
         /\ op'[k].touched = op[k].touched \cup {op[k].next}
<1>1. /\ pc[k] = "scan" /\ op[k].next # op[k].head1 /\ key[op[k].next] = op[k].key1
      /\ pc' = [pc EXCEPT ![k] = "wake"]
  BY DEF wake_futex, Matches, GotoK
<1>2. /\ op[k] \in Calls /\ op[k].next \in Waiter
      /\ NextOf(op[k].next, bh1(k)) \in Cursor
  BY <1>1, AtCursor, NextOfType
<1>3. PICK n \in Cursor : n = NextOf(op[k].next, bh1(k))
  BY <1>2
<1>4. PICK r \in Nat : r = op[k].ret + 1
  BY <1>2 DEF Calls
<1>5. PICK s \in SUBSET Waiter : s = op[k].touched \cup {op[k].next}
  BY <1>2 DEF Calls
<1>6. PICK t \in Cursor : t = op[k].next
  BY <1>2 DEF Calls
<1>7. PICK c : c = [op[k] EXCEPT !.this = t, !.next = n, !.ret = r, !.touched = s]
  OBVIOUS
<1>8. op' = [op EXCEPT ![k] = c]
  BY <1>3, <1>4, <1>5, <1>6, <1>7 DEF wake_futex
<1>9. DOMAIN op' = Waker /\ op'[k] = c /\ OthersKeep(k)
  BY <1>1, <1>8 DEF OthersKeep, Asked, Kinds, OtherKinds
<1>10. /\ c \in Calls /\ c.this = t /\ c.next = n /\ c.ret = r /\ c.touched = s
       /\ c.head1 = op[k].head1 /\ c.drop_count = op[k].drop_count
       /\ c.kind = op[k].kind /\ c.key1 = op[k].key1 /\ c.key2 = op[k].key2
       /\ c.nr_wake = op[k].nr_wake /\ c.nr_requeue = op[k].nr_requeue
       /\ c.val = op[k].val /\ c.stored = op[k].stored
  BY <1>2, <1>7 DEF Calls
<1> QED
  BY <1>1, <1>3, <1>4, <1>5, <1>6, <1>9, <1>10 DEF ArgsKept

LEMMA RequeueOp ==
  ASSUME Kinds, Asked, Chained, Walked, NEW k \in Waker, Requeue(k)
  PROVE  /\ OthersKeep(k) /\ DOMAIN op' = Waker /\ op'[k] \in Calls
         /\ ArgsKept(k) /\ pc[k] = "scan" /\ pc'[k] \in {"scan", "unlock"}
         /\ op[k].next # op[k].head1 /\ key[op[k].next] = op[k].key1
         /\ op[k].kind # "wake" /\ op'[k].next = NextOf(op[k].next, bh1(k))
         /\ op'[k].head1 = NewHead(k, op[k].next, op'[k].next)
         /\ op'[k].drop_count = op[k].drop_count + 1
         /\ op'[k].ret = op[k].ret + 1
         /\ op'[k].touched = op[k].touched \cup {op[k].next}
<1>1. /\ pc[k] = "scan" /\ op[k].next # op[k].head1 /\ key[op[k].next] = op[k].key1
      /\ op[k].kind # "wake"
  BY DEF Requeue, Matches, Wakes
<1>2. /\ op[k] \in Calls /\ op[k].next \in Waiter
      /\ NextOf(op[k].next, bh1(k)) \in Cursor
  BY <1>1, AtCursor, NextOfType
<1>3. PICK n \in Cursor : n = NextOf(op[k].next, bh1(k))
  BY <1>2
<1>4. PICK r \in Nat : r = op[k].ret + 1
  BY <1>2 DEF Calls
<1>5. PICK s \in SUBSET Waiter : s = op[k].touched \cup {op[k].next}
  BY <1>2 DEF Calls
<1>6. PICK d \in Nat : d = op[k].drop_count + 1
  BY <1>2 DEF Calls
<1>7. PICK h \in Cursor : h = NewHead(k, op[k].next, n)
  BY <1>2 DEF Calls, NewHead, Cursor
<1>8. PICK c : c = [op[k] EXCEPT !.ret = r, !.drop_count = d, !.touched = s, !.next = n,
                                 !.head1 = h]
  OBVIOUS
<1>9. op' = [op EXCEPT ![k] = c]
  BY <1>3, <1>4, <1>5, <1>6, <1>7, <1>8 DEF Requeue
<1>10. PICK l \in {"scan", "unlock"} : pc' = [pc EXCEPT ![k] = l]
  BY DEF Requeue, GotoK
<1>11. DOMAIN op' = Waker /\ op'[k] = c /\ pc'[k] = l /\ OthersKeep(k)
  BY <1>9, <1>10 DEF OthersKeep, Asked, Kinds, OtherKinds
<1>12. /\ c \in Calls /\ c.next = n /\ c.ret = r /\ c.touched = s
       /\ c.head1 = h /\ c.drop_count = d
       /\ c.kind = op[k].kind /\ c.key1 = op[k].key1 /\ c.key2 = op[k].key2
       /\ c.nr_wake = op[k].nr_wake /\ c.nr_requeue = op[k].nr_requeue
       /\ c.val = op[k].val /\ c.stored = op[k].stored
  BY <1>2, <1>8 DEF Calls
<1> QED
  BY <1>1, <1>3, <1>4, <1>5, <1>6, <1>7, <1>11, <1>12 DEF ArgsKept

LEMMA FinishOp ==
  ASSUME Kinds, Asked, NEW k \in Waker, Finish(k)
  PROVE  OthersKeep(k) /\ DOMAIN op' = Waker /\ op'[k] = Idle /\ pc'[k] = "idle"
BY DEF Finish, OthersKeep, Asked, Kinds, OtherKinds

(* A waiter takes a lock for a single list operation and leaves the wakers   *)
(* alone.                                                                    *)
LEMMA WaiterFrame ==
  ASSUME NEW w \in Waiter, WaiterSteps(w)
  PROVE  UNCHANGED <<hash, word, lock, pc, op, ops>>
<1>1. ASSUME NEW c \in Wait[w], futex_wait(w, c[1], c[2]) PROVE UNCHANGED <<hash, word, lock, pc, op, ops>>
  BY <1>1 DEF futex_wait, waker, bounds, queue_me, futex_q, buckets
<1>2. ASSUME NEW c \in Wait[w], futex_fd(w, c[1]) PROVE UNCHANGED <<hash, word, lock, pc, op, ops>>
  BY <1>2 DEF futex_fd, waker, bounds, queue_me, futex_q, buckets
<1>3. ASSUME TestValue(w) PROVE UNCHANGED <<hash, word, lock, pc, op, ops>>
  BY <1>3 DEF TestValue, waker, bounds, queue_me, futex_q, buckets
<1>4. ASSUME Refault(w) PROVE UNCHANGED <<hash, word, lock, pc, op, ops>>
  BY <1>4 DEF Refault, waker, bounds, queue_me, futex_q, buckets
<1>5. ASSUME Prepare(w) PROVE UNCHANGED <<hash, word, lock, pc, op, ops>>
  BY <1>5 DEF Prepare, waker, bounds, queue_me, futex_q, buckets
<1>6. ASSUME CheckList(w) PROVE UNCHANGED <<hash, word, lock, pc, op, ops>>
  BY <1>6 DEF CheckList, waker, bounds, queue_me, futex_q, buckets
<1>7. ASSUME Woken(w) PROVE UNCHANGED <<hash, word, lock, pc, op, ops>>
  BY <1>7 DEF Woken, waker, bounds, queue_me, futex_q, buckets
<1>8. ASSUME GivesUp(w) PROVE UNCHANGED <<hash, word, lock, pc, op, ops>>
  BY <1>8 DEF GivesUp, waker, bounds, queue_me, futex_q, buckets
<1>9. ASSUME futex_close(w) PROVE UNCHANGED <<hash, word, lock, pc, op, ops>>
  BY <1>9 DEF futex_close, waker, bounds, queue_me, futex_q, buckets
<1>10. ASSUME unqueue_me(w) PROVE UNCHANGED <<hash, word, lock, pc, op, ops>>
  BY <1>10 DEF unqueue_me, waker, bounds, queue_me, futex_q, buckets
<1>11. ASSUME UnqueueLocked(w) PROVE UNCHANGED <<hash, word, lock, pc, op, ops>>
  BY <1>11 DEF UnqueueLocked, waker, bounds, queue_me, futex_q, buckets
<1> QED
  BY <1>1, <1>2, <1>3, <1>4, <1>5, <1>6, <1>7, <1>8, <1>9, <1>10, <1>11 DEF
     WaiterSteps

(* A waker leaves alone where the waiters are. *)
LEMMA WakerFrame ==
  ASSUME NEW k \in Waker, WakerSteps(k)
  PROVE  UNCHANGED <<hash, nqueued, on_wq, wpc, call, lp, ret, calls>>
<1>1. ASSUME NEW r \in Request[k], Begins(k, r) PROVE UNCHANGED <<hash, nqueued, on_wq, wpc, call, lp, ret, calls>>
  BY <1>1 DEF Begins, Acquire, waiter, bounds, buckets
<1>2. ASSUME ReadNqueued(k) PROVE UNCHANGED <<hash, nqueued, on_wq, wpc, call, lp, ret, calls>>
  BY <1>2 DEF ReadNqueued, Acquire, waiter, bounds, buckets
<1>3. ASSUME ReadValue(k) PROVE UNCHANGED <<hash, nqueued, on_wq, wpc, call, lp, ret, calls>>
  BY <1>3 DEF ReadValue, Acquire, waiter, bounds, buckets
<1>4. ASSUME LockFirst(k) PROVE UNCHANGED <<hash, nqueued, on_wq, wpc, call, lp, ret, calls>>
  BY <1>4 DEF LockFirst, Acquire, waiter, bounds, buckets
<1>5. ASSUME LockSecond(k) PROVE UNCHANGED <<hash, nqueued, on_wq, wpc, call, lp, ret, calls>>
  BY <1>5 DEF LockSecond, Acquire, waiter, bounds, buckets
<1>6. ASSUME CheckNqueued(k) PROVE UNCHANGED <<hash, nqueued, on_wq, wpc, call, lp, ret, calls>>
  BY <1>6 DEF CheckNqueued, Acquire, waiter, bounds, buckets
<1>7. ASSUME LoopSkips(k) PROVE UNCHANGED <<hash, nqueued, on_wq, wpc, call, lp, ret, calls>>
  BY <1>7 DEF LoopSkips, Acquire, waiter, bounds, buckets
<1>8. ASSUME wake_futex(k) PROVE UNCHANGED <<hash, nqueued, on_wq, wpc, call, lp, ret, calls>>
  BY <1>8 DEF wake_futex, Acquire, waiter, bounds, buckets
<1>9. ASSUME WakeUpAll(k) PROVE UNCHANGED <<hash, nqueued, on_wq, wpc, call, lp, ret, calls>>
  BY <1>9 DEF WakeUpAll, Acquire, waiter, bounds, buckets
<1>10. ASSUME ClearLockPtr(k) PROVE UNCHANGED <<hash, nqueued, on_wq, wpc, call, lp, ret, calls>>
  BY <1>10 DEF ClearLockPtr, Acquire, waiter, bounds, buckets
<1>11. ASSUME Requeue(k) PROVE UNCHANGED <<hash, nqueued, on_wq, wpc, call, lp, ret, calls>>
  BY <1>11 DEF Requeue, Acquire, waiter, bounds, buckets
<1>12. ASSUME Unlock(k) PROVE UNCHANGED <<hash, nqueued, on_wq, wpc, call, lp, ret, calls>>
  BY <1>12 DEF Unlock, Acquire, waiter, bounds, buckets
<1>13. ASSUME DropKeyRefs(k) PROVE UNCHANGED <<hash, nqueued, on_wq, wpc, call, lp, ret, calls>>
  BY <1>13 DEF DropKeyRefs, Acquire, waiter, bounds, buckets
<1> QED
  BY <1>1, <1>2, <1>3, <1>4, <1>5, <1>6, <1>7, <1>8, <1>9, <1>10, <1>11, <1>12,
     <1>13 DEF WakerSteps

(* ... and the other wakers. *)
LEMMA OthersWaker ==
  ASSUME Kinds, Asked, Chained, Walked, NEW k \in Waker, WakerSteps(k)
  PROVE  OthersKeep(k)
<1>1. ASSUME NEW r \in Request[k], Begins(k, r) PROVE OthersKeep(k)
  BY <1>1, BeginsOp
<1>2. ASSUME ReadNqueued(k) PROVE OthersKeep(k)
  BY <1>2, ReadNqueuedOp
<1>3. ASSUME ReadValue(k) PROVE OthersKeep(k)
  BY <1>3, FinishOp DEF ReadValue, GotoK, OthersKeep, Asked, Kinds, OtherKinds
<1>4. ASSUME LockFirst(k) PROVE OthersKeep(k)
  BY <1>4 DEF LockFirst, Acquire, GotoK, OthersKeep, Asked, Kinds, OtherKinds
<1>5. ASSUME LockSecond(k) PROVE OthersKeep(k)
  BY <1>5 DEF LockSecond, Acquire, GotoK, OthersKeep, Asked, Kinds, OtherKinds
<1>6. ASSUME CheckNqueued(k) PROVE OthersKeep(k)
  BY <1>6, CheckNqueuedOp
<1>7. ASSUME LoopSkips(k) PROVE OthersKeep(k)
  BY <1>7, LoopSkipsOp
<1>8. ASSUME wake_futex(k) PROVE OthersKeep(k)
  BY <1>8, WakeFutexOp
<1>9. ASSUME WakeUpAll(k) PROVE OthersKeep(k)
  BY <1>9 DEF WakeUpAll, Acquire, GotoK, OthersKeep, Asked, Kinds, OtherKinds
<1>10. ASSUME ClearLockPtr(k) PROVE OthersKeep(k)
  BY <1>10 DEF ClearLockPtr, Acquire, GotoK, OthersKeep, Asked, Kinds, OtherKinds
<1>11. ASSUME Requeue(k) PROVE OthersKeep(k)
  BY <1>11, RequeueOp
<1>12. ASSUME Unlock(k) PROVE OthersKeep(k)
  BY <1>12, FinishOp DEF Unlock, GotoK, OthersKeep, Asked, Kinds, OtherKinds
<1>13. ASSUME DropKeyRefs(k) PROVE OthersKeep(k)
  BY <1>13, FinishOp DEF DropKeyRefs
<1> QED
  BY <1>1, <1>2, <1>3, <1>4, <1>5, <1>6, <1>7, <1>8, <1>9, <1>10, <1>11, <1>12,
     <1>13 DEF WakerSteps

LEMMA AskedWaker ==
  ASSUME Kinds, Asked, Chained, Walked, NEW k \in Waker, WakerSteps(k)
  PROVE  Asked'
<1>1. ASSUME NEW r \in Request[k], Begins(k, r) PROVE Asked'
  <2>1. /\ OthersKeep(k) /\ DOMAIN op' = Waker /\ op'[k] \in Calls /\ pc'[k] # "idle"
        /\ op'[k].kind = r.kind /\ op'[k].key1 = r.key1 /\ op'[k].key2 = r.key2
    BY <1>1, BeginsOp
  <2> QED
    BY <2>1, Arguments DEF Asked, OthersKeep
<1>2. ASSUME ReadNqueued(k) PROVE Asked'
  <2>1. /\ OthersKeep(k) /\ DOMAIN op' = Waker /\ op'[k] \in Calls /\ ArgsKept(k)
        /\ pc[k] # "idle" /\ pc'[k] # "idle"
    BY <1>2, ReadNqueuedOp DEF ReadNqueued
  <2> QED
    BY <2>1 DEF Asked, OthersKeep, ArgsKept
<1>3. ASSUME ReadValue(k) PROVE Asked'
  <2>1. CASE Finish(k)
    BY <2>1, FinishOp DEF Asked, OthersKeep
  <2>2. CASE op' = op /\ \E l \in {"start", "lock1"} : GotoK(k, l)
    BY <1>3, <2>2 DEF ReadValue, GotoK, Asked, Kinds, OtherKinds
  <2> QED
    BY <1>3, <2>1, <2>2 DEF ReadValue
<1>4. ASSUME LockFirst(k) PROVE Asked'
  BY <1>4 DEF LockFirst, Acquire, GotoK, Asked, Kinds, OtherKinds
<1>5. ASSUME LockSecond(k) PROVE Asked'
  <2>1. PICK b : Acquire(k, b, "locked")
    BY <1>5 DEF LockSecond
  <2> QED
    BY <1>5, <2>1 DEF LockSecond, Acquire, GotoK, Asked, Kinds, OtherKinds
<1>6. ASSUME CheckNqueued(k) PROVE Asked'
  <2>1. /\ OthersKeep(k) /\ DOMAIN op' = Waker /\ op'[k] \in Calls /\ ArgsKept(k)
        /\ pc[k] # "idle" /\ pc'[k] # "idle"
    BY <1>6, CheckNqueuedOp DEF CheckNqueued
  <2> QED
    BY <2>1 DEF Asked, OthersKeep, ArgsKept
<1>7. ASSUME LoopSkips(k) PROVE Asked'
  <2>1. /\ OthersKeep(k) /\ DOMAIN op' = Waker /\ op'[k] \in Calls /\ ArgsKept(k)
        /\ pc[k] # "idle" /\ pc'[k] # "idle"
    BY <1>7, LoopSkipsOp DEF LoopSkips
  <2> QED
    BY <2>1 DEF Asked, OthersKeep, ArgsKept
<1>8. ASSUME wake_futex(k) PROVE Asked'
  <2>1. /\ OthersKeep(k) /\ DOMAIN op' = Waker /\ op'[k] \in Calls /\ ArgsKept(k)
        /\ pc[k] # "idle" /\ pc' = [pc EXCEPT ![k] = "wake"]
    BY <1>8, WakeFutexOp
  <2>2. pc'[k] = "wake"
    BY <2>1 DEF Kinds, OtherKinds
  <2> QED
    BY <2>1, <2>2 DEF Asked, OthersKeep, ArgsKept
<1>9. ASSUME WakeUpAll(k) PROVE Asked'
  BY <1>9 DEF WakeUpAll, Acquire, GotoK, Asked, Kinds, OtherKinds
<1>10. ASSUME ClearLockPtr(k) PROVE Asked'
  BY <1>10 DEF ClearLockPtr, Acquire, GotoK, Asked, Kinds, OtherKinds
<1>11. ASSUME Requeue(k) PROVE Asked'
  <2>1. /\ OthersKeep(k) /\ DOMAIN op' = Waker /\ op'[k] \in Calls /\ ArgsKept(k)
        /\ pc[k] # "idle" /\ pc'[k] # "idle"
    BY <1>11, RequeueOp DEF Requeue
  <2> QED
    BY <2>1 DEF Asked, OthersKeep, ArgsKept
<1>12. ASSUME Unlock(k) PROVE Asked'
  <2>1. CASE Finish(k)
    BY <2>1, FinishOp DEF Asked, OthersKeep
  <2>2. CASE op' = op /\ GotoK(k, "drop")
    BY <1>12, <2>2 DEF Unlock, GotoK, Asked, Kinds, OtherKinds
  <2> QED
    BY <1>12, <2>1, <2>2 DEF Unlock
<1>13. ASSUME DropKeyRefs(k) PROVE Asked'
  BY <1>13, FinishOp DEF DropKeyRefs, Asked, OthersKeep
<1> QED
  BY <1>1, <1>2, <1>3, <1>4, <1>5, <1>6, <1>7, <1>8, <1>9, <1>10, <1>11, <1>12,
     <1>13 DEF WakerSteps

-----------------------------------------------------------------------------
(* Owning. *)

(* What a waker has follows from its own call and place. *)
Owns(k) ==
  /\ \A b \in Bucket : lock[b] = k =>
       \/ Inside(k) /\ b \in {bh1(k), bh2(k)}
       \/ pc[k] = "lock2" /\ b = Lower(k)
  /\ Inside(k) => lock[bh1(k)] = k /\ lock[bh2(k)] = k
  /\ pc[k] = "lock2" => lock[Lower(k)] = k /\ bh1(k) # bh2(k)

LEMMA OwningEach == Owning <=> \A k \in Waker : Owns(k)
BY DEF Owning, Owns

LEMMA OwningEachPrime == Owning' <=> \A k \in Waker : Owns(k)'
BY DEF Owning, Owns

(* A step that neither takes nor releases a lock. *)
LEMMA OwningSame ==
  ASSUME Owning, NEW k \in Waker, hash' = hash, lock' = lock, OthersKeep(k),
         \/ /\ Inside(k) /\ Inside(k)' /\ op'[k].key1 = op[k].key1
            /\ op'[k].key2 = op[k].key2
         \/ ~Inside(k) /\ ~Inside(k)' /\ pc[k] # "lock2" /\ pc'[k] # "lock2"
  PROVE  Owning'
<1>1. ASSUME NEW j \in Waker, j # k PROVE Owns(j)'
  <2>1. op'[j] = op[j] /\ pc'[j] = pc[j]
    BY <1>1 DEF OthersKeep
  <2> QED
    BY <2>1, OwningEach DEF Owns, Inside, bh1, bh2, Lower
<1>2. Owns(k)'
  BY OwningEach DEF Owns, Inside, bh1, bh2, Lower
<1> QED
  BY <1>1, <1>2, OwningEachPrime

(* Waker k takes the lock b. *)
LEMMA OwningTakes ==
  ASSUME Kinds, Asked, Owning, NEW k \in Waker, NEW b \in Bucket, hash' = hash, op' = op,
         lock[b] = Nobody, lock' = [lock EXCEPT ![b] = k], OthersKeep(k), Owns(k)'
  PROVE  Owning'
<1>1. ASSUME NEW j \in Waker, j # k PROVE Owns(j)'
  <2>1. op'[j] = op[j] /\ pc'[j] = pc[j] /\ Owns(j)
    BY <1>1, OwningEach DEF OthersKeep
  <2>2. \A c \in Bucket : lock'[c] = j <=> lock[c] = j
    BY <1>1, Distinct DEF Kinds, BucketKinds
  <2>3. pc[j] # "idle" => bh1(j) \in Bucket /\ bh2(j) \in Bucket /\ Lower(j) \in Bucket
    BY DEF Asked, Calls, Kinds, OtherKinds, bh1, bh2, Lower
  <2> QED
    BY <2>1, <2>2, <2>3 DEF Owns, Inside, bh1, bh2, Lower
<1> QED
  BY <1>1, OwningEachPrime

LEMMA OwningWaiter ==
  ASSUME Owning, NEW w \in Waiter, WaiterSteps(w)
  PROVE  Owning'
<1>1. UNCHANGED <<hash, word, lock, pc, op, ops>>
  BY WaiterFrame
<1> QED
  BY <1>1 DEF Owning, Inside, bh1, bh2, Lower

LEMMA OwningWaker ==
  ASSUME Kinds, Asked, Owning, Chained, Walked, NEW k \in Waker, WakerSteps(k)
  PROVE  Owning'
<1>1. ASSUME NEW r \in Request[k], Begins(k, r) PROVE Owning'
  <2>1. OthersKeep(k)
    BY <1>1, OthersWaker DEF WakerSteps
  <2>2. ~Inside(k) /\ ~Inside(k)' /\ pc[k] # "lock2" /\ pc'[k] # "lock2"
    BY <1>1, BeginsOp DEF Inside
  <2>3. hash' = hash /\ lock' = lock
    BY <1>1 DEF Begins, buckets
  <2> QED
    BY <2>1, <2>2, <2>3, OwningSame
<1>2. ASSUME ReadNqueued(k) PROVE Owning'
  <2>1. OthersKeep(k)
    BY <1>2, OthersWaker DEF WakerSteps
  <2>2. ~Inside(k) /\ ~Inside(k)' /\ pc[k] # "lock2" /\ pc'[k] # "lock2"
    BY <1>2, ReadNqueuedOp DEF ReadNqueued, Inside
  <2>3. hash' = hash /\ lock' = lock
    BY <1>2 DEF ReadNqueued, buckets
  <2> QED
    BY <2>1, <2>2, <2>3, OwningSame
<1>3. ASSUME ReadValue(k) PROVE Owning'
  <2>1. OthersKeep(k)
    BY <1>3, OthersWaker DEF WakerSteps
  <2>2. ~Inside(k) /\ ~Inside(k)' /\ pc[k] # "lock2" /\ pc'[k] # "lock2"
    BY <1>3, FinishOp DEF ReadValue, GotoK, Inside, Kinds, OtherKinds
  <2>3. hash' = hash /\ lock' = lock
    BY <1>3 DEF ReadValue, buckets
  <2> QED
    BY <2>1, <2>2, <2>3, OwningSame
<1>4. ASSUME LockFirst(k) PROVE Owning'
  <2>1. op[k] \in Calls /\ pc[k] = "lock1" /\ ~Inside(k) /\ Owns(k)
    BY <1>4, OwningEach DEF LockFirst, Asked, Inside
  <2>2. bh1(k) \in Bucket /\ bh2(k) \in Bucket /\ Lower(k) \in Bucket
    BY <2>1 DEF Calls, bh1, bh2, Lower, Kinds, OtherKinds
  <2>3. /\ lock[Lower(k)] = Nobody /\ lock' = [lock EXCEPT ![Lower(k)] = k]
        /\ pc' = [pc EXCEPT ![k] = IF bh1(k) = bh2(k) THEN "locked" ELSE "lock2"]
        /\ hash' = hash /\ op' = op
    BY <1>4 DEF LockFirst, Acquire, GotoK
  <2>4. /\ pc'[k] = IF bh1(k) = bh2(k) THEN "locked" ELSE "lock2"
        /\ \A b \in Bucket : lock'[b] = k <=> b = Lower(k)
    BY <2>1, <2>2, <2>3 DEF Owns, Kinds, OtherKinds, BucketKinds
  <2>5. bh1(k) = bh2(k) => bh1(k) = Lower(k)
    BY DEF Lower
  <2>6. Owns(k)'
    BY <2>2, <2>3, <2>4, <2>5 DEF Owns, Inside, bh1, bh2, Lower
  <2>7. OthersKeep(k)
    BY <1>4, OthersWaker DEF WakerSteps
  <2> QED
    BY <2>2, <2>3, <2>6, <2>7, OwningTakes
<1>5. ASSUME LockSecond(k) PROVE Owning'
  <2>1. op[k] \in Calls /\ pc[k] = "lock2" /\ ~Inside(k) /\ Owns(k)
    BY <1>5, OwningEach DEF LockSecond, Asked, Inside
  <2>2. bh1(k) \in Bucket /\ bh2(k) \in Bucket /\ Lower(k) \in {bh1(k), bh2(k)}
    BY <2>1 DEF Calls, bh1, bh2, Lower, Kinds, OtherKinds
  <2>3. PICK b \in {bh1(k), bh2(k)} : lock[b] # k /\ Acquire(k, b, "locked")
    BY <1>5 DEF LockSecond
  <2>4. /\ lock[b] = Nobody /\ lock' = [lock EXCEPT ![b] = k]
        /\ pc' = [pc EXCEPT ![k] = "locked"] /\ hash' = hash /\ op' = op
    BY <2>3 DEF Acquire, GotoK
  <2>5. /\ pc'[k] = "locked" /\ b \in Bucket
        /\ \A c \in Bucket : lock'[c] = k <=> (c = b \/ lock[c] = k)
    BY <2>2, <2>4 DEF Kinds, OtherKinds, BucketKinds
  <2>6. lock[Lower(k)] = k /\ Lower(k) # b
    BY <2>1, <2>3 DEF Owns
  <2>7. \A c \in Bucket : lock[c] = k => c = Lower(k)
    BY <2>1 DEF Owns
  <2>8. {bh1(k), bh2(k)} = {b, Lower(k)}
    BY <2>2, <2>6
  <2>9. Owns(k)'
    BY <2>2, <2>4, <2>5, <2>6, <2>7, <2>8 DEF Owns, Inside, bh1, bh2
  <2>10. OthersKeep(k)
    BY <1>5, OthersWaker DEF WakerSteps
  <2> QED
    BY <2>4, <2>5, <2>9, <2>10, OwningTakes
<1>6. ASSUME CheckNqueued(k) PROVE Owning'
  <2>1. OthersKeep(k) /\ op'[k].key1 = op[k].key1 /\ op'[k].key2 = op[k].key2
    BY <1>6, CheckNqueuedOp DEF ArgsKept
  <2>2. Inside(k) /\ Inside(k)'
    BY <1>6, CheckNqueuedOp DEF Inside, Kinds, OtherKinds
  <2>3. hash' = hash /\ lock' = lock
    BY <1>6 DEF CheckNqueued, buckets
  <2> QED
    BY <2>1, <2>2, <2>3, OwningSame
<1>7. ASSUME LoopSkips(k) PROVE Owning'
  <2>1. OthersKeep(k) /\ op'[k].key1 = op[k].key1 /\ op'[k].key2 = op[k].key2
    BY <1>7, LoopSkipsOp DEF ArgsKept
  <2>2. Inside(k) /\ Inside(k)'
    BY <1>7, LoopSkipsOp DEF Inside, Kinds, OtherKinds
  <2>3. hash' = hash /\ lock' = lock
    BY <1>7 DEF LoopSkips, buckets
  <2> QED
    BY <2>1, <2>2, <2>3, OwningSame
<1>8. ASSUME wake_futex(k) PROVE Owning'
  <2>1. OthersKeep(k) /\ op'[k].key1 = op[k].key1 /\ op'[k].key2 = op[k].key2
    BY <1>8, WakeFutexOp DEF ArgsKept
  <2>2. Inside(k) /\ Inside(k)'
    BY <1>8, WakeFutexOp DEF Inside, Kinds, OtherKinds
  <2>3. hash' = hash /\ lock' = lock
    BY <1>8 DEF wake_futex, buckets
  <2> QED
    BY <2>1, <2>2, <2>3, OwningSame
<1>9. ASSUME WakeUpAll(k) PROVE Owning'
  <2>1. OthersKeep(k)
    BY <1>9, OthersWaker DEF WakerSteps
  <2>2. Inside(k) /\ Inside(k)'
    BY <1>9 DEF WakeUpAll, GotoK, Inside, Kinds, OtherKinds
  <2>3. hash' = hash /\ lock' = lock /\ op' = op
    BY <1>9 DEF WakeUpAll, buckets
  <2> QED
    BY <2>1, <2>2, <2>3, OwningSame
<1>10. ASSUME ClearLockPtr(k) PROVE Owning'
  <2>1. OthersKeep(k)
    BY <1>10, OthersWaker DEF WakerSteps
  <2>2. Inside(k) /\ Inside(k)'
    BY <1>10 DEF ClearLockPtr, GotoK, Inside, Kinds, OtherKinds
  <2>3. hash' = hash /\ lock' = lock /\ op' = op
    BY <1>10 DEF ClearLockPtr, buckets
  <2> QED
    BY <2>1, <2>2, <2>3, OwningSame
<1>11. ASSUME Requeue(k) PROVE Owning'
  <2>1. OthersKeep(k) /\ op'[k].key1 = op[k].key1 /\ op'[k].key2 = op[k].key2
    BY <1>11, RequeueOp DEF ArgsKept
  <2>2. Inside(k) /\ Inside(k)'
    BY <1>11, RequeueOp DEF Inside, Kinds, OtherKinds
  <2>3. hash' = hash /\ lock' = lock
    BY <1>11 DEF Requeue, buckets
  <2> QED
    BY <2>1, <2>2, <2>3, OwningSame
<1>12. ASSUME Unlock(k) PROVE Owning'
  <2>1. OthersKeep(k)
    BY <1>12, OthersWaker DEF WakerSteps
  <2>2. hash' = hash /\ \A b \in Bucket : lock'[b] = IF lock[b] = k THEN Nobody ELSE lock[b]
    BY <1>12 DEF Unlock
  <2>3. pc'[k] \in {"idle", "drop"}
    BY <1>12, FinishOp DEF Unlock, GotoK, Kinds, OtherKinds
  <2>4. Owns(k)'
    <3>1. \A b \in Bucket : lock'[b] # k
      BY <2>2, Distinct
    <3> QED
      BY <2>3, <3>1 DEF Owns, Inside
  <2>5. ASSUME NEW j \in Waker, j # k PROVE Owns(j)'
    <3>1. op'[j] = op[j] /\ pc'[j] = pc[j] /\ Owns(j)
      BY <2>1, <2>5, OwningEach DEF OthersKeep
    <3>2. \A c \in Bucket : lock'[c] = j <=> lock[c] = j
      BY <2>2, <2>5, Distinct
    <3>3. pc[j] # "idle" => bh1(j) \in Bucket /\ bh2(j) \in Bucket /\ Lower(j) \in Bucket
      BY DEF Asked, Calls, Kinds, OtherKinds, bh1, bh2, Lower
    <3> QED
      BY <2>2, <3>1, <3>2, <3>3 DEF Owns, Inside, bh1, bh2, Lower
  <2> QED
    BY <2>4, <2>5, OwningEachPrime
<1>13. ASSUME DropKeyRefs(k) PROVE Owning'
  <2>1. OthersKeep(k)
    BY <1>13, OthersWaker DEF WakerSteps
  <2>2. ~Inside(k) /\ ~Inside(k)' /\ pc[k] # "lock2" /\ pc'[k] # "lock2"
    BY <1>13, FinishOp DEF DropKeyRefs, Inside
  <2>3. hash' = hash /\ lock' = lock
    BY <1>13 DEF DropKeyRefs, buckets
  <2> QED
    BY <2>1, <2>2, <2>3, OwningSame
<1> QED
  BY <1>1, <1>2, <1>3, <1>4, <1>5, <1>6, <1>7, <1>8, <1>9, <1>10, <1>11, <1>12,
     <1>13 DEF WakerSteps

-----------------------------------------------------------------------------
(* What a step of waiter w does. *)

(* The other waiters are where they were. *)
OnlyWaiter(w) ==
  \A v \in Waiter \ {w} :
    /\ wpc'[v] = wpc[v] /\ call'[v] = call[v] /\ lp'[v] = lp[v] /\ ret'[v] = ret[v]
    /\ task'[v] = task[v] /\ on_wq'[v] = on_wq[v]

(* It queues its futex_q on a. *)
Enters(w, a) ==
  /\ a \in Addr /\ queue_me(w, a)
  /\ ~Holds(w) /\ wpc'[w] \in {"test", "open"} /\ call'[w].uaddr = a
  /\ lp' = lp /\ task' = task

(* It goes on with the futex_q it has, or without one. *)
Stays(w) ==
  /\ UNCHANGED <<chain, nqueued, key, lock_ptr, refs, hit, moved, late>>
  /\ Holds(w) <=> Holds(w)'
  /\ ~Holds(w) => wpc[w] = "refault" /\ wpc'[w] = "idle" /\ ret'[w] = "error"
  /\ call'[w].uaddr = call[w].uaddr /\ call'[w].val = call[w].val
  /\ wpc'[w] = "spin" => lp'[w] = lock_ptr[w] /\ lock_ptr[w] # NULL

(* It was woken and gives up its futex_q. *)
Leaves(w) ==
  /\ wpc[w] = "unqueue" /\ lock_ptr[w] = NULL /\ Dropped(w)
  /\ wpc'[w] = "idle" /\ ret'[w] = (IF w \in FdWaiter THEN "none" ELSE "0")
  /\ UNCHANGED <<chain, nqueued, hit, late, task>>

(* It takes its futex_q off the list. *)
Unlinks(w) ==
  /\ wpc[w] = "spin" /\ lock[lp[w]] = Nobody /\ lp[w] = lock_ptr[w] /\ Dropped(w)
  /\ chain' = [chain EXCEPT ![lp[w]] = Without(w, lp[w])]
  /\ \/ wpc'[w] = "refault" /\ ret' = ret
     \/ wpc'[w] = "idle" /\ ret'[w] = (IF w \in FdWaiter THEN "none" ELSE "error")
  /\ UNCHANGED <<nqueued, hit, late, task>>

LEMMA OnlyWaiterStep ==
  ASSUME Kinds, NEW w \in Waiter, WaiterSteps(w)
  PROVE  OnlyWaiter(w)
<1> USE DEF OnlyWaiter, Kinds, QueueKinds, TaskKinds, LabelKinds
<1>1. ASSUME NEW c \in Wait[w], futex_wait(w, c[1], c[2]) PROVE OnlyWaiter(w)
  BY <1>1 DEF futex_wait, queue_me
<1>2. ASSUME NEW c \in Wait[w], futex_fd(w, c[1]) PROVE OnlyWaiter(w)
  BY <1>2 DEF futex_fd, queue_me
<1>3. ASSUME TestValue(w) PROVE OnlyWaiter(w)
  BY <1>3 DEF TestValue, AfterFault, Goto
<1>4. ASSUME Refault(w) PROVE OnlyWaiter(w)
  BY <1>4 DEF Refault, queue_me, Goto
<1>5. ASSUME Prepare(w) PROVE OnlyWaiter(w)
  BY <1>5 DEF Prepare, Goto
<1>6. ASSUME CheckList(w) PROVE OnlyWaiter(w)
  BY <1>6 DEF CheckList, Awake, Goto
<1>7. ASSUME Woken(w) PROVE OnlyWaiter(w)
  BY <1>7 DEF Woken, Awake, Goto
<1>8. ASSUME GivesUp(w) PROVE OnlyWaiter(w)
  BY <1>8 DEF GivesUp, Awake, Goto
<1>9. ASSUME futex_close(w) PROVE OnlyWaiter(w)
  BY <1>9 DEF futex_close, Goto
<1>10. ASSUME unqueue_me(w) PROVE OnlyWaiter(w)
  BY <1>10 DEF unqueue_me, Return, Dropped, Goto
<1>11. ASSUME UnqueueLocked(w) PROVE OnlyWaiter(w)
  BY <1>11 DEF UnqueueLocked, Return, Dropped, Goto
<1> QED
  BY <1>1, <1>2, <1>3, <1>4, <1>5, <1>6, <1>7, <1>8, <1>9, <1>10, <1>11 DEF WaiterSteps

(* Waiter w goes to label l. *)
LEMMA GotoEffect ==
  ASSUME Kinds, NEW w \in Waiter, NEW l, NEW e, Goto(w, l, e)
  PROVE  /\ wpc'[w] = l /\ call'[w].uaddr = call[w].uaddr /\ call'[w].val = call[w].val
<1>1. PICK c : c = [call[w] EXCEPT !.err = e]
  OBVIOUS
<1>2. call' = [call EXCEPT ![w] = c]
  BY <1>1 DEF Goto
<1>3. c.uaddr = call[w].uaddr /\ c.val = call[w].val
  BY <1>1 DEF Kinds, LabelKinds
<1> QED
  BY <1>2, <1>3 DEF Goto, Kinds, LabelKinds

LEMMA WaiterEffect ==
  ASSUME Kinds, NEW w \in Waiter, WaiterSteps(w)
  PROVE  (\E a \in Addr : Enters(w, a)) \/ Stays(w) \/ Leaves(w) \/ Unlinks(w)
<1> DEFINE Goal == (\E a \in Addr : Enters(w, a)) \/ Stays(w) \/ Leaves(w) \/ Unlinks(w)
<1>0. w \in DOMAIN wpc /\ w \in DOMAIN call /\ w \in DOMAIN ret /\ w \in DOMAIN lp
  BY DEF Kinds, LabelKinds, TaskKinds
<1>1. ASSUME NEW c \in Wait[w], futex_wait(w, c[1], c[2]) PROVE Goal
  <2>1. c[1] \in Addr /\ queue_me(w, c[1]) /\ ~Holds(w) /\ lp' = lp /\ task' = task
    BY <1>1, Arguments DEF futex_wait, Holds
  <2>2. wpc'[w] = "test"
    BY <1>0, <1>1 DEF futex_wait
  <2>3. call'[w] = [uaddr |-> c[1], val |-> c[2], err |-> "none"]
    BY <1>0, <1>1 DEF futex_wait
  <2>4. call'[w].uaddr = c[1]
    BY <2>3
  <2> QED
    BY <2>1, <2>2, <2>4 DEF Enters
<1>2. ASSUME NEW c \in Wait[w], futex_fd(w, c[1]) PROVE Goal
  <2>1. c[1] \in Addr /\ queue_me(w, c[1]) /\ ~Holds(w) /\ lp' = lp /\ task' = task
    BY <1>2, Arguments DEF futex_fd, Holds
  <2>2. wpc'[w] = "open" /\ call' = [call EXCEPT ![w].uaddr = c[1]]
    BY <1>0, <1>2 DEF futex_fd
  <2>3. call'[w].uaddr = c[1]
    BY <2>1, <2>2 DEF Kinds, LabelKinds
  <2> QED
    BY <2>1, <2>2, <2>3 DEF Enters
<1>3. ASSUME TestValue(w) PROVE Goal
  <2>1. \E l \in {"prepare", "unqueue"}, e \in Error : Goto(w, l, e)
    BY <1>3 DEF TestValue, AfterFault, Error
  <2>2. /\ wpc'[w] \in {"prepare", "unqueue"} /\ call'[w].uaddr = call[w].uaddr
        /\ call'[w].val = call[w].val
    BY <2>1, GotoEffect
  <2> QED
    BY <1>3, <2>2 DEF TestValue, Stays, Holds, buckets, futex_q, ghost
<1>4. ASSUME Refault(w) PROVE Goal
  <2>1. CASE queue_me(w, call[w].uaddr) /\ Goto(w, "test", "none") /\ UNCHANGED ret
    <3>1. call[w].uaddr \in Addr /\ wpc'[w] = "test" /\ call'[w].uaddr = call[w].uaddr
      BY <2>1, GotoEffect DEF Kinds, LabelKinds
    <3> QED
      BY <1>4, <2>1, <3>1 DEF Refault, Enters, Holds
  <2>2. CASE /\ wpc' = [wpc EXCEPT ![w] = "idle"] /\ ret' = [ret EXCEPT ![w] = "error"]
             /\ UNCHANGED <<buckets, futex_q, on_wq, refs, ghost, call>>
    BY <1>0, <1>4, <2>2 DEF Refault, Stays, Holds, buckets, futex_q, ghost
  <2> QED
    BY <1>4, <2>1, <2>2 DEF Refault
<1>5. ASSUME Prepare(w) PROVE Goal
  <2>1. /\ wpc'[w] = "check" /\ call'[w].uaddr = call[w].uaddr
        /\ call'[w].val = call[w].val
    BY <1>5, GotoEffect DEF Prepare
  <2> QED
    BY <1>5, <2>1 DEF Prepare, Stays, Holds, buckets, futex_q, ghost
<1>6. ASSUME CheckList(w) PROVE Goal
  <2>1. /\ wpc'[w] \in {"sleep", "open", "unqueue"} /\ call'[w].uaddr = call[w].uaddr
        /\ call'[w].val = call[w].val
    BY <1>6, GotoEffect DEF CheckList, Awake
  <2> QED
    BY <1>6, <2>1 DEF CheckList, Stays, Holds, buckets, futex_q, ghost
<1>7. ASSUME Woken(w) PROVE Goal
  <2>1. /\ wpc'[w] \in {"open", "unqueue"} /\ call'[w].uaddr = call[w].uaddr
        /\ call'[w].val = call[w].val
    BY <1>7, GotoEffect DEF Woken, Awake
  <2> QED
    BY <1>7, <2>1 DEF Woken, Stays, Holds, buckets, futex_q, ghost
<1>8. ASSUME GivesUp(w) PROVE Goal
  <2>1. /\ wpc'[w] \in {"open", "unqueue"} /\ call'[w].uaddr = call[w].uaddr
        /\ call'[w].val = call[w].val
    BY <1>8, GotoEffect DEF GivesUp, Awake
  <2> QED
    BY <1>8, <2>1 DEF GivesUp, Stays, Holds, buckets, futex_q, ghost
<1>9. ASSUME futex_close(w) PROVE Goal
  <2>1. /\ wpc'[w] = "unqueue" /\ call'[w].uaddr = call[w].uaddr
        /\ call'[w].val = call[w].val
    BY <1>9, GotoEffect DEF futex_close
  <2> QED
    BY <1>9, <2>1 DEF futex_close, Stays, Holds, buckets, futex_q, ghost
<1>10. ASSUME unqueue_me(w) PROVE Goal
  <2>1. CASE WasWoken(w)
    <3>1. PICK r : r = (IF w \in FdWaiter THEN "none" ELSE "0") /\ Return(w, r)
      BY <1>10, <2>1 DEF unqueue_me
    <3>2. Dropped(w) /\ wpc'[w] = "idle" /\ ret'[w] = r
      BY <1>0, <3>1, GotoEffect DEF Return
    <3> QED
      BY <1>10, <2>1, <3>1, <3>2 DEF unqueue_me, WasWoken, Leaves, buckets
  <2>2. CASE ~WasWoken(w)
    <3>1. wpc'[w] = "spin" /\ lp'[w] = lock_ptr[w] /\ call' = call
      BY <1>0, <1>10, <2>2 DEF unqueue_me
    <3> QED
      BY <1>10, <2>2, <3>1 DEF unqueue_me, WasWoken, Stays, Holds, buckets, futex_q
  <2> QED
    BY <2>1, <2>2
<1>11. ASSUME UnqueueLocked(w) PROVE Goal
  <2>1. CASE WrongLock(w)
    <3>1. wpc'[w] = "unqueue" /\ call' = call
      BY <1>0, <1>11, <2>1 DEF UnqueueLocked
    <3> QED
      BY <1>11, <2>1, <3>1 DEF UnqueueLocked, Stays, Holds, futex_q
  <2>2. CASE ~WrongLock(w)
    <3>1. /\ chain' = [chain EXCEPT ![lp[w]] = Without(w, lp[w])]
          /\ \/ Dropped(w) /\ Goto(w, "refault", "none") /\ UNCHANGED ret
             \/ Return(w, IF w \in FdWaiter THEN "none" ELSE "error")
      BY <1>11, <2>2 DEF UnqueueLocked
    <3>2. CASE Dropped(w) /\ Goto(w, "refault", "none") /\ UNCHANGED ret
      <4>1. wpc'[w] = "refault"
        BY <3>2, GotoEffect
      <4> QED
        BY <1>11, <2>2, <3>1, <3>2, <4>1 DEF UnqueueLocked, WrongLock, Unlinks
    <3>3. ASSUME NEW r, r = (IF w \in FdWaiter THEN "none" ELSE "error"), Return(w, r)
          PROVE  Unlinks(w)
      <4>1. Dropped(w) /\ wpc'[w] = "idle" /\ ret'[w] = r
        BY <1>0, <3>3, GotoEffect DEF Return
      <4> QED
        BY <1>11, <2>2, <3>1, <3>3, <4>1 DEF UnqueueLocked, WrongLock, Unlinks
    <3> QED
      BY <3>1, <3>2, <3>3
  <2> QED
    BY <2>1, <2>2
<1> QED
  BY <1>1, <1>2, <1>3, <1>4, <1>5, <1>6, <1>7, <1>8, <1>9, <1>10, <1>11 DEF WaiterSteps

-----------------------------------------------------------------------------
(* Chained. *)

(* The chain of b, the futex_q of w and the cursor of waker k. *)
ChainOf(b) ==
  /\ Once(chain[b])
  /\ \A w \in ToSet(chain[b]) : Holds(w) /\ lock_ptr[w] = b /\ hash[key[w]] = b

LinkOf(w) ==
  /\ ~Holds(w) => lock_ptr[w] = NULL
  /\ lock_ptr[w] # NULL => \/ InChain(w, lock_ptr[w])
                           \/ \E k \in Waker : Waking(k) /\ op[k].this = w
  /\ wpc[w] = "spin" => lp[w] \in Bucket

CursorOf(k) ==
  /\ Waking(k) => /\ op[k].this \in Waiter /\ lock_ptr[op[k].this] = bh1(k)
                  /\ ~InChain(op[k].this, bh1(k))
  /\ Walking(k) => op[k].next = ListHead \/ InChain(op[k].next, bh1(k))

LEMMA ChainedEach ==
  Chained <=> /\ \A b \in Bucket : ChainOf(b)
              /\ \A w \in Waiter : LinkOf(w)
              /\ \A k \in Waker : CursorOf(k)
BY DEF Chained, ChainOf, LinkOf, CursorOf

LEMMA ChainedEachPrime ==
  Chained' <=> /\ \A b \in Bucket : ChainOf(b)'
               /\ \A w \in Waiter : LinkOf(w)'
               /\ \A k \in Waker : CursorOf(k)'
BY DEF Chained, ChainOf, LinkOf, CursorOf

(* An entry of a chain is a waiter that has a lock_ptr, to this chain. *)
LEMMA Member ==
  ASSUME Kinds, Chained, NEW b \in Bucket, NEW w, InChain(w, b)
  PROVE  /\ w \in Waiter /\ Holds(w) /\ lock_ptr[w] = b /\ hash[key[w]] = b
         /\ lock_ptr[w] # NULL /\ Linked(w)
         /\ \A c \in Bucket : InChain(w, c) => c = b
<1>1. chain[b] \in Seq(Waiter)
  BY DEF Kinds, BucketKinds
<1>2. ToSet(chain[b]) \in SUBSET Waiter
  BY <1>1, ListSet
<1> QED
  BY <1>2, Distinct DEF Chained, InChain, Linked

(* The buckets of a call. *)
LEMMA Buckets ==
  ASSUME Kinds, Asked, NEW k \in Waker, pc[k] # "idle"
  PROVE  /\ op[k] \in Calls /\ bh1(k) \in Bucket /\ bh2(k) \in Bucket
         /\ Lower(k) \in Bucket
BY DEF Asked, Calls, Kinds, OtherKinds, bh1, bh2, Lower

(* Two wakers with all of their locks work on different buckets. *)
LEMMA Exclusive ==
  ASSUME Owning, NEW j \in Waker, NEW k \in Waker, Inside(j), Inside(k), j # k
  PROVE  bh1(j) # bh1(k) /\ bh1(j) # bh2(k)
BY DEF Owning

(* A bucket whose lock is free is nobody's. *)
LEMMA FreeBucket ==
  ASSUME Owning, NEW k \in Waker, Inside(k), NEW b, lock[b] = Nobody
  PROVE  bh1(k) # b /\ bh2(k) # b
BY Distinct DEF Owning

LEMMA WakingWalks ==
  ASSUME NEW k
  PROVE  (Waking(k) => Walking(k)) /\ (Walking(k) => Inside(k) /\ pc[k] # "idle")
BY DEF Waking, Walking, Inside

(* Nothing that the chains depend on changes. *)
LEMMA ChainedStays ==
  ASSUME Kinds, Chained, NEW w \in Waiter, Stays(w), OnlyWaiter(w),
         UNCHANGED <<hash, word, lock, pc, op, ops>>
  PROVE  Chained'
<1>1. \A v \in Waiter : Holds(v)' <=> Holds(v)
  BY DEF Stays, OnlyWaiter, Holds
<1>2. ASSUME NEW b \in Bucket PROVE ChainOf(b)'
  <2>1. \A v \in ToSet(chain[b]) : v \in Waiter
    BY Member DEF InChain
  <2>2. ChainOf(b)
    BY ChainedEach
  <2> QED
    BY <1>1, <2>1, <2>2 DEF ChainOf, Stays
<1>3. ASSUME NEW v \in Waiter PROVE LinkOf(v)'
  <2>1. LinkOf(v)
    BY ChainedEach
  <2>2. wpc'[v] = "spin" => lp'[v] \in Bucket
    BY <2>1 DEF LinkOf, Stays, OnlyWaiter, Kinds, QueueKinds
  <2> QED
    BY <1>1, <2>1, <2>2 DEF LinkOf, Stays, InChain, Waking
<1>4. ASSUME NEW k \in Waker PROVE CursorOf(k)'
  <2>1. CursorOf(k)
    BY ChainedEach
  <2> QED
    BY <2>1 DEF CursorOf, Stays, InChain, Waking, Walking, bh1
<1> QED
  BY <1>2, <1>3, <1>4, ChainedEachPrime

(* What list_add_tail() does to a chain. *)
LEMMA AppendIn ==
  ASSUME Kinds, Chained, NEW b \in Bucket, NEW w \in Waiter, ~InChain(w, b)
  PROVE  /\ Append(chain[b], w) \in Seq(Waiter)
         /\ ToSet(Append(chain[b], w)) = ToSet(chain[b]) \cup {w}
         /\ Once(Append(chain[b], w))
<1>1. chain[b] \in Seq(Waiter) /\ w \notin ToSet(chain[b]) /\ Once(chain[b])
  BY DEF Kinds, BucketKinds, InChain, Chained
<1> QED
  BY <1>1, AppendSet DEF Once

(* What queue_me() leaves, entry by entry. *)
LEMMA EnterEffect ==
  ASSUME Kinds, Chained, NEW w \in Waiter, NEW a \in Addr, Enters(w, a)
  PROVE  /\ hash[a] \in Bucket /\ lock[hash[a]] = Nobody /\ lock_ptr[w] = NULL
         /\ \A b \in Bucket : ~InChain(w, b)
         /\ chain'[hash[a]] = Append(chain[hash[a]], w)
         /\ \A b \in Bucket \ {hash[a]} : chain'[b] = chain[b]
         /\ key'[w] = a /\ lock_ptr'[w] = hash[a]
         /\ ~hit'[w] /\ ~moved'[w] /\ ~on_wq'[w]
         /\ \A v \in Waiter \ {w} : /\ key'[v] = key[v] /\ lock_ptr'[v] = lock_ptr[v]
                                   /\ hit'[v] = hit[v] /\ moved'[v] = moved[v]
<1>1. hash[a] \in Bucket
  BY DEF Kinds, OtherKinds
<1>2. lock_ptr[w] = NULL /\ \A b \in Bucket : ~InChain(w, b)
  BY Member DEF Enters, Chained
<1>3. /\ chain'[hash[a]] = Append(chain[hash[a]], w)
      /\ \A b \in Bucket \ {hash[a]} : chain'[b] = chain[b]
  BY <1>1 DEF Enters, queue_me, Kinds, BucketKinds
<1>4. /\ key'[w] = a /\ lock_ptr'[w] = hash[a]
      /\ \A v \in Waiter \ {w} : key'[v] = key[v] /\ lock_ptr'[v] = lock_ptr[v]
  BY DEF Enters, queue_me, Kinds, QueueKinds
<1>5. /\ ~hit'[w] /\ ~moved'[w] /\ ~on_wq'[w]
      /\ \A v \in Waiter \ {w} : hit'[v] = hit[v] /\ moved'[v] = moved[v]
  BY DEF Enters, queue_me, Kinds, QueueKinds
<1>6. lock[hash[a]] = Nobody
  BY DEF Enters, queue_me
<1> QED
  BY <1>1, <1>2, <1>3, <1>4, <1>5, <1>6

LEMMA ChainedEnters ==
  ASSUME Kinds, Asked, Owning, Chained, NEW w \in Waiter, NEW a \in Addr, Enters(w, a),
         OnlyWaiter(w), UNCHANGED <<hash, word, lock, pc, op, ops>>
  PROVE  Chained'
<1>1. /\ hash[a] \in Bucket /\ lock[hash[a]] = Nobody /\ lock_ptr[w] = NULL
      /\ \A b \in Bucket : ~InChain(w, b)
      /\ chain'[hash[a]] = Append(chain[hash[a]], w)
      /\ \A b \in Bucket \ {hash[a]} : chain'[b] = chain[b]
      /\ key'[w] = a /\ lock_ptr'[w] = hash[a]
      /\ \A v \in Waiter \ {w} : key'[v] = key[v] /\ lock_ptr'[v] = lock_ptr[v]
  BY EnterEffect
<1>2. PICK e \in Bucket : e = hash[a]
  BY <1>1
<1>3. ToSet(chain'[e]) = ToSet(chain[e]) \cup {w} /\ Once(chain'[e])
  BY <1>1, <1>2, AppendIn, ZenonT(60)
<1>4. Holds(w)' /\ \A v \in Waiter \ {w} : Holds(v)' <=> Holds(v)
  BY DEF Enters, OnlyWaiter, Holds
<1>5. ASSUME NEW b \in Bucket PROVE ChainOf(b)'
  <2>1. ChainOf(b)
    BY ChainedEach
  <2>2. \A v \in ToSet(chain[b]) : v \in Waiter \ {w}
    BY <1>1, Member DEF InChain
  <2>3. CASE b # e
    BY <1>1, <1>2, <1>4, <2>1, <2>2, <2>3 DEF ChainOf
  <2>4. CASE b = e
    <3>1. hash'[key'[w]] = e
      BY <1>1, <1>2
    <3>2. ASSUME NEW v \in ToSet(chain'[e])
          PROVE  Holds(v)' /\ lock_ptr'[v] = e /\ hash'[key'[v]] = e
      BY <1>1, <1>2, <1>3, <1>4, <2>1, <2>2, <2>4, <3>1 DEF ChainOf
    <3> QED
      BY <1>3, <2>4, <3>2 DEF ChainOf
  <2> QED
    BY <2>3, <2>4
<1>6. ASSUME NEW v \in Waiter PROVE LinkOf(v)'
  <2>1. LinkOf(v)
    BY ChainedEach
  <2>2. CASE v = w
    <3>1. wpc'[w] # "spin"
      BY DEF Enters
    <3> QED
      BY <1>1, <1>2, <1>3, <1>4, <2>2, <3>1 DEF LinkOf, InChain
  <2>3. CASE v # w
    <3>1. /\ lock_ptr'[v] = lock_ptr[v] /\ wpc'[v] = wpc[v] /\ lp'[v] = lp[v]
          /\ Holds(v)' <=> Holds(v)
      BY <1>1, <1>4, <2>3 DEF OnlyWaiter
    <3>2. \A b \in Bucket : InChain(v, b) => InChain(v, b)'
      BY <1>1, <1>2, <1>3 DEF InChain
    <3>3. lock_ptr[v] # NULL => lock_ptr[v] \in Bucket
      BY DEF Kinds, QueueKinds
    <3> QED
      BY <2>1, <3>1, <3>2, <3>3 DEF LinkOf, Waking
  <2> QED
    BY <2>2, <2>3
<1>7. ASSUME NEW k \in Waker PROVE CursorOf(k)'
  <2>1. CursorOf(k)
    BY ChainedEach
  <2>2. ASSUME Walking(k) PROVE bh1(k) \in Bucket /\ bh1(k) # e /\ chain'[bh1(k)] = chain[bh1(k)]
    BY <1>1, <1>2, <2>2, WakingWalks, Buckets, FreeBucket
  <2>3. ASSUME Waking(k) PROVE op[k].this # w
    BY <1>1, <2>1, <2>2, <2>3, WakingWalks, Distinct DEF CursorOf
  <2> QED
    BY <1>1, <2>1, <2>2, <2>3, WakingWalks DEF CursorOf, InChain, Waking, Walking, bh1
<1> QED
  BY <1>5, <1>6, <1>7, ChainedEachPrime

(* What giving up a futex_q does to the others. *)
LEMMA DropEffect ==
  ASSUME Kinds, NEW w \in Waiter, Dropped(w)
  PROVE  /\ lock_ptr'[w] = NULL /\ key'[w] = AnyAddr
         /\ \A v \in Waiter \ {w} : /\ key'[v] = key[v] /\ lock_ptr'[v] = lock_ptr[v]
                                   /\ moved'[v] = moved[v]
BY DEF Dropped, Kinds, QueueKinds

LEMMA ChainedLeaves ==
  ASSUME Kinds, Asked, Owning, Chained, NEW w \in Waiter, Leaves(w),
         OnlyWaiter(w), UNCHANGED <<hash, word, lock, pc, op, ops>>
  PROVE  Chained'
<1>1. /\ lock_ptr'[w] = NULL /\ lock_ptr[w] = NULL /\ chain' = chain
      /\ \A v \in Waiter \ {w} : key'[v] = key[v] /\ lock_ptr'[v] = lock_ptr[v]
  BY DropEffect DEF Leaves
<1>2. wpc'[w] # "spin" /\ \A v \in Waiter \ {w} : Holds(v)' <=> Holds(v)
  BY DEF Leaves, OnlyWaiter, Holds
<1>3. ASSUME NEW b \in Bucket PROVE ChainOf(b)'
  <2>1. ChainOf(b)
    BY ChainedEach
  <2>2. \A v \in ToSet(chain[b]) : v \in Waiter \ {w}
    BY <1>1, Member DEF InChain
  <2> QED
    BY <1>1, <1>2, <2>1, <2>2 DEF ChainOf
<1>4. ASSUME NEW v \in Waiter PROVE LinkOf(v)'
  <2>1. LinkOf(v)
    BY ChainedEach
  <2>2. CASE v = w
    BY <1>1, <1>2, <2>2 DEF LinkOf
  <2>3. CASE v # w
    BY <1>1, <1>2, <2>1, <2>3 DEF LinkOf, Waking, InChain, OnlyWaiter
  <2> QED
    BY <2>2, <2>3
<1>5. ASSUME NEW k \in Waker PROVE CursorOf(k)'
  <2>1. CursorOf(k)
    BY ChainedEach
  <2>2. ASSUME Waking(k) PROVE op[k].this # w
    BY <1>1, <2>1, <2>2, WakingWalks, Buckets, Distinct DEF CursorOf
  <2> QED
    BY <1>1, <2>1, <2>2 DEF CursorOf, InChain, Waking, Walking, bh1
<1> QED
  BY <1>3, <1>4, <1>5, ChainedEachPrime

(* The waiter that unlinks itself is in the chain, and it is nobody's. *)
LEMMA UnlinkEffect ==
  ASSUME Kinds, Asked, Owning, Chained, NEW w \in Waiter, Unlinks(w)
  PROVE  /\ lp[w] \in Bucket /\ InChain(w, lp[w]) /\ lock_ptr[w] = lp[w]
         /\ ToSet(chain'[lp[w]]) = ToSet(chain[lp[w]]) \ {w} /\ Once(chain'[lp[w]])
         /\ \A b \in Bucket \ {lp[w]} : chain'[b] = chain[b]
<1>1. lp[w] \in Bucket /\ LinkOf(w) /\ lock_ptr[w] = lp[w] /\ lock_ptr[w] # NULL
  BY ChainedEach, Distinct DEF Unlinks, LinkOf
<1>2. ASSUME NEW k \in Waker, Waking(k), op[k].this = w PROVE FALSE
  <2>1. CursorOf(k) /\ bh1(k) # lp[w]
    BY <1>2, ChainedEach, WakingWalks, FreeBucket DEF Unlinks
  <2> QED
    BY <1>1, <1>2, <2>1 DEF CursorOf
<1>3. InChain(w, lp[w])
  BY <1>1, <1>2 DEF LinkOf
<1>4. ToSet(Without(w, lp[w])) = ToSet(chain[lp[w]]) \ {w} /\ Once(Without(w, lp[w]))
  BY <1>1, WithoutIn
<1>5. /\ chain'[lp[w]] = Without(w, lp[w])
      /\ \A b \in Bucket \ {lp[w]} : chain'[b] = chain[b]
  BY <1>1 DEF Unlinks, Kinds, BucketKinds
<1> QED
  BY <1>1, <1>3, <1>4, <1>5

LEMMA ChainedUnlinks ==
  ASSUME Kinds, Asked, Owning, Chained, NEW w \in Waiter, Unlinks(w),
         OnlyWaiter(w), UNCHANGED <<hash, word, lock, pc, op, ops>>
  PROVE  Chained'
<1>1. PICK e \in Bucket :
         /\ e = lp[w] /\ InChain(w, e) /\ lock_ptr[w] = e /\ lock[e] = Nobody
         /\ ToSet(chain'[e]) = ToSet(chain[e]) \ {w} /\ Once(chain'[e])
         /\ \A b \in Bucket \ {e} : chain'[b] = chain[b]
  BY UnlinkEffect DEF Unlinks
<1>2. /\ lock_ptr'[w] = NULL
      /\ \A v \in Waiter \ {w} : key'[v] = key[v] /\ lock_ptr'[v] = lock_ptr[v]
  BY DropEffect DEF Unlinks
<1>3. wpc'[w] # "spin" /\ \A v \in Waiter \ {w} : Holds(v)' <=> Holds(v)
  BY DEF Unlinks, OnlyWaiter, Holds
<1>4. \A b \in Bucket : \A v \in ToSet(chain'[b]) : v \in ToSet(chain[b]) /\ v # w
  BY <1>1, Member DEF InChain
<1>5. ASSUME NEW b \in Bucket PROVE ChainOf(b)'
  <2>1. ChainOf(b)
    BY ChainedEach
  <2>2. \A v \in ToSet(chain[b]) : v \in Waiter
    BY Member DEF InChain
  <2>3. Once(chain'[b])
    BY <1>1, <2>1 DEF ChainOf
  <2> QED
    BY <1>2, <1>3, <1>4, <2>1, <2>2, <2>3 DEF ChainOf
<1>6. ASSUME NEW v \in Waiter PROVE LinkOf(v)'
  <2>1. LinkOf(v)
    BY ChainedEach
  <2>2. CASE v = w
    BY <1>2, <1>3, <2>2 DEF LinkOf
  <2>3. CASE v # w
    <3>1. /\ lock_ptr'[v] = lock_ptr[v] /\ wpc'[v] = wpc[v] /\ lp'[v] = lp[v]
          /\ Holds(v)' <=> Holds(v)
      BY <1>2, <1>3, <2>3 DEF OnlyWaiter
    <3>2. \A b \in Bucket : InChain(v, b) => InChain(v, b)'
      BY <1>1, <2>3 DEF InChain
    <3>3. lock_ptr[v] # NULL => lock_ptr[v] \in Bucket
      BY DEF Kinds, QueueKinds
    <3> QED
      BY <2>1, <3>1, <3>2, <3>3 DEF LinkOf, Waking
  <2> QED
    BY <2>2, <2>3
<1>7. ASSUME NEW k \in Waker PROVE CursorOf(k)'
  <2>1. CursorOf(k)
    BY ChainedEach
  <2>2. ASSUME Walking(k) PROVE bh1(k) \in Bucket /\ bh1(k) # e /\ chain'[bh1(k)] = chain[bh1(k)]
    BY <1>1, <2>2, WakingWalks, Buckets, FreeBucket
  <2>3. ASSUME Waking(k) PROVE op[k].this # w
    BY <1>1, <2>1, <2>2, <2>3, WakingWalks DEF CursorOf
  <2> QED
    BY <1>2, <2>1, <2>2, <2>3, WakingWalks DEF CursorOf, InChain, Waking, Walking, bh1
<1> QED
  BY <1>5, <1>6, <1>7, ChainedEachPrime

LEMMA ChainedWaiter ==
  ASSUME Kinds, Asked, Owning, Chained, NEW w \in Waiter, WaiterSteps(w)
  PROVE  Chained'
<1>1. OnlyWaiter(w) /\ UNCHANGED <<hash, word, lock, pc, op, ops>>
  BY OnlyWaiterStep, WaiterFrame
<1>2. (\E a \in Addr : Enters(w, a)) \/ Stays(w) \/ Leaves(w) \/ Unlinks(w)
  BY WaiterEffect
<1> QED
  BY <1>1, <1>2, ChainedEnters, ChainedStays, ChainedLeaves, ChainedUnlinks

(* A waker's step that leaves the lists and the futex_qs alone. *)
LEMMA ChainedQuiet ==
  ASSUME Kinds, Chained, NEW k \in Waker, UNCHANGED <<hash, chain, key, lock_ptr, wpc, lp>>,
         OthersKeep(k), CursorOf(k)', Waking(k) => Waking(k)' /\ op'[k].this = op[k].this
  PROVE  Chained'
<1>1. \A v \in Waiter : Holds(v)' <=> Holds(v)
  BY DEF Holds
<1>2. ASSUME NEW b \in Bucket PROVE ChainOf(b)'
  <2>1. \A v \in ToSet(chain[b]) : v \in Waiter
    BY Member DEF InChain
  <2>2. ChainOf(b)
    BY ChainedEach
  <2> QED
    BY <1>1, <2>1, <2>2 DEF ChainOf
<1>3. ASSUME NEW v \in Waiter PROVE LinkOf(v)'
  <2>1. LinkOf(v)
    BY ChainedEach
  <2>2. \A j \in Waker : Waking(j) => Waking(j)' /\ op'[j].this = op[j].this
    BY DEF OthersKeep, Waking
  <2> QED
    BY <1>1, <2>1, <2>2 DEF LinkOf, InChain
<1>4. ASSUME NEW j \in Waker, j # k PROVE CursorOf(j)'
  <2>1. CursorOf(j) /\ op'[j] = op[j] /\ pc'[j] = pc[j]
    BY <1>4, ChainedEach DEF OthersKeep
  <2> QED
    BY <2>1 DEF CursorOf, InChain, Waking, Walking, bh1
<1> QED
  BY <1>2, <1>3, <1>4, ChainedEachPrime

(* What wake_futex() does to the lists. *)
LEMMA WakeEffect ==
  ASSUME Kinds, Asked, Chained, Walked, NEW k \in Waker, wake_futex(k)
  PROVE  /\ op[k].next \in Waiter /\ bh1(k) \in Bucket /\ InChain(op[k].next, bh1(k))
         /\ lock_ptr[op[k].next] = bh1(k)
         /\ chain'[bh1(k)] = Without(op[k].next, bh1(k))
         /\ ToSet(chain'[bh1(k)]) = ToSet(chain[bh1(k)]) \ {op[k].next}
         /\ Once(chain'[bh1(k)])
         /\ \A b \in Bucket \ {bh1(k)} : chain'[b] = chain[b]
         /\ UNCHANGED <<key, lock_ptr>>
         /\ hit'[op[k].next] /\ \A v \in Waiter \ {op[k].next} : hit'[v] = hit[v]
<1>1. pc[k] = "scan" /\ op[k].next # op[k].head1
  BY DEF wake_futex, Matches
<1>2. op[k].next \in Waiter /\ bh1(k) \in Bucket /\ InChain(op[k].next, bh1(k))
  BY <1>1, AtCursor
<1>3. lock_ptr[op[k].next] = bh1(k)
  BY <1>2, Member
<1>4. /\ chain'[bh1(k)] = Without(op[k].next, bh1(k))
      /\ \A b \in Bucket \ {bh1(k)} : chain'[b] = chain[b]
  BY <1>2 DEF wake_futex, Kinds, BucketKinds
<1>5. hit'[op[k].next] /\ \A v \in Waiter \ {op[k].next} : hit'[v] = hit[v]
  BY <1>2 DEF wake_futex, Kinds, QueueKinds
<1>6. UNCHANGED <<key, lock_ptr>>
  BY DEF wake_futex, futex_q
<1> QED
  BY <1>2, <1>3, <1>4, <1>5, <1>6, WithoutIn

(* What moving a waiter does to them. *)
LEMMA RequeueEffect ==
  ASSUME Kinds, Asked, Chained, Walked, NEW k \in Waker, Requeue(k)
  PROVE  /\ op[k].next \in Waiter /\ InChain(op[k].next, bh1(k))
         /\ bh1(k) \in Bucket /\ bh2(k) \in Bucket
         /\ lock_ptr[op[k].next] = bh1(k)
         /\ chain'[bh2(k)] = Append(Without(op[k].next, bh2(k)), op[k].next)
         /\ bh1(k) # bh2(k) => chain'[bh1(k)] = Without(op[k].next, bh1(k))
         /\ \A b \in Bucket : /\ Once(chain'[b])
                              /\ ToSet(chain'[b]) = IF b = bh2(k)
                                   THEN ToSet(chain[b]) \cup {op[k].next}
                                   ELSE ToSet(chain[b]) \ {op[k].next}
         /\ \A b \in Bucket \ {bh1(k), bh2(k)} : chain'[b] = chain[b]
         /\ key'[op[k].next] = op[k].key2 /\ lock_ptr'[op[k].next] = bh2(k)
         /\ \A v \in Waiter \ {op[k].next} : /\ key'[v] = key[v] /\ lock_ptr'[v] = lock_ptr[v]
                                            /\ moved'[v] = moved[v]
<1> DEFINE t == op[k].next
<1>1. pc[k] = "scan" /\ t # op[k].head1
  BY DEF Requeue, Matches
<1>2. /\ t \in Waiter /\ bh1(k) \in Bucket /\ bh2(k) \in Bucket /\ InChain(t, bh1(k))
  BY <1>1, AtCursor
<1>3. lock_ptr[t] = bh1(k) /\ \A b \in Bucket : InChain(t, b) => b = bh1(k)
  BY <1>2, Member
<1>4. \A b \in Bucket :
        chain'[b] = IF b = bh2(k) THEN Append(Without(t, b), t)
                    ELSE IF b = bh1(k) THEN Without(t, b) ELSE chain[b]
  BY DEF Requeue
<1>5. ASSUME NEW b \in Bucket
      PROVE  /\ Once(chain'[b])
             /\ ToSet(chain'[b]) = IF b = bh2(k) THEN ToSet(chain[b]) \cup {t}
                                                 ELSE ToSet(chain[b]) \ {t}
  <2>1. PICK s \in Seq(Waiter) : s = Without(t, b) /\ ToSet(s) = ToSet(chain[b]) \ {t} /\ Once(s)
    BY WithoutIn
  <2>2. /\ ToSet(Append(s, t)) = ToSet(s) \cup {t} /\ Once(Append(s, t))
    BY <1>2, <2>1, AppendSet DEF Once
  <2>3. CASE b = bh2(k)
    <3>1. chain'[b] = Append(s, t)
      BY <1>4, <2>1, <2>3
    <3> QED
      BY <2>1, <2>2, <2>3, <3>1
  <2>4. CASE b # bh2(k) /\ b = bh1(k)
    BY <1>4, <2>1, <2>4
  <2>5. CASE b # bh2(k) /\ b # bh1(k)
    <3>1. t \notin ToSet(chain[b])
      BY <1>3, <2>5 DEF InChain
    <3> QED
      BY <1>4, <2>5, <3>1 DEF Chained
  <2> QED
    BY <2>3, <2>4, <2>5
<1>6. /\ key'[t] = op[k].key2 /\ lock_ptr'[t] = bh2(k)
      /\ \A v \in Waiter \ {t} : key'[v] = key[v] /\ lock_ptr'[v] = lock_ptr[v]
  BY <1>2 DEF Requeue, Kinds, QueueKinds
<1>7. \A v \in Waiter \ {t} : moved'[v] = moved[v]
  BY <1>2 DEF Requeue, Kinds, QueueKinds
<1> QED
  BY <1>2, <1>3, <1>4, <1>5, <1>6, <1>7

LEMMA ChainedWake ==
  ASSUME Kinds, Asked, Owning, Chained, Walked, NEW k \in Waker, wake_futex(k)
  PROVE  Chained'
<1>1. PICK t \in Waiter, e \in Bucket :
         /\ t = op[k].next /\ e = bh1(k) /\ InChain(t, e) /\ lock_ptr[t] = e
         /\ ToSet(chain'[e]) = ToSet(chain[e]) \ {t} /\ Once(chain'[e])
         /\ \A b \in Bucket \ {e} : chain'[b] = chain[b]
         /\ UNCHANGED <<key, lock_ptr>>
  BY WakeEffect
<1>2. UNCHANGED <<hash, wpc, lp>> /\ \A v \in Waiter : Holds(v)' <=> Holds(v)
  BY WakerFrame DEF WakerSteps, Holds
<1>3. /\ OthersKeep(k) /\ op'[k].key1 = op[k].key1 /\ pc[k] = "scan" /\ pc'[k] = "wake"
      /\ op'[k].this = t /\ op'[k].next = NextOf(t, e)
  BY <1>1, WakeFutexOp DEF ArgsKept, Kinds, OtherKinds
<1>4. \A b \in Bucket : ToSet(chain'[b]) = ToSet(chain[b]) \ {t}
  BY <1>1, Member DEF InChain
<1>5. ASSUME NEW b \in Bucket PROVE ChainOf(b)'
  <2>1. ChainOf(b) /\ \A v \in ToSet(chain[b]) : v \in Waiter
    BY ChainedEach, Member DEF InChain
  <2>2. Once(chain'[b])
    BY <1>1, <2>1 DEF ChainOf
  <2> QED
    BY <1>1, <1>2, <1>4, <2>1, <2>2 DEF ChainOf
<1>6. ASSUME NEW v \in Waiter PROVE LinkOf(v)'
  <2>1. LinkOf(v)
    BY ChainedEach
  <2>2. \A j \in Waker : Waking(j) => Waking(j)' /\ op'[j].this = op[j].this
    BY <1>3 DEF OthersKeep, Waking
  <2>3. Waking(k)' /\ op'[k].this = t
    BY <1>3 DEF Waking
  <2>4. lock_ptr[v] # NULL => lock_ptr[v] \in Bucket
    BY DEF Kinds, QueueKinds
  <2>5. v # t => \A b \in Bucket : InChain(v, b) => InChain(v, b)'
    BY <1>4 DEF InChain
  <2>6. CASE v = t
    BY <1>1, <1>2, <2>1, <2>3, <2>6 DEF LinkOf
  <2>7. CASE v # t
    BY <1>1, <1>2, <2>1, <2>2, <2>4, <2>5, <2>7 DEF LinkOf
  <2> QED
    BY <2>6, <2>7
<1>7. ASSUME NEW j \in Waker, j # k PROVE CursorOf(j)'
  <2>1. CursorOf(j) /\ op'[j] = op[j] /\ pc'[j] = pc[j]
    BY <1>3, <1>7, ChainedEach DEF OthersKeep
  <2>2. ASSUME Walking(j) PROVE chain'[bh1(j)] = chain[bh1(j)]
    BY <1>1, <1>3, <1>7, <2>2, WakingWalks, Buckets, Exclusive DEF Inside
  <2> QED
    BY <1>1, <1>2, <2>1, <2>2, WakingWalks DEF CursorOf, InChain, Waking, Walking, bh1
<1>8. CursorOf(k)'
  <2>1. bh1(k)' = e
    BY <1>1, <1>2, <1>3 DEF bh1
  <2>2. NextOf(t, e) = ListHead \/ (InChain(NextOf(t, e), e) /\ NextOf(t, e) # t)
    BY <1>1, NextOfType, NextOfOrder
  <2>3. NextOf(t, e) = ListHead \/ NextOf(t, e) \in ToSet(chain'[e])
    BY <1>4, <2>2 DEF InChain
  <2> QED
    BY <1>1, <1>3, <1>4, <2>1, <2>3 DEF CursorOf, InChain, Waking, Walking
<1> QED
  BY <1>5, <1>6, <1>7, <1>8, ChainedEachPrime

LEMMA ChainedClear ==
  ASSUME Kinds, Asked, Owning, Chained, NEW k \in Waker, ClearLockPtr(k), OthersKeep(k)
  PROVE  Chained'
<1>1. PICK t \in Waiter, e \in Bucket :
         /\ t = op[k].this /\ e = bh1(k) /\ lock_ptr[t] = e /\ ~InChain(t, e)
         /\ Inside(k) /\ pc[k] # "idle"
  BY Buckets DEF Chained, Waking, ClearLockPtr, Inside
<1>2. /\ UNCHANGED <<chain, key, op>> /\ lock_ptr'[t] = NULL
      /\ \A v \in Waiter \ {t} : lock_ptr'[v] = lock_ptr[v]
  BY <1>1 DEF ClearLockPtr, buckets, Kinds, QueueKinds
<1>3. UNCHANGED <<hash, wpc, lp>> /\ \A v \in Waiter : Holds(v)' <=> Holds(v)
  BY WakerFrame DEF WakerSteps, Holds
<1>4. pc'[k] \in {"scan", "unlock"} /\ pc[k] = "clear"
  BY DEF ClearLockPtr, GotoK, Kinds, OtherKinds
<1>5. ASSUME NEW b \in Bucket PROVE ChainOf(b)'
  <2>1. ChainOf(b) /\ \A v \in ToSet(chain[b]) : v \in Waiter \ {t}
    BY <1>1, ChainedEach, Member DEF InChain
  <2> QED
    BY <1>2, <1>3, <2>1 DEF ChainOf
<1>6. ASSUME NEW v \in Waiter PROVE LinkOf(v)'
  <2>1. LinkOf(v)
    BY ChainedEach
  <2>2. CASE v = t
    BY <1>2, <1>3, <2>1, <2>2 DEF LinkOf
  <2>3. CASE v # t
    <3>1. \A j \in Waker : Waking(j) /\ op[j].this = v => Waking(j)' /\ op'[j].this = v
      BY <1>1, <1>2, <2>3 DEF OthersKeep, Waking
    <3> QED
      BY <1>2, <1>3, <2>1, <2>3, <3>1 DEF LinkOf, InChain
  <2> QED
    BY <2>2, <2>3
<1>7. ASSUME NEW j \in Waker, j # k PROVE CursorOf(j)'
  <2>1. CursorOf(j) /\ op'[j] = op[j] /\ pc'[j] = pc[j]
    BY <1>7, ChainedEach DEF OthersKeep
  <2>2. ASSUME Waking(j) PROVE op[j].this # t
    BY <1>1, <1>7, <2>1, <2>2, WakingWalks, Exclusive DEF CursorOf
  <2> QED
    BY <1>2, <1>3, <2>1, <2>2 DEF CursorOf, InChain, Waking, Walking, bh1
<1>8. CursorOf(k)'
  <2>1. CursorOf(k)
    BY ChainedEach
  <2> QED
    BY <1>2, <1>3, <1>4, <2>1 DEF CursorOf, InChain, Waking, Walking, bh1
<1> QED
  BY <1>5, <1>6, <1>7, <1>8, ChainedEachPrime

LEMMA ChainedRequeue ==
  ASSUME Kinds, Asked, Owning, Chained, Walked, NEW k \in Waker, Requeue(k)
  PROVE  Chained'
<1>0. PICK t \in Waiter, e \in Bucket, f \in Bucket : t = op[k].next /\ e = bh1(k) /\ f = bh2(k)
  BY RequeueEffect
<1>1. /\ t = op[k].next /\ e = bh1(k) /\ f = bh2(k) /\ InChain(t, e) /\ lock_ptr[t] = e
      /\ \A b \in Bucket : /\ Once(chain'[b])
                           /\ ToSet(chain'[b]) = IF b = f THEN ToSet(chain[b]) \cup {t}
                                                         ELSE ToSet(chain[b]) \ {t}
      /\ \A b \in Bucket \ {e, f} : chain'[b] = chain[b]
      /\ key'[t] = op[k].key2 /\ lock_ptr'[t] = f
      /\ \A v \in Waiter \ {t} : key'[v] = key[v] /\ lock_ptr'[v] = lock_ptr[v]
  BY <1>0, RequeueEffect
<1>2. UNCHANGED <<hash, wpc, lp>> /\ \A v \in Waiter : Holds(v)' <=> Holds(v)
  BY WakerFrame DEF WakerSteps, Holds
<1>3. /\ OthersKeep(k) /\ op'[k].key1 = op[k].key1 /\ pc[k] = "scan"
      /\ pc'[k] \in {"scan", "unlock"} /\ op'[k].next = NextOf(t, e)
  BY <1>1, RequeueOp DEF ArgsKept
<1>4. Holds(t) /\ hash[op[k].key2] = f
  BY <1>1, Member DEF bh2
<1>5. ASSUME NEW b \in Bucket PROVE ChainOf(b)'
  <2>1. ChainOf(b) /\ \A v \in ToSet(chain[b]) : v \in Waiter
    BY ChainedEach, Member DEF InChain
  <2>2. ASSUME NEW v \in ToSet(chain'[b])
        PROVE  Holds(v)' /\ lock_ptr'[v] = b /\ hash'[key'[v]] = b
    <3>1. CASE v = t
      BY <1>1, <1>2, <1>4, <2>2, <3>1
    <3>2. CASE v # t
      <4>1. v \in ToSet(chain[b])
        BY <1>1, <2>2, <3>2
      <4> QED
        BY <1>1, <1>2, <2>1, <3>2, <4>1 DEF ChainOf
    <3> QED
      BY <3>1, <3>2
  <2> QED
    BY <1>1, <2>2 DEF ChainOf
<1>6. ASSUME NEW v \in Waiter PROVE LinkOf(v)'
  <2>1. LinkOf(v)
    BY ChainedEach
  <2>2. \A j \in Waker : Waking(j) => Waking(j)' /\ op'[j].this = op[j].this
    BY <1>3 DEF OthersKeep, Waking
  <2>3. lock_ptr[v] # NULL => lock_ptr[v] \in Bucket
    BY DEF Kinds, QueueKinds
  <2>4. CASE v = t
    <3>1. InChain(t, f)'
      BY <1>1 DEF InChain
    <3> QED
      BY <1>1, <1>2, <1>4, <2>1, <2>4, <3>1 DEF LinkOf
  <2>5. CASE v # t
    <3>1. \A b \in Bucket : InChain(v, b) => InChain(v, b)'
      BY <1>1, <2>5 DEF InChain
    <3> QED
      BY <1>1, <1>2, <2>1, <2>2, <2>3, <2>5, <3>1 DEF LinkOf
  <2> QED
    BY <2>4, <2>5
<1>7. ASSUME NEW j \in Waker, j # k PROVE CursorOf(j)'
  <2>1. CursorOf(j) /\ op'[j] = op[j] /\ pc'[j] = pc[j]
    BY <1>3, <1>7, ChainedEach DEF OthersKeep
  <2>2. ASSUME Walking(j) PROVE bh1(j) # e /\ chain'[bh1(j)] = chain[bh1(j)]
    BY <1>1, <1>3, <1>7, <2>2, WakingWalks, Buckets, Exclusive DEF Inside
  <2>3. ASSUME Waking(j) PROVE op[j].this # t
    BY <1>1, <2>1, <2>2, <2>3, WakingWalks DEF CursorOf
  <2> QED
    BY <1>1, <1>2, <2>1, <2>2, <2>3, WakingWalks DEF CursorOf, InChain, Waking, Walking, bh1
<1>8. CursorOf(k)'
  <2>1. bh1(k)' = e
    BY <1>1, <1>2, <1>3 DEF bh1
  <2>2. NextOf(t, e) = ListHead \/ (InChain(NextOf(t, e), e) /\ NextOf(t, e) # t)
    BY <1>1, NextOfType, NextOfOrder
  <2>3. NextOf(t, e) = ListHead \/ NextOf(t, e) \in ToSet(chain'[e])
    BY <1>1, <2>2 DEF InChain
  <2> QED
    BY <1>3, <2>1, <2>3 DEF CursorOf, InChain, Waking, Walking
<1> QED
  BY <1>5, <1>6, <1>7, <1>8, ChainedEachPrime

LEMMA ChainedWaker ==
  ASSUME Kinds, Asked, Owning, Chained, Walked, NEW k \in Waker, WakerSteps(k)
  PROVE  Chained'
<1>1. ASSUME NEW r \in Request[k], Begins(k, r) PROVE Chained'
  <2>1. OthersKeep(k) /\ UNCHANGED <<hash, wpc, lp>>
    BY <1>1, OthersWaker, WakerFrame DEF WakerSteps
  <2>2. UNCHANGED <<chain, key, lock_ptr>>
    BY <1>1 DEF Begins, buckets, futex_q
  <2>3. ~Waking(k) /\ ~Waking(k)' /\ ~Walking(k)'
    BY <1>1, BeginsOp DEF Waking, Walking
  <2> QED
    BY <2>1, <2>2, <2>3, ChainedQuiet DEF CursorOf
<1>2. ASSUME ReadNqueued(k) PROVE Chained'
  <2>1. OthersKeep(k) /\ UNCHANGED <<hash, wpc, lp>>
    BY <1>2, OthersWaker, WakerFrame DEF WakerSteps
  <2>2. UNCHANGED <<chain, key, lock_ptr>>
    BY <1>2 DEF ReadNqueued, buckets, futex_q
  <2>3. ~Waking(k) /\ ~Waking(k)' /\ ~Walking(k)'
    BY <1>2, ReadNqueuedOp DEF ReadNqueued, Waking, Walking
  <2> QED
    BY <2>1, <2>2, <2>3, ChainedQuiet DEF CursorOf
<1>3. ASSUME ReadValue(k) PROVE Chained'
  <2>1. OthersKeep(k) /\ UNCHANGED <<hash, wpc, lp>>
    BY <1>3, OthersWaker, WakerFrame DEF WakerSteps
  <2>2. UNCHANGED <<chain, key, lock_ptr>>
    BY <1>3 DEF ReadValue, buckets, futex_q
  <2>3. ~Waking(k) /\ ~Waking(k)' /\ ~Walking(k)'
    BY <1>3, FinishOp DEF ReadValue, GotoK, Waking, Walking, Kinds, OtherKinds
  <2> QED
    BY <2>1, <2>2, <2>3, ChainedQuiet DEF CursorOf
<1>4. ASSUME LockFirst(k) PROVE Chained'
  <2>1. OthersKeep(k) /\ UNCHANGED <<hash, wpc, lp>>
    BY <1>4, OthersWaker, WakerFrame DEF WakerSteps
  <2>2. UNCHANGED <<chain, key, lock_ptr>>
    BY <1>4 DEF LockFirst, Acquire, buckets, futex_q
  <2>3. ~Waking(k) /\ ~Waking(k)' /\ ~Walking(k)'
    BY <1>4 DEF LockFirst, Acquire, GotoK, Waking, Walking, Kinds, OtherKinds
  <2> QED
    BY <2>1, <2>2, <2>3, ChainedQuiet DEF CursorOf
<1>5. ASSUME LockSecond(k) PROVE Chained'
  <2>1. OthersKeep(k) /\ UNCHANGED <<hash, wpc, lp>>
    BY <1>5, OthersWaker, WakerFrame DEF WakerSteps
  <2>2. UNCHANGED <<chain, key, lock_ptr>>
    BY <1>5 DEF LockSecond, Acquire, buckets, futex_q
  <2>3. ~Waking(k) /\ ~Waking(k)' /\ ~Walking(k)'
    BY <1>5 DEF LockSecond, Acquire, GotoK, Waking, Walking, Kinds, OtherKinds
  <2> QED
    BY <2>1, <2>2, <2>3, ChainedQuiet DEF CursorOf
<1>6. ASSUME CheckNqueued(k) PROVE Chained'
  <2>1. OthersKeep(k) /\ UNCHANGED <<hash, wpc, lp>>
    BY <1>6, OthersWaker, WakerFrame DEF WakerSteps
  <2>2. UNCHANGED <<chain, key, lock_ptr>>
    BY <1>6 DEF CheckNqueued, buckets, futex_q
  <2>3. /\ pc[k] = "locked" /\ bh1(k) \in Bucket /\ op'[k].key1 = op[k].key1
        /\ pc'[k] = "unlock" \/ (pc'[k] = "scan" /\ op'[k].next = First(bh1(k)))
    BY <1>6, CheckNqueuedOp DEF ArgsKept
  <2>4. First(bh1(k)) = ListHead \/ InChain(First(bh1(k)), bh1(k))
    BY <2>3, FirstType
  <2>5. CursorOf(k)' /\ ~Waking(k)
    BY <2>1, <2>2, <2>3, <2>4 DEF CursorOf, InChain, Waking, Walking, bh1
  <2> QED
    BY <2>1, <2>2, <2>5, ChainedQuiet
<1>7. ASSUME LoopSkips(k) PROVE Chained'
  <2>1. OthersKeep(k) /\ UNCHANGED <<hash, wpc, lp>>
    BY <1>7, OthersWaker, WakerFrame DEF WakerSteps
  <2>2. UNCHANGED <<chain, key, lock_ptr>>
    BY <1>7 DEF LoopSkips, buckets, futex_q
  <2>3. /\ pc[k] = "scan" /\ pc' = pc /\ op'[k].key1 = op[k].key1
        /\ op[k].next # op[k].head1 /\ op'[k].next = NextOf(op[k].next, bh1(k))
    BY <1>7, LoopSkipsOp DEF ArgsKept
  <2>4. op'[k].next = ListHead \/ InChain(op'[k].next, bh1(k))
    BY <2>3, AtCursor, NextOfType
  <2>5. CursorOf(k)' /\ ~Waking(k)
    BY <2>1, <2>2, <2>3, <2>4 DEF CursorOf, InChain, Waking, Walking, bh1
  <2> QED
    BY <2>1, <2>2, <2>5, ChainedQuiet
<1>8. ASSUME wake_futex(k) PROVE Chained'
  BY <1>8, ChainedWake
<1>9. ASSUME WakeUpAll(k) PROVE Chained'
  <2>1. OthersKeep(k) /\ UNCHANGED <<hash, wpc, lp>>
    BY <1>9, OthersWaker, WakerFrame DEF WakerSteps
  <2>2. UNCHANGED <<chain, key, lock_ptr, op>>
    BY <1>9 DEF WakeUpAll, buckets, futex_q
  <2>3. pc[k] = "wake" /\ pc'[k] = "clear" /\ CursorOf(k)
    BY <1>9, ChainedEach DEF WakeUpAll, GotoK, Kinds, OtherKinds
  <2>4. CursorOf(k)' /\ Waking(k)'
    BY <2>1, <2>2, <2>3 DEF CursorOf, InChain, Waking, Walking, bh1
  <2> QED
    BY <2>1, <2>2, <2>4, ChainedQuiet
<1>10. ASSUME ClearLockPtr(k) PROVE Chained'
  BY <1>10, OthersWaker, ChainedClear DEF WakerSteps
<1>11. ASSUME Requeue(k) PROVE Chained'
  BY <1>11, ChainedRequeue
<1>12. ASSUME Unlock(k) PROVE Chained'
  <2>1. OthersKeep(k) /\ UNCHANGED <<hash, wpc, lp>>
    BY <1>12, OthersWaker, WakerFrame DEF WakerSteps
  <2>2. UNCHANGED <<chain, key, lock_ptr>>
    BY <1>12 DEF Unlock, buckets, futex_q
  <2>3. ~Waking(k) /\ ~Waking(k)' /\ ~Walking(k)'
    BY <1>12, FinishOp DEF Unlock, GotoK, Waking, Walking, Kinds, OtherKinds
  <2> QED
    BY <2>1, <2>2, <2>3, ChainedQuiet DEF CursorOf
<1>13. ASSUME DropKeyRefs(k) PROVE Chained'
  <2>1. OthersKeep(k) /\ UNCHANGED <<hash, wpc, lp>>
    BY <1>13, OthersWaker, WakerFrame DEF WakerSteps
  <2>2. UNCHANGED <<chain, key, lock_ptr>>
    BY <1>13 DEF DropKeyRefs, buckets, futex_q
  <2>3. ~Waking(k) /\ ~Waking(k)' /\ ~Walking(k)'
    BY <1>13, FinishOp DEF DropKeyRefs, Waking, Walking
  <2> QED
    BY <2>1, <2>2, <2>3, ChainedQuiet DEF CursorOf
<1> QED
  BY <1>1, <1>2, <1>3, <1>4, <1>5, <1>6, <1>7, <1>8, <1>9, <1>10, <1>11, <1>12,
     <1>13 DEF WakerSteps

-----------------------------------------------------------------------------
(* Walked. *)

(* What the loop meets is new. *)
LEMMA StopNew ==
  ASSUME NEW c \in Seq(Waiter), Once(c), NEW t \in ToSet(c), NEW d, NEW h, t # h,
         StopAt(c, d, h, t)
  PROVE  /\ t \in Waiter /\ t # ListHead /\ t \notin d
         /\ h = ListHead => d \cap ToSet(c) = {}
         /\ h # ListHead => /\ h \in ToSet(c) /\ Ahead(c, t, h)
                            /\ \A x \in ToSet(c) : x \in d <=> (x = h \/ Ahead(c, h, x))
<1>1. t \in Waiter /\ t # ListHead
  BY ListSet, Distinct
<1>2. h = ListHead => d \cap ToSet(c) = {}
  BY <1>1 DEF StopAt
<1>3. h # ListHead => /\ h \in ToSet(c) /\ Ahead(c, t, h)
                      /\ \A x \in ToSet(c) : x \in d <=> (x = h \/ Ahead(c, h, x))
  BY DEF StopAt
<1>4. t \notin d
  <2>1. CASE h = ListHead
    BY <1>2, <2>1
  <2>2. CASE h # ListHead
    <3>1. ~Ahead(c, h, t)
      BY <1>3, <2>2, AheadOrder
    <3> QED
      BY <1>3, <2>2, <3>1
  <2> QED
    BY <2>1, <2>2
<1> QED
  BY <1>1, <1>2, <1>3, <1>4

(* The loop takes t off the list and goes to n. *)
LEMMA StopRemove ==
  ASSUME NEW c \in Seq(Waiter), Once(c), NEW t \in ToSet(c), NEW d, NEW h, t # h,
         StopAt(c, d, h, t), NEW n, n # t,
         \A y \in ToSet(c) : Ahead(c, t, y) => y = n \/ Ahead(c, n, y)
  PROVE  StopAt(RemoveFirst(c, t), d \cup {t}, h, n)
<1>1. PICK w \in Seq(Waiter) : w = RemoveFirst(c, t) /\ ToSet(w) = ToSet(c) \ {t}
  BY RemoveFirstSet DEF Once
<1>2. \A y, z : Ahead(w, y, z) <=> (Ahead(c, y, z) /\ y # t /\ z # t)
  BY <1>1, RemoveFirstAhead
<1>3. /\ h = ListHead => d \cap ToSet(c) = {}
      /\ h # ListHead => /\ h \in ToSet(c) /\ Ahead(c, t, h)
                         /\ \A x \in ToSet(c) : x \in d <=> (x = h \/ Ahead(c, h, x))
  BY StopNew
<1>4. CASE h = ListHead
  BY <1>1, <1>3, <1>4 DEF StopAt
<1>5. CASE h # ListHead
  <2>1. h \in ToSet(w) /\ (n = h \/ Ahead(w, n, h))
    BY <1>1, <1>2, <1>3, <1>5
  <2>2. \A x \in ToSet(w) : x \in d \cup {t} <=> (x = h \/ Ahead(w, h, x))
    BY <1>1, <1>2, <1>3, <1>5
  <2> QED
    BY <1>1, <1>5, <2>1, <2>2 DEF StopAt
<1> QED
  BY <1>4, <1>5

(* The loop moves t to the tail of the list it walks: the first one moved   *)
(* is where it will stop.                                                   *)
LEMMA StopAppend ==
  ASSUME NEW c \in Seq(Waiter), Once(c), NEW t \in ToSet(c), NEW d, NEW h, t # h,
         StopAt(c, d, h, t), NEW n, n # t, n = ListHead \/ n \in ToSet(c),
         \A y \in ToSet(c) : Ahead(c, t, y) => y = n \/ Ahead(c, n, y),
         NEW g, g = IF h = ListHead /\ n # ListHead THEN t ELSE h
  PROVE  StopAt(Append(RemoveFirst(c, t), t), d \cup {t}, g, n)
<1>1. PICK w \in Seq(Waiter) : w = RemoveFirst(c, t) /\ ToSet(w) = ToSet(c) \ {t}
  BY RemoveFirstSet DEF Once
<1>2. \A y, z : Ahead(w, y, z) <=> (Ahead(c, y, z) /\ y # t /\ z # t)
  BY <1>1, RemoveFirstAhead
<1>3. /\ t \in Waiter /\ t # ListHead
      /\ h = ListHead => d \cap ToSet(c) = {}
      /\ h # ListHead => /\ h \in ToSet(c) /\ Ahead(c, t, h)
                         /\ \A x \in ToSet(c) : x \in d <=> (x = h \/ Ahead(c, h, x))
  BY StopNew
<1>4. PICK v \in Seq(Waiter) : v = Append(w, t) /\ ToSet(v) = ToSet(w) \cup {t}
  BY <1>3, AppendSet, ZenonT(60)
<1>5. \A y, z : Ahead(v, y, z) <=> (Ahead(w, y, z) \/ (y \in ToSet(w) /\ z = t))
  BY <1>3, <1>4, AppendAhead
<1>6. CASE h = ListHead /\ n = ListHead
  BY <1>1, <1>4, <1>6 DEF StopAt
<1>7. CASE h = ListHead /\ n # ListHead
  <2>1. t \in ToSet(v) /\ Ahead(v, n, t)
    BY <1>1, <1>4, <1>5, <1>7
  <2>2. \A x \in ToSet(v) : x \in d \cup {t} <=> (x = t \/ Ahead(v, t, x))
    BY <1>1, <1>2, <1>3, <1>4, <1>5, <1>7
  <2>3. StopAt(v, d \cup {t}, t, n)
    BY <1>3, <2>1, <2>2 DEF StopAt
  <2> QED
    BY <1>1, <1>4, <1>7, <2>3
<1>8. CASE h # ListHead
  <2>1. h \in ToSet(v) /\ (n = h \/ Ahead(v, n, h))
    BY <1>1, <1>2, <1>3, <1>4, <1>5, <1>8
  <2>2. \A x \in ToSet(v) : x \in d \cup {t} <=> (x = h \/ Ahead(v, h, x))
    BY <1>1, <1>2, <1>3, <1>4, <1>5, <1>8
  <2>3. StopAt(v, d \cup {t}, h, n)
    BY <1>8, <2>1, <2>2 DEF StopAt
  <2> QED
    BY <1>1, <1>4, <1>8, <2>3
<1> QED
  BY <1>6, <1>7, <1>8

(* What the invariant says of waker k. *)
WalkOf(k) ==
  /\ pc[k] # "idle" => /\ op[k].ret = Cardinality(op[k].touched)
                       /\ op[k].drop_count <= op[k].ret
  /\ pc[k] \in {"start", "value", "lock1", "lock2", "locked"} =>
       op[k].touched = {} /\ op[k].head1 = ListHead
  /\ Walking(k) => /\ Stopped(k)
                   /\ op[k].kind = "wake" => /\ op[k].head1 = ListHead
                                             /\ op[k].touched \cap ToSet(chain[bh1(k)]) = {}

LEMMA WalkedEach ==
  /\ Walked <=> \A k \in Waker : WalkOf(k)
  /\ Walked' <=> \A k \in Waker : WalkOf(k)'
BY DEF Walked, WalkOf

(* A waiter leaves alone the chain of a waker with its locks, ... *)
LEMMA WaiterApart ==
  ASSUME Kinds, Asked, Owning, Chained, NEW w \in Waiter, WaiterSteps(w),
         NEW k \in Waker, Inside(k)
  PROVE  chain'[bh1(k)] = chain[bh1(k)]
<1>1. bh1(k) \in Bucket
  BY Buckets DEF Inside
<1>2. ASSUME NEW a \in Addr, Enters(w, a) PROVE chain'[bh1(k)] = chain[bh1(k)]
  BY <1>1, <1>2, EnterEffect, FreeBucket
<1>3. ASSUME Unlinks(w) PROVE chain'[bh1(k)] = chain[bh1(k)]
  <2>1. bh1(k) # lp[w]
    BY <1>3, FreeBucket DEF Unlinks
  <2> QED
    BY <1>1, <1>3, <2>1, UnlinkEffect
<1> QED
  BY <1>2, <1>3, WaiterEffect DEF Stays, Leaves

(* ... and so does another waker. *)
LEMMA WakerApart ==
  ASSUME Kinds, Asked, Owning, Chained, Walked, NEW k \in Waker, WakerSteps(k),
         NEW j \in Waker, j # k, Inside(j)
  PROVE  chain'[bh1(j)] = chain[bh1(j)]
<1>1. bh1(j) \in Bucket
  BY Buckets DEF Inside
<1>2. ASSUME wake_futex(k) PROVE chain'[bh1(j)] = chain[bh1(j)]
  <2>1. bh1(j) # bh1(k)
    BY <1>2, Exclusive DEF wake_futex, Matches, Inside
  <2> QED
    BY <1>1, <1>2, <2>1, WakeEffect
<1>3. ASSUME Requeue(k) PROVE chain'[bh1(j)] = chain[bh1(j)]
  <2>1. bh1(j) # bh1(k) /\ bh1(j) # bh2(k)
    BY <1>3, Exclusive DEF Requeue, Matches, Inside
  <2> QED
    BY <1>1, <1>3, <2>1, RequeueEffect
<1>4. CASE ~wake_futex(k) /\ ~Requeue(k)
  <2>1. chain' = chain
    BY <1>4 DEF WakerSteps, Begins, ReadNqueued, ReadValue, LockFirst, LockSecond, Acquire,
                CheckNqueued, LoopSkips, WakeUpAll, ClearLockPtr, Unlock, DropKeyRefs, buckets
  <2> QED
    BY <2>1
<1> QED
  BY <1>2, <1>3, <1>4

(* So the others' walks are where they were. *)
LEMMA WalkOthers ==
  ASSUME Kinds, Asked, Owning, Chained, Walked, NEW k \in Waker, WakerSteps(k), WalkOf(k)'
  PROVE  Walked'
<1>1. hash' = hash /\ OthersKeep(k)
  BY WakerFrame, OthersWaker
<1>2. ASSUME NEW j \in Waker, j # k PROVE WalkOf(j)'
  <2>1. WalkOf(j) /\ op'[j] = op[j] /\ pc'[j] = pc[j]
    BY <1>1, <1>2, WalkedEach DEF OthersKeep
  <2>2. Walking(j) => chain'[bh1(j)] = chain[bh1(j)]
    BY <1>2, WakerApart, WakingWalks
  <2> QED
    BY <1>1, <2>1, <2>2 DEF WalkOf, Walking, Stopped, bh1
<1> QED
  BY <1>2, WalkedEach

LEMMA WalkedWaiter ==
  ASSUME Kinds, Asked, Owning, Chained, Walked, NEW w \in Waiter, WaiterSteps(w)
  PROVE  Walked'
<1>1. UNCHANGED <<hash, op, pc>>
  BY WaiterFrame
<1>2. ASSUME NEW j \in Waker PROVE WalkOf(j)'
  <2>1. WalkOf(j)
    BY WalkedEach
  <2>2. Walking(j) => chain'[bh1(j)] = chain[bh1(j)]
    BY WaiterApart, WakingWalks
  <2> QED
    BY <1>1, <2>1, <2>2 DEF WalkOf, Walking, Stopped, bh1
<1> QED
  BY <1>2, WalkedEach

(* One more handled, and it is a new one. *)
LEMMA CountsOne ==
  ASSUME NEW d \in SUBSET Waiter, NEW t \in Waiter, t \notin d
  PROVE  Cardinality(d \cup {t}) = Cardinality(d) + 1
<1>1. IsFiniteSet(d)
  BY Distinct, FS_Subset
<1> QED
  BY <1>1, FS_AddElement

(* What the loop has at its cursor. *)
LEMMA CursorNew ==
  ASSUME Kinds, Asked, Chained, Walked, NEW k \in Waker, pc[k] = "scan",
         op[k].next # op[k].head1
  PROVE  LET c == chain[bh1(k)]  t == op[k].next  n == NextOf(t, bh1(k)) IN
         /\ c \in Seq(Waiter) /\ Once(c) /\ t \in ToSet(c) /\ t \in Waiter
         /\ op[k] \in Calls /\ bh1(k) \in Bucket
         /\ t \notin op[k].touched /\ n # t /\ (n = ListHead \/ n \in ToSet(c))
         /\ StopAt(c, op[k].touched, op[k].head1, t)
         /\ \A y \in ToSet(c) : Ahead(c, t, y) => y = n \/ Ahead(c, n, y)
<1> DEFINE t == op[k].next
<1>1. op[k] \in Calls /\ bh1(k) \in Bucket /\ t \in Waiter /\ InChain(t, bh1(k))
  BY AtCursor
<1>2. PICK c \in Seq(Waiter) : c = chain[bh1(k)] /\ Once(c) /\ t \in ToSet(c)
  BY <1>1 DEF Kinds, BucketKinds, Chained, InChain
<1>3. PICK n : n = NextOf(t, bh1(k))
  OBVIOUS
<1>4. /\ n = ListHead \/ InChain(n, bh1(k)) 
      /\ n # ListHead => n # t
      /\ \A y \in ToSet(c) : Ahead(c, t, y) => y = n \/ Ahead(c, n, y)
  BY <1>1, <1>2, <1>3, NextOfType, NextOfOrder
<1>5. n # t /\ (n = ListHead \/ n \in ToSet(c))
  BY <1>1, <1>2, <1>4, Distinct DEF InChain
<1>6. StopAt(c, op[k].touched, op[k].head1, t)
  BY <1>2 DEF Walked, Walking, Stopped
<1>7. t \notin op[k].touched
  BY <1>2, <1>6, StopNew
<1> QED
  BY <1>1, <1>2, <1>3, <1>4, <1>5, <1>6, <1>7

LEMMA WalkedSkip ==
  ASSUME Kinds, Asked, Chained, Walked, NEW k \in Waker, LoopSkips(k)
  PROVE  WalkOf(k)'
<1>1. /\ pc' = pc /\ pc[k] = "scan" /\ ArgsKept(k) /\ DoneKept(k) /\ op[k].next # op[k].head1
      /\ op'[k].next = NextOf(op[k].next, bh1(k)) /\ chain' = chain /\ hash' = hash
  BY LoopSkipsOp DEF LoopSkips, buckets
<1>2. PICK c \in Seq(Waiter), t \in Waiter :
        /\ c = chain[bh1(k)] /\ t = op[k].next /\ Once(c) /\ t \in ToSet(c)
        /\ StopAt(c, op[k].touched, op[k].head1, t)
        /\ \A y \in ToSet(c) :
             Ahead(c, t, y) => y = op'[k].next \/ Ahead(c, op'[k].next, y)
  BY <1>1, CursorNew
<1>3. StopAt(c, op[k].touched, op[k].head1, op'[k].next)
  BY <1>1, <1>2, StopNew DEF StopAt
<1>4. bh1(k)' = bh1(k) /\ WalkOf(k)
  BY <1>1, WalkedEach DEF bh1, ArgsKept
<1> QED
  BY <1>1, <1>2, <1>3, <1>4 DEF WalkOf, Walking, Stopped, ArgsKept, DoneKept

LEMMA WalkedWake ==
  ASSUME Kinds, Asked, Chained, Walked, NEW k \in Waker, wake_futex(k)
  PROVE  WalkOf(k)'
<1>1. /\ ArgsKept(k) /\ pc[k] = "scan" /\ pc'[k] = "wake" /\ op[k].next # op[k].head1
      /\ op'[k].next = NextOf(op[k].next, bh1(k))
      /\ op'[k].head1 = op[k].head1 /\ op'[k].drop_count = op[k].drop_count
      /\ op'[k].ret = op[k].ret + 1
      /\ op'[k].touched = op[k].touched \cup {op[k].next}
  BY WakeFutexOp DEF Kinds, OtherKinds
<1>2. PICK c \in Seq(Waiter), t \in Waiter :
        /\ c = chain[bh1(k)] /\ t = op[k].next /\ Once(c) /\ t \in ToSet(c)
        /\ t \notin op[k].touched /\ op'[k].next # t
        /\ StopAt(c, op[k].touched, op[k].head1, t)
        /\ \A y \in ToSet(c) :
             Ahead(c, t, y) => y = op'[k].next \/ Ahead(c, op'[k].next, y)
  BY <1>1, CursorNew
<1>3. op[k] \in Calls /\ WalkOf(k)
  BY <1>1, CursorNew, WalkedEach
<1>4. chain'[bh1(k)] = RemoveFirst(c, t) /\ ToSet(chain'[bh1(k)]) = ToSet(c) \ {t} /\ hash' = hash
  BY <1>2, WakeEffect DEF Without, wake_futex
<1>5. StopAt(RemoveFirst(c, t), op[k].touched \cup {t}, op[k].head1, op'[k].next)
  BY <1>1, <1>2, StopRemove
<1>6. op'[k].ret = Cardinality(op'[k].touched) /\ op'[k].drop_count <= op'[k].ret
  <2>1. Cardinality(op'[k].touched) = Cardinality(op[k].touched) + 1
    BY <1>1, <1>2, <1>3, CountsOne DEF Calls
  <2>2. op[k].ret = Cardinality(op[k].touched) /\ op[k].drop_count <= op[k].ret
    BY <1>1, <1>3 DEF WalkOf
  <2>3. op[k].ret \in Nat /\ op[k].drop_count \in Nat
    BY <1>3 DEF Calls
  <2> QED
    BY <1>1, <2>1, <2>2, <2>3
<1>7. bh1(k)' = bh1(k)
  BY <1>1, <1>4 DEF bh1, ArgsKept
<1>8. Stopped(k)'
  BY <1>1, <1>2, <1>4, <1>5, <1>7 DEF Stopped
<1>9. op'[k].kind = "wake" =>
        op'[k].head1 = ListHead /\ op'[k].touched \cap ToSet(chain'[bh1(k)']) = {}
  BY <1>1, <1>2, <1>3, <1>4, <1>7 DEF WalkOf, Walking, ArgsKept
<1> QED
  BY <1>1, <1>6, <1>8, <1>9 DEF WalkOf, Walking

LEMMA WalkedRequeue ==
  ASSUME Kinds, Asked, Chained, Walked, NEW k \in Waker, Requeue(k)
  PROVE  WalkOf(k)'
<1>1. /\ ArgsKept(k) /\ pc[k] = "scan" /\ op[k].next # op[k].head1
      /\ pc'[k] \in {"scan", "unlock"} /\ op[k].kind # "wake"
      /\ op'[k].next = NextOf(op[k].next, bh1(k))
      /\ op'[k].head1 = NewHead(k, op[k].next, op'[k].next)
      /\ op'[k].drop_count = op[k].drop_count + 1
      /\ op'[k].ret = op[k].ret + 1
      /\ op'[k].touched = op[k].touched \cup {op[k].next}
  BY RequeueOp
<1>2. PICK c \in Seq(Waiter), t \in Waiter :
        /\ c = chain[bh1(k)] /\ t = op[k].next /\ Once(c) /\ t \in ToSet(c)
        /\ t \notin op[k].touched /\ op'[k].next # t
        /\ op'[k].next = ListHead \/ op'[k].next \in ToSet(c)
        /\ StopAt(c, op[k].touched, op[k].head1, t)
        /\ \A y \in ToSet(c) :
             Ahead(c, t, y) => y = op'[k].next \/ Ahead(c, op'[k].next, y)
  BY <1>1, CursorNew
<1>3. op[k] \in Calls /\ WalkOf(k)
  BY <1>1, CursorNew, WalkedEach
<1>4. /\ bh1(k) # bh2(k) => chain'[bh1(k)] = RemoveFirst(c, t)
      /\ bh1(k) = bh2(k) => chain'[bh1(k)] = Append(RemoveFirst(c, t), t)
      /\ hash' = hash
  BY <1>2, RequeueEffect DEF Without, Requeue
<1>5. op'[k].ret = Cardinality(op'[k].touched) /\ op'[k].drop_count <= op'[k].ret
  <2>1. Cardinality(op'[k].touched) = Cardinality(op[k].touched) + 1
    BY <1>1, <1>2, <1>3, CountsOne DEF Calls
  <2>2. op[k].ret = Cardinality(op[k].touched) /\ op[k].drop_count <= op[k].ret
    BY <1>1, <1>3 DEF WalkOf
  <2>3. op[k].ret \in Nat /\ op[k].drop_count \in Nat
    BY <1>3 DEF Calls
  <2> QED
    BY <1>1, <2>1, <2>2, <2>3
<1>6. bh1(k)' = bh1(k) /\ op'[k].kind # "wake"
  BY <1>1, <1>4 DEF bh1, ArgsKept
<1>7. Stopped(k)'
  <2>1. CASE bh1(k) # bh2(k)
    <3>1. op'[k].head1 = op[k].head1
      BY <1>1, <2>1 DEF NewHead
    <3>2. StopAt(RemoveFirst(c, t), op[k].touched \cup {t}, op[k].head1, op'[k].next)
      BY <1>1, <1>2, StopRemove
    <3> QED
      BY <1>1, <1>2, <1>4, <1>6, <2>1, <3>1, <3>2 DEF Stopped
  <2>2. CASE bh1(k) = bh2(k)
    <3>1. op'[k].head1 = IF op[k].head1 = ListHead /\ op'[k].next # ListHead
                         THEN t ELSE op[k].head1
      BY <1>1, <1>2, <2>2 DEF NewHead
    <3>2. StopAt(Append(RemoveFirst(c, t), t), op[k].touched \cup {t}, op'[k].head1,
                 op'[k].next)
      BY <1>1, <1>2, <3>1, StopAppend
    <3> QED
      BY <1>1, <1>2, <1>4, <1>6, <2>2, <3>1, <3>2 DEF Stopped
  <2> QED
    BY <2>1, <2>2
<1> QED
  BY <1>1, <1>5, <1>6, <1>7 DEF WalkOf, Walking

LEMMA WalkedWaker ==
  ASSUME Kinds, Asked, Owning, Chained, Walked, NEW k \in Waker, WakerSteps(k)
  PROVE  Walked'
<1>1. ASSUME NEW r \in Request[k], Begins(k, r) PROVE Walked'
  <2>1. /\ pc'[k] \in {"lock1", "start"} /\ op'[k].ret = 0 /\ op'[k].drop_count = 0
        /\ op'[k].touched = {} /\ op'[k].head1 = ListHead
    BY <1>1, BeginsOp
  <2>2. WalkOf(k)'
    BY <2>1, FS_EmptySet DEF WalkOf, Walking
  <2> QED
    BY <1>1, <2>2, WalkOthers DEF WakerSteps
<1>2. ASSUME ReadNqueued(k) PROVE Walked'
  <2>1. pc[k] = "start" /\ pc'[k] \in {"value", "lock1"} /\ DoneKept(k) /\ WalkOf(k)
    BY <1>2, ReadNqueuedOp, WalkedEach DEF ReadNqueued
  <2>2. WalkOf(k)'
    BY <2>1 DEF WalkOf, Walking, DoneKept
  <2> QED
    BY <1>2, <2>2, WalkOthers DEF WakerSteps
<1>3. ASSUME ReadValue(k) PROVE Walked'
  <2>1. pc'[k] = "idle" \/ (pc'[k] \in {"lock1", "start"} /\ op' = op)
    BY <1>3, FinishOp DEF ReadValue, GotoK, Kinds, OtherKinds
  <2>2. pc[k] = "value" /\ WalkOf(k)
    BY <1>3, WalkedEach DEF ReadValue
  <2>3. WalkOf(k)'
    BY <2>1, <2>2 DEF WalkOf, Walking
  <2> QED
    BY <1>3, <2>3, WalkOthers DEF WakerSteps
<1>4. ASSUME LockFirst(k) PROVE Walked'
  <2>1. pc[k] = "lock1" /\ pc'[k] \in {"lock2", "locked"} /\ op' = op /\ WalkOf(k)
    BY <1>4, WalkedEach DEF LockFirst, Acquire, GotoK, Kinds, OtherKinds
  <2>2. WalkOf(k)'
    BY <2>1 DEF WalkOf, Walking
  <2> QED
    BY <1>4, <2>2, WalkOthers DEF WakerSteps
<1>5. ASSUME LockSecond(k) PROVE Walked'
  <2>1. pc[k] = "lock2" /\ pc'[k] \in {"lock2", "locked"} /\ op' = op /\ WalkOf(k)
    BY <1>5, WalkedEach DEF LockSecond, Acquire, GotoK, Kinds, OtherKinds
  <2>2. WalkOf(k)'
    BY <2>1 DEF WalkOf, Walking
  <2> QED
    BY <1>5, <2>2, WalkOthers DEF WakerSteps
<1>6. ASSUME CheckNqueued(k) PROVE Walked'
  <2>1. pc[k] = "locked" /\ pc'[k] \in {"unlock", "scan"} /\ DoneKept(k) /\ WalkOf(k)
    BY <1>6, CheckNqueuedOp, WalkedEach
  <2>2. op'[k].touched = {} /\ op'[k].head1 = ListHead
    BY <2>1 DEF WalkOf, DoneKept
  <2>3. Stopped(k)'
    BY <2>2 DEF Stopped, StopAt
  <2>4. WalkOf(k)'
    BY <2>1, <2>2, <2>3 DEF WalkOf, Walking, DoneKept
  <2> QED
    BY <1>6, <2>4, WalkOthers DEF WakerSteps
<1>7. ASSUME LoopSkips(k) PROVE Walked'
  BY <1>7, WalkedSkip, WalkOthers DEF WakerSteps
<1>8. ASSUME wake_futex(k) PROVE Walked'
  BY <1>8, WalkedWake, WalkOthers DEF WakerSteps
<1>9. ASSUME WakeUpAll(k) PROVE Walked'
  <2>1. pc[k] = "wake" /\ pc'[k] = "clear" /\ WalkOf(k)
    BY <1>9, WalkedEach DEF WakeUpAll, GotoK, Kinds, OtherKinds
  <2>2. UNCHANGED <<op, hash, chain>>
    BY <1>9 DEF WakeUpAll, buckets
  <2>3. WalkOf(k)'
    BY <2>1, <2>2 DEF WalkOf, Walking, Stopped, bh1
  <2> QED
    BY <1>9, <2>3, WalkOthers DEF WakerSteps
<1>10. ASSUME ClearLockPtr(k) PROVE Walked'
  <2>1. pc[k] = "clear" /\ pc'[k] \in {"unlock", "scan"} /\ WalkOf(k)
    BY <1>10, WalkedEach DEF ClearLockPtr, GotoK, Kinds, OtherKinds
  <2>2. UNCHANGED <<op, hash, chain>>
    BY <1>10 DEF ClearLockPtr, buckets
  <2>3. WalkOf(k)'
    BY <2>1, <2>2 DEF WalkOf, Walking, Stopped, bh1
  <2> QED
    BY <1>10, <2>3, WalkOthers DEF WakerSteps
<1>11. ASSUME Requeue(k) PROVE Walked'
  BY <1>11, WalkedRequeue, WalkOthers DEF WakerSteps
<1>12. ASSUME Unlock(k) PROVE Walked'
  <2>1. pc'[k] = "idle" \/ (pc'[k] = "drop" /\ op' = op)
    BY <1>12, FinishOp DEF Unlock, GotoK, Kinds, OtherKinds
  <2>2. pc[k] # "idle" /\ WalkOf(k)
    BY <1>12, WalkedEach DEF Unlock
  <2>3. WalkOf(k)'
    BY <2>1, <2>2 DEF WalkOf, Walking
  <2> QED
    BY <1>12, <2>3, WalkOthers DEF WakerSteps
<1>13. ASSUME DropKeyRefs(k) PROVE Walked'
  <2>1. WalkOf(k)'
    BY <1>13, FinishOp DEF DropKeyRefs, WalkOf, Walking
  <2> QED
    BY <1>13, <2>1, WalkOthers DEF WakerSteps
<1> QED
  BY <1>1, <1>2, <1>3, <1>4, <1>5, <1>6, <1>7, <1>8, <1>9, <1>10, <1>11, <1>12,
     <1>13 DEF WakerSteps

-----------------------------------------------------------------------------
(* Sleeping and Reported. *)

(* Which waiters are linked after a waiter's step, ... *)
LEMMA LinkedWaiter ==
  ASSUME Kinds, Asked, Owning, Chained, NEW w \in Waiter, WaiterSteps(w)
  PROVE  /\ \A v \in Waiter \ {w} : Linked(v)' <=> Linked(v)
         /\ (\E a \in Addr : Enters(w, a)) => Linked(w)'
         /\ Stays(w) => (Linked(w)' <=> Linked(w))
         /\ Leaves(w) => ~Linked(w)
         /\ Unlinks(w) => Linked(w)
<1>1. ASSUME NEW a \in Addr, Enters(w, a)
      PROVE  Linked(w)' /\ \A v \in Waiter \ {w} : Linked(v)' <=> Linked(v)
  <2>1. PICK e \in Bucket :
          /\ e = hash[a] /\ ~InChain(w, e) /\ chain'[e] = Append(chain[e], w)
          /\ \A b \in Bucket \ {e} : chain'[b] = chain[b]
    BY <1>1, EnterEffect
  <2>2. ToSet(chain'[e]) = ToSet(chain[e]) \cup {w}
    BY <2>1, AppendIn
  <2> QED
    BY <2>1, <2>2 DEF Linked, InChain
<1>2. ASSUME Unlinks(w)
      PROVE  Linked(w) /\ \A v \in Waiter \ {w} : Linked(v)' <=> Linked(v)
  <2>1. PICK e \in Bucket :
          /\ e = lp[w] /\ InChain(w, e) /\ ToSet(chain'[e]) = ToSet(chain[e]) \ {w}
          /\ \A b \in Bucket \ {e} : chain'[b] = chain[b]
    BY <1>2, UnlinkEffect
  <2> QED
    BY <2>1 DEF Linked, InChain
<1>3. ASSUME Stays(w) PROVE \A v \in Waiter : Linked(v)' <=> Linked(v)
  BY <1>3 DEF Stays, Linked, InChain
<1>4. ASSUME Leaves(w) PROVE ~Linked(w) /\ \A v \in Waiter : Linked(v)' <=> Linked(v)
  <2>1. ~Linked(w)
    BY <1>4, Member DEF Leaves, Linked
  <2> QED
    BY <1>4, <2>1 DEF Leaves, Linked, InChain
<1> QED
  BY <1>1, <1>2, <1>3, <1>4, WaiterEffect

(* ... and after a waker's: only wake_futex() takes one off. *)
LEMMA LinkedWaker ==
  ASSUME Kinds, Asked, Owning, Chained, Walked, NEW k \in Waker, WakerSteps(k)
  PROVE  \/ /\ wake_futex(k)
            /\ \E t \in Waiter : /\ t = op[k].next /\ Linked(t) /\ ~Linked(t)' /\ hit'[t]
                                 /\ \A v \in Waiter \ {t} : /\ Linked(v)' <=> Linked(v)
                                                           /\ hit'[v] = hit[v]
         \/ ~wake_futex(k) /\ hit' = hit /\ \A v \in Waiter : Linked(v)' <=> Linked(v)
<1>1. CASE wake_futex(k)
  <2>1. PICK t \in Waiter, e \in Bucket :
          /\ t = op[k].next /\ e = bh1(k) /\ InChain(t, e)
          /\ ToSet(chain'[e]) = ToSet(chain[e]) \ {t}
          /\ \A b \in Bucket \ {e} : chain'[b] = chain[b]
          /\ hit'[t] /\ \A v \in Waiter \ {t} : hit'[v] = hit[v]
    BY <1>1, WakeEffect
  <2>2. \A b \in Bucket : InChain(t, b) => b = e
    BY <2>1, Member
  <2>3. Linked(t) /\ ~Linked(t)' /\ \A v \in Waiter \ {t} : Linked(v)' <=> Linked(v)
    BY <2>1, <2>2 DEF Linked, InChain
  <2> QED
    BY <1>1, <2>1, <2>3
<1>2. CASE Requeue(k)
  <2>0. PICK t \in Waiter, e \in Bucket, f \in Bucket :
          t = op[k].next /\ e = bh1(k) /\ f = bh2(k)
    BY <1>2, RequeueEffect
  <2>1. /\ InChain(t, e)
        /\ \A b \in Bucket : ToSet(chain'[b]) = IF b = f THEN ToSet(chain[b]) \cup {t}
                                                        ELSE ToSet(chain[b]) \ {t}
    BY <1>2, <2>0, RequeueEffect
  <2>2. Linked(t) /\ Linked(t)' /\ \A v \in Waiter \ {t} : Linked(v)' <=> Linked(v)
    BY <2>1 DEF Linked, InChain
  <2>3. hit' = hit /\ ~wake_futex(k)
    BY <1>2 DEF Requeue, wake_futex
  <2> QED
    BY <2>2, <2>3
<1>3. CASE ~wake_futex(k) /\ ~Requeue(k)
  <2>1. chain' = chain
    BY <1>3 DEF WakerSteps, Begins, ReadNqueued, ReadValue, LockFirst, LockSecond, Acquire,
                CheckNqueued, LoopSkips, WakeUpAll, ClearLockPtr, Unlock, DropKeyRefs, buckets
  <2>2. hit' = hit
    BY <1>3 DEF WakerSteps, Begins, ReadNqueued, ReadValue, LockFirst, LockSecond, Acquire,
                CheckNqueued, LoopSkips, WakeUpAll, ClearLockPtr, Unlock, DropKeyRefs, ghost
  <2> QED
    BY <1>3, <2>1, <2>2 DEF Linked, InChain
<1> QED
  BY <1>1, <1>2, <1>3

(* How a waiter comes to sleep: over the wait queue, then the list. *)
LEMMA SleepEffect ==
  ASSUME Kinds, NEW w \in Waiter, WaiterSteps(w)
  PROVE  \/ wpc'[w] \notin {"check", "sleep"}
         \/ wpc'[w] = "check" /\ on_wq'[w]
         \/ /\ wpc'[w] = "sleep" /\ wpc[w] = "check" /\ on_wq' = on_wq
            /\ chain' = chain /\ Linked(w)
<1> DEFINE Goal == \/ wpc'[w] \notin {"check", "sleep"}
                   \/ wpc'[w] = "check" /\ on_wq'[w]
                   \/ /\ wpc'[w] = "sleep" /\ wpc[w] = "check" /\ on_wq' = on_wq
                      /\ chain' = chain /\ Linked(w)
<1>1. ASSUME Prepare(w) PROVE Goal
  <2>1. wpc'[w] = "check" /\ on_wq' = [on_wq EXCEPT ![w] = TRUE]
    BY <1>1, GotoEffect DEF Prepare
  <2>2. on_wq'[w]
    BY <2>1 DEF Kinds, QueueKinds
  <2> QED
    BY <2>1, <2>2
<1>2. ASSUME CheckList(w) PROVE Goal
  <2>1. CASE MaySleep(w)
    <3>1. wpc'[w] = "sleep" /\ on_wq' = on_wq
      BY <1>2, <2>1, GotoEffect DEF CheckList
    <3> QED
      BY <1>2, <2>1, <3>1 DEF CheckList, MaySleep, buckets
  <2>2. CASE ~MaySleep(w)
    <3>1. wpc'[w] \in {"open", "unqueue"}
      BY <1>2, <2>2, GotoEffect DEF CheckList, Awake
    <3> QED
      BY <3>1
  <2> QED
    BY <2>1, <2>2
<1>3. ASSUME Woken(w) \/ GivesUp(w) PROVE Goal
  <2>1. wpc'[w] \in {"open", "unqueue"}
    BY <1>3, GotoEffect DEF Woken, GivesUp, Awake
  <2> QED
    BY <2>1
<1>4. ASSUME TestValue(w) PROVE Goal
  <2>1. wpc'[w] \in {"prepare", "unqueue"}
    BY <1>4, GotoEffect DEF TestValue, AfterFault
  <2> QED
    BY <2>1
<1>5. ASSUME futex_close(w) PROVE Goal
  BY <1>5, GotoEffect DEF futex_close
<1>6. ASSUME Refault(w) PROVE Goal
  <2>1. wpc'[w] \in {"test", "idle"}
    BY <1>6, GotoEffect DEF Refault, Kinds, LabelKinds
  <2> QED
    BY <2>1
<1>7. ASSUME NEW c \in Wait[w], futex_wait(w, c[1], c[2]) \/ futex_fd(w, c[1]) PROVE Goal
  <2>1. wpc'[w] \in {"test", "open"}
    BY <1>7 DEF futex_wait, futex_fd, Kinds, LabelKinds
  <2> QED
    BY <2>1
<1>8. ASSUME unqueue_me(w) \/ UnqueueLocked(w) PROVE Goal
  <2>1. CASE unqueue_me(w)
    <3>1. wpc'[w] \in {"idle", "spin"}
      BY <2>1, GotoEffect DEF unqueue_me, Return, Kinds, LabelKinds
    <3> QED
      BY <3>1
  <2>2. CASE UnqueueLocked(w)
    <3>1. wpc'[w] \in {"idle", "unqueue", "refault"}
      BY <2>2, GotoEffect DEF UnqueueLocked, Return, Kinds, LabelKinds
    <3> QED
      BY <3>1
  <2> QED
    BY <1>8, <2>1, <2>2
<1> QED
  BY <1>1, <1>2, <1>3, <1>4, <1>5, <1>6, <1>7, <1>8 DEF WaiterSteps

(* What Sleeping says of waiter w. *)
SleepOf(w) ==
  /\ wpc[w] \in {"check", "sleep"} => on_wq[w]
  /\ (wpc[w] = "sleep" /\ task[w] = "interruptible" /\ ~Linked(w))
       => \E k \in Waker : pc[k] = "wake" /\ op[k].this = w

LEMMA SleepingEach ==
  /\ Sleeping <=> \A w \in Waiter : SleepOf(w)
  /\ Sleeping' <=> \A w \in Waiter : SleepOf(w)'
BY DEF Sleeping, SleepOf

LEMMA SleepingWaiter ==
  ASSUME Kinds, Asked, Owning, Chained, Sleeping, NEW w \in Waiter, WaiterSteps(w)
  PROVE  Sleeping'
<1>1. OnlyWaiter(w) /\ UNCHANGED <<pc, op>>
  BY OnlyWaiterStep, WaiterFrame
<1>2. ASSUME NEW v \in Waiter, v # w PROVE SleepOf(v)'
  <2>1. SleepOf(v) /\ (Linked(v)' <=> Linked(v))
    BY <1>2, SleepingEach, LinkedWaiter
  <2>2. wpc'[v] = wpc[v] /\ task'[v] = task[v] /\ on_wq'[v] = on_wq[v]
    BY <1>1, <1>2 DEF OnlyWaiter
  <2> QED
    BY <1>1, <2>1, <2>2 DEF SleepOf
<1>3. SleepOf(w)'
  <2>1. CASE wpc'[w] = "sleep" /\ wpc[w] = "check" /\ on_wq' = on_wq /\ chain' = chain /\ Linked(w)
    <3>1. on_wq[w] /\ Linked(w)'
      BY <2>1, SleepingEach DEF SleepOf, Linked, InChain
    <3> QED
      BY <2>1, <3>1 DEF SleepOf
  <2>2. CASE wpc'[w] \notin {"check", "sleep"} \/ (wpc'[w] = "check" /\ on_wq'[w])
    BY <2>2 DEF SleepOf
  <2> QED
    BY <2>1, <2>2, SleepEffect
<1> QED
  BY <1>2, <1>3, SleepingEach

LEMMA SleepingWaker ==
  ASSUME Kinds, Asked, Owning, Chained, Walked, Sleeping, NEW k \in Waker, WakerSteps(k)
  PROVE  Sleeping'
<1>1. UNCHANGED <<wpc, on_wq>> /\ OthersKeep(k)
  BY WakerFrame, OthersWaker
<1>2. SUFFICES ASSUME NEW v \in Waiter PROVE SleepOf(v)'
  BY SleepingEach
<1>3. SleepOf(v)
  BY SleepingEach
<1>4. CASE wake_futex(k)
  <2>1. task' = task /\ pc[k] = "scan" /\ pc'[k] = "wake" /\ op'[k].this = op[k].next
    BY <1>4, WakeFutexOp DEF wake_futex, waiter, Kinds, OtherKinds
  <2>2. \A j \in Waker : pc[j] = "wake" => pc'[j] = "wake" /\ op'[j] = op[j]
    BY <1>1, <2>1 DEF OthersKeep
  <2>3. v = op[k].next \/ (Linked(v)' <=> Linked(v))
    BY <1>4, LinkedWaker
  <2> QED
    BY <1>1, <1>3, <2>1, <2>2, <2>3 DEF SleepOf
<1>5. CASE WakeUpAll(k)
  <2>1. /\ pc[k] = "wake" /\ op' = op
        /\ task' = IF on_wq[op[k].this] THEN [task EXCEPT ![op[k].this] = "running"] ELSE task
    BY <1>5 DEF WakeUpAll
  <2>2. Linked(v)' <=> Linked(v)
    <3>1. ~wake_futex(k)
      BY <2>1 DEF wake_futex, Matches
    <3> QED
      BY <3>1, LinkedWaker
  <2>3. CASE v = op[k].this
    <3>1. on_wq[v] => task'[v] = "running"
      BY <2>1, <2>3 DEF Kinds, TaskKinds
    <3> QED
      BY <1>1, <1>3, <3>1 DEF SleepOf
  <2>4. CASE v # op[k].this
    <3>1. task'[v] = task[v]
      BY <2>1, <2>4 DEF Kinds, TaskKinds
    <3>2. \A j \in Waker : pc[j] = "wake" /\ op[j].this = v => pc'[j] = "wake" /\ op'[j].this = v
      BY <1>1, <2>1, <2>4 DEF OthersKeep
    <3> QED
      BY <1>1, <1>3, <2>2, <3>1, <3>2 DEF SleepOf
  <2> QED
    BY <2>3, <2>4
<1>6. CASE ~wake_futex(k) /\ ~WakeUpAll(k)
  <2>1. task' = task
    BY <1>6 DEF WakerSteps, Begins, ReadNqueued, ReadValue, LockFirst, LockSecond, Acquire,
                CheckNqueued, LoopSkips, ClearLockPtr, Requeue, Unlock, DropKeyRefs, waiter
  <2>2. pc[k] # "wake"
    BY <1>6 DEF WakerSteps, Begins, ReadNqueued, ReadValue, LockFirst, LockSecond,
                CheckNqueued, LoopSkips, ClearLockPtr, Requeue, Matches, Unlock, DropKeyRefs
  <2>3. \A j \in Waker : pc[j] = "wake" => pc'[j] = "wake" /\ op'[j] = op[j]
    BY <1>1, <2>2 DEF OthersKeep
  <2>4. Linked(v)' <=> Linked(v)
    BY <1>6, LinkedWaker
  <2> QED
    BY <1>1, <1>3, <2>1, <2>3, <2>4 DEF SleepOf
<1> QED
  BY <1>4, <1>5, <1>6

(* What Reported says of waiter w. *)
ReportOf(w) ==
  /\ Holds(w) => (hit[w] <=> ~Linked(w))
  /\ wpc[w] = "refault" => ~hit[w]
  /\ (wpc[w] = "idle" /\ ret[w] # "none") => (hit[w] <=> ret[w] = "0")

LEMMA ReportedEach ==
  /\ Reported <=> \A w \in Waiter : ReportOf(w)
  /\ Reported' <=> \A w \in Waiter : ReportOf(w)'
BY DEF Reported, ReportOf

LEMMA ReportedWaiter ==
  ASSUME Kinds, Asked, Owning, Chained, Reported, NEW w \in Waiter, WaiterSteps(w)
  PROVE  Reported'
<1>1. OnlyWaiter(w)
  BY OnlyWaiterStep
<1>2. ASSUME NEW v \in Waiter, v # w PROVE ReportOf(v)'
  <2>1. ReportOf(v) /\ (Linked(v)' <=> Linked(v))
    BY <1>2, ReportedEach, LinkedWaiter
  <2>2. wpc'[v] = wpc[v] /\ ret'[v] = ret[v]
    BY <1>1, <1>2 DEF OnlyWaiter
  <2>3. hit'[v] = hit[v]
    BY <1>2, WaiterEffect, EnterEffect DEF Stays, Leaves, Unlinks
  <2> QED
    BY <2>1, <2>2, <2>3 DEF ReportOf, Holds
<1>3. ReportOf(w)
  BY ReportedEach
<1>4. ASSUME NEW a \in Addr, Enters(w, a) PROVE ReportOf(w)'
  <2>1. ~hit'[w] /\ Linked(w)' /\ wpc'[w] \in {"test", "open"}
    BY <1>4, EnterEffect, LinkedWaiter DEF Enters
  <2> QED
    BY <2>1 DEF ReportOf
<1>5. ASSUME Stays(w) PROVE ReportOf(w)'
  <2>1. hit' = hit /\ (Linked(w)' <=> Linked(w))
    BY <1>5, LinkedWaiter DEF Stays
  <2>2. CASE Holds(w)
    <3>1. Holds(w)' /\ wpc'[w] # "refault" /\ wpc'[w] # "idle"
      BY <1>5, <2>2 DEF Stays, Holds
    <3> QED
      BY <1>3, <2>1, <2>2, <3>1 DEF ReportOf
  <2>3. CASE ~Holds(w)
    <3>1. ~Holds(w)' /\ wpc[w] = "refault" /\ wpc'[w] = "idle" /\ ret'[w] = "error"
      BY <1>5, <2>3 DEF Stays
    <3> QED
      BY <1>3, <2>1, <3>1 DEF ReportOf
  <2> QED
    BY <2>2, <2>3
<1>6. ASSUME Leaves(w) PROVE ReportOf(w)'
  <2>1. hit' = hit /\ Holds(w) /\ ~Linked(w) /\ wpc'[w] = "idle" /\ ret'[w] \in {"none", "0"}
    BY <1>6, LinkedWaiter DEF Leaves, Holds
  <2>2. ~Holds(w)'
    BY <2>1 DEF Holds
  <2> QED
    BY <1>3, <2>1, <2>2 DEF ReportOf
<1>7. ASSUME Unlinks(w) PROVE ReportOf(w)'
  <2>1. hit' = hit /\ Holds(w) /\ Linked(w)
    BY <1>7, LinkedWaiter DEF Unlinks, Holds
  <2>2. wpc'[w] = "refault" \/ (wpc'[w] = "idle" /\ ret'[w] \in {"none", "error"})
    BY <1>7 DEF Unlinks
  <2>3. ~Holds(w)'
    BY <2>2 DEF Holds
  <2> QED
    BY <1>3, <2>1, <2>2, <2>3 DEF ReportOf
<1>8. ReportOf(w)'
  BY <1>4, <1>5, <1>6, <1>7, WaiterEffect
<1> QED
  BY <1>2, <1>8, ReportedEach

LEMMA ReportedWaker ==
  ASSUME Kinds, Asked, Owning, Chained, Walked, Reported, NEW k \in Waker, WakerSteps(k)
  PROVE  Reported'
<1>1. UNCHANGED <<wpc, ret>>
  BY WakerFrame
<1>2. SUFFICES ASSUME NEW v \in Waiter PROVE ReportOf(v)'
  BY ReportedEach
<1>3. ReportOf(v) /\ (Holds(v)' <=> Holds(v))
  BY <1>1, ReportedEach DEF Holds
<1>4. CASE (Linked(v)' <=> Linked(v)) /\ hit'[v] = hit[v]
  BY <1>1, <1>3, <1>4 DEF ReportOf
<1>5. CASE Linked(v) /\ ~Linked(v)' /\ hit'[v]
  <2>1. Holds(v)
    BY <1>5, Member DEF Linked
  <2>2. wpc[v] # "refault" /\ wpc[v] # "idle"
    BY <2>1 DEF Holds
  <2> QED
    BY <1>1, <1>3, <1>5, <2>1, <2>2 DEF ReportOf
<1> QED
  BY <1>4, <1>5, LinkedWaker

-----------------------------------------------------------------------------
(* Counted. *)

(* The sets that are counted are finite. *)
LEMMA FiniteParts ==
  /\ \A S \in SUBSET Waiter :
       IsFiniteSet(S) /\ Cardinality(S) \in Nat /\ Cardinality(S) <= Cardinality(Waiter)
  /\ Cardinality(Waiter) \in Nat
  /\ \A S \in SUBSET (Waker \X (1..Cardinality(Waiter))) :
       IsFiniteSet(S) /\ Cardinality(S) \in Nat
<1>1. Cardinality(Waiter) \in Nat
  BY Distinct, FS_CardinalityType
<1>2. IsFiniteSet(1..Cardinality(Waiter))
  BY <1>1, FS_Interval
<1>3. IsFiniteSet(Waker \X (1..Cardinality(Waiter)))
  BY <1>2, Distinct, FS_Product
<1> QED
  BY <1>1, <1>3, Distinct, FS_Subset, FS_CardinalityType

(* What a waker owes, and when that stays. *)
LEMMA OwedSame ==
  ASSUME NEW k \in Waker, OthersKeep(k),
         \/ /\ pc[k] # "idle" /\ pc'[k] # "idle" /\ op'[k].key1 = op[k].key1
            /\ op'[k].drop_count = op[k].drop_count
         \/ /\ pc[k] = "idle" \/ op[k].drop_count = 0
            /\ pc'[k] = "idle" \/ op'[k].drop_count = 0
  PROVE  \A a \in Addr : Owed(a)' = Owed(a)
<1> SUFFICES ASSUME NEW a \in Addr,
                    NEW p \in Waker \X (1..Cardinality(Waiter))
             PROVE  (/\ pc'[p[1]] # "idle" /\ op'[p[1]].key1 = a
                     /\ p[2] <= op'[p[1]].drop_count)
                    <=> (/\ pc[p[1]] # "idle" /\ op[p[1]].key1 = a
                         /\ p[2] <= op[p[1]].drop_count)
  BY DEF Owed
<1>1. PICK j \in Waker, n \in 1..Cardinality(Waiter) : j = p[1] /\ n = p[2]
  OBVIOUS
<1>2. n \in Nat /\ ~(n <= 0)
  BY FiniteParts
<1>3. CASE j # k
  BY <1>1, <1>3 DEF OthersKeep
<1>4. CASE j = k
  BY <1>1, <1>2, <1>4
<1> QED
  BY <1>3, <1>4

(* A step that neither counts nor changes what is counted. *)
LEMMA CountedSame ==
  ASSUME Counted, refs' = refs, \A a \in Addr : Owed(a)' = Owed(a),
         \A a \in Addr : Holders(a)' = Holders(a)
  PROVE  Counted'
BY DEF Counted

LEMMA CountedWaiter ==
  ASSUME Kinds, Asked, Owning, Chained, Counted, NEW w \in Waiter, WaiterSteps(w)
  PROVE  Counted'
<1>1. OnlyWaiter(w) /\ UNCHANGED <<pc, op>>
  BY OnlyWaiterStep, WaiterFrame
<1>2. \A a \in Addr : Owed(a)' = Owed(a)
  BY <1>1 DEF Owed
<1>3. \A v \in Waiter \ {w} : Holds(v)' <=> Holds(v)
  BY <1>1 DEF OnlyWaiter, Holds
<1>4. ASSUME NEW b \in Addr, Enters(w, b) PROVE Counted'
  <2>1. /\ key'[w] = b /\ \A v \in Waiter \ {w} : key'[v] = key[v]
    BY <1>4, EnterEffect
  <2>2. ~Holds(w) /\ Holds(w)' /\ refs' = [refs EXCEPT ![b] = refs[b] + 1]
    BY <1>4 DEF Enters, Holds, queue_me, get_key_refs
  <2>3. ASSUME NEW a \in Addr
        PROVE  refs'[a] = Cardinality(Holders(a)') + Cardinality(Owed(a)')
    <3>0. PICK H \in SUBSET Waiter, O \in SUBSET (Waker \X (1..Cardinality(Waiter))) :
            H = Holders(a) /\ O = Owed(a)
      BY DEF Holders, Owed
    <3>1. /\ refs[a] = Cardinality(H) + Cardinality(O) /\ Cardinality(H) \in Nat
          /\ Cardinality(O) \in Nat /\ IsFiniteSet(H)
      BY <3>0, FiniteParts DEF Counted
    <3>2. w \notin H
      BY <2>2, <3>0 DEF Holders
    <3>3. CASE a = b
      <4>1. Holders(a)' = H \cup {w}
        BY <1>3, <2>1, <2>2, <3>0, <3>3 DEF Holders
      <4>2. Cardinality(H \cup {w}) = Cardinality(H) + 1
        BY <3>1, <3>2, FS_AddElement
      <4>3. refs'[a] = refs[a] + 1
        BY <2>2, <3>3 DEF Kinds, QueueKinds
      <4> QED
        BY <1>2, <3>0, <3>1, <4>1, <4>2, <4>3
    <3>4. CASE a # b
      <4>1. Holders(a)' = H
        BY <1>3, <2>1, <2>2, <3>0, <3>4 DEF Holders
      <4>2. refs'[a] = refs[a]
        BY <2>2, <3>4 DEF Kinds, QueueKinds
      <4> QED
        BY <1>2, <3>0, <3>1, <4>1, <4>2
    <3> QED
      BY <3>3, <3>4
  <2> QED
    BY <2>3 DEF Counted
<1>5. ASSUME Stays(w) PROVE Counted'
  <2>1. refs' = refs /\ key' = key /\ \A v \in Waiter : Holds(v)' <=> Holds(v)
    BY <1>3, <1>5 DEF Stays
  <2>2. \A a \in Addr : Holders(a)' = Holders(a)
    BY <2>1 DEF Holders
  <2> QED
    BY <1>2, <2>1, <2>2, CountedSame
<1>6. ASSUME Holds(w), ~Holds(w)', Dropped(w) PROVE Counted'
  <2>0. PICK b \in Addr : b = key[w]
    BY DEF Kinds, QueueKinds
  <2>1. refs' = [refs EXCEPT ![b] = refs[b] - 1] /\ \A v \in Waiter \ {w} : key'[v] = key[v]
    BY <1>6, <2>0, DropEffect DEF Dropped
  <2>2. ASSUME NEW a \in Addr
        PROVE  refs'[a] = Cardinality(Holders(a)') + Cardinality(Owed(a)')
    <3>0. PICK H \in SUBSET Waiter, O \in SUBSET (Waker \X (1..Cardinality(Waiter))) :
            H = Holders(a) /\ O = Owed(a)
      BY DEF Holders, Owed
    <3>1. /\ refs[a] = Cardinality(H) + Cardinality(O) /\ Cardinality(H) \in Nat
          /\ Cardinality(O) \in Nat /\ IsFiniteSet(H)
      BY <3>0, FiniteParts DEF Counted
    <3>2. Holders(a)' = H \ {w}
      BY <1>3, <1>6, <2>1, <3>0 DEF Holders
    <3>3. CASE a = b
      <4>1. w \in H
        BY <1>6, <2>0, <3>0, <3>3 DEF Holders
      <4>2. Cardinality(H \ {w}) = Cardinality(H) - 1
        BY <3>1, <4>1, FS_RemoveElement
      <4>3. refs'[a] = refs[a] - 1
        BY <2>1, <3>3 DEF Kinds, QueueKinds
      <4> QED
        BY <1>2, <3>0, <3>1, <3>2, <4>2, <4>3
    <3>4. CASE a # b
      <4>1. H \ {w} = H
        BY <2>0, <3>0, <3>4 DEF Holders
      <4>2. refs'[a] = refs[a]
        BY <2>1, <3>4 DEF Kinds, QueueKinds
      <4> QED
        BY <1>2, <3>0, <3>1, <3>2, <4>1, <4>2
    <3> QED
      BY <3>3, <3>4
  <2> QED
    BY <2>2 DEF Counted
<1>7. ASSUME Leaves(w) \/ Unlinks(w) PROVE Counted'
  <2>1. Holds(w) /\ ~Holds(w)' /\ Dropped(w)
    BY <1>7 DEF Leaves, Unlinks, Holds
  <2> QED
    BY <1>6, <2>1
<1> QED
  BY <1>4, <1>5, <1>7, WaiterEffect

(* Moving t: a reference more to its new key, and one owed to the old one. *)
LEMMA CountedRequeue ==
  ASSUME Kinds, Asked, Chained, Walked, Counted, NEW k \in Waker, Requeue(k)
  PROVE  Counted'
<1>1. PICK t \in Waiter : /\ t = op[k].next /\ key'[t] = op[k].key2
                          /\ \A v \in Waiter \ {t} : key'[v] = key[v]
  BY RequeueEffect
<1>2. /\ OthersKeep(k) /\ pc[k] # "idle" /\ pc'[k] # "idle" /\ key[t] = op[k].key1
      /\ op'[k].key1 = op[k].key1 /\ op'[k].drop_count = op[k].drop_count + 1
      /\ op'[k].ret = op[k].ret + 1 /\ op[k] \in Calls /\ op'[k] \in Calls
  BY <1>1, RequeueOp DEF ArgsKept, Asked
<1>3. PICK b \in Addr, c \in Addr, d \in Nat :
        b = op[k].key1 /\ c = op[k].key2 /\ d = op[k].drop_count
  BY <1>2 DEF Calls
<1>4. refs' = [refs EXCEPT ![c] = refs[c] + 1]
  BY <1>3 DEF Requeue, get_key_refs
<1>5. d + 1 \in 1..Cardinality(Waiter)
  <2>1. WalkOf(k)'
    BY WalkedRequeue
  <2>2. op'[k].ret = Cardinality(op'[k].touched) /\ op'[k].drop_count <= op'[k].ret
    BY <1>2, <2>1 DEF WalkOf
  <2>3. /\ Cardinality(op'[k].touched) <= Cardinality(Waiter) /\ Cardinality(Waiter) \in Nat
        /\ Cardinality(op'[k].touched) \in Nat
    BY <1>2, FiniteParts DEF Calls
  <2> QED
    BY <1>2, <1>3, <2>2, <2>3
<1>6. \A v \in Waiter : Holds(v)' <=> Holds(v)
  BY WakerFrame DEF WakerSteps, Holds
<1>7. Holds(t)
  BY <1>1, RequeueEffect, Member
<1>8. ASSUME NEW a \in Addr
      PROVE  refs'[a] = Cardinality(Holders(a)') + Cardinality(Owed(a)')
  <2>0. PICK H \in SUBSET Waiter, O \in SUBSET (Waker \X (1..Cardinality(Waiter))) :
          H = Holders(a) /\ O = Owed(a)
    BY DEF Holders, Owed
  <2>1. /\ refs[a] = Cardinality(H) + Cardinality(O) /\ Cardinality(H) \in Nat
        /\ Cardinality(O) \in Nat /\ IsFiniteSet(H) /\ IsFiniteSet(O)
    BY <2>0, FiniteParts DEF Counted
  <2>2. t \in H <=> a = b
    BY <1>2, <1>3, <1>7, <2>0 DEF Holders
  <2>3. Holders(a)' = IF a = c THEN H \cup {t} ELSE H \ {t}
    <3>1. \A v \in Waiter : v \in Holders(a)' <=> (IF v = t THEN a = c ELSE v \in H)
      BY <1>1, <1>3, <1>6, <1>7, <2>0 DEF Holders
    <3>2. Holders(a)' \subseteq Waiter
      BY DEF Holders
    <3> QED
      BY <3>1, <3>2
  <2>4. Cardinality(H \cup {t}) = (IF a = b THEN Cardinality(H) ELSE Cardinality(H) + 1)
        /\ Cardinality(H \ {t}) = (IF a = b THEN Cardinality(H) - 1 ELSE Cardinality(H))
    BY <2>1, <2>2, FS_AddElement, FS_RemoveElement, ZenonT(60)
  <2>5. <<k, d + 1>> \notin O
    BY <1>3, <1>5, <2>0 DEF Owed
  <2>6. Owed(a)' = IF a = b THEN O \cup {<<k, d + 1>>} ELSE O
    <3>1. ASSUME NEW j \in Waker, NEW n \in 1..Cardinality(Waiter)
          PROVE  <<j, n>> \in Owed(a)' <=>
                   (<<j, n>> \in O \/ (a = b /\ <<j, n>> = <<k, d + 1>>))
      <4>1. CASE j # k
        <5>1. op'[j] = op[j] /\ pc'[j] = pc[j]
          BY <1>2, <4>1 DEF OthersKeep
        <5> QED
          BY <2>0, <4>1, <5>1 DEF Owed
      <4>2. CASE j = k
        <5>1. <<k, n>> \in Owed(a)' <=> (b = a /\ n <= d + 1)
          BY <1>2, <1>3 DEF Owed
        <5>2. <<k, n>> \in O <=> (b = a /\ n <= d)
          BY <1>2, <1>3, <2>0 DEF Owed
        <5>3. n \in Nat
          BY FiniteParts
        <5> QED
          BY <1>3, <4>2, <5>1, <5>2, <5>3
      <4> QED
        BY <4>1, <4>2
    <3>2. Owed(a)' \subseteq Waker \X (1..Cardinality(Waiter))
      BY DEF Owed
    <3>3. <<k, d + 1>> \in Waker \X (1..Cardinality(Waiter))
      BY <1>5
    <3> QED
      BY <3>1, <3>2, <3>3
  <2>7. Cardinality(O \cup {<<k, d + 1>>}) = Cardinality(O) + 1
    BY <2>1, <2>5, FS_AddElement
  <2>8. refs'[a] = IF a = c THEN refs[a] + 1 ELSE refs[a]
    BY <1>4 DEF Kinds, QueueKinds
  <2> QED
    BY <2>1, <2>3, <2>4, <2>6, <2>7, <2>8
<1> QED
  BY <1>8 DEF Counted

(* ... and dropping what it owes. *)
LEMMA CountedDrop ==
  ASSUME Kinds, Asked, Walked, Counted, NEW k \in Waker, DropKeyRefs(k)
  PROVE  Counted'
<1>1. pc[k] = "drop" /\ op[k] \in Calls /\ OthersKeep(k) /\ pc'[k] = "idle"
  BY FinishOp DEF DropKeyRefs, Asked
<1>2. PICK b \in Addr, d \in Nat : b = op[k].key1 /\ d = op[k].drop_count
  BY <1>1 DEF Calls
<1>3. refs' = [refs EXCEPT ![b] = refs[b] - d]
  BY <1>2 DEF DropKeyRefs, Drops
<1>4. d <= Cardinality(Waiter)
  <2>1. op[k].ret = Cardinality(op[k].touched) /\ d <= op[k].ret
    BY <1>1, <1>2 DEF Walked
  <2>2. /\ Cardinality(op[k].touched) <= Cardinality(Waiter) /\ Cardinality(Waiter) \in Nat
        /\ Cardinality(op[k].touched) \in Nat
    BY <1>1, FiniteParts DEF Calls
  <2> QED
    BY <2>1, <2>2
<1>5. PICK D : D = {k} \X (1..d)
  OBVIOUS
<1>6. IsFiniteSet(D) /\ Cardinality(D) = d
  <2>1. IsFiniteSet(1..d) /\ Cardinality(1..d) = d
    BY FS_Interval
  <2>2. IsFiniteSet({k}) /\ Cardinality({k}) = 1
    BY FS_Singleton
  <2>3. IsFiniteSet({k} \X (1..d)) /\ Cardinality({k} \X (1..d)) = Cardinality({k}) * Cardinality(1..d)
    BY <2>1, <2>2, FS_Product
  <2> QED
    BY <1>5, <2>1, <2>2, <2>3
<1>7. UNCHANGED <<key, wpc>>
  BY DEF DropKeyRefs, futex_q, waiter
<1>8. ASSUME NEW a \in Addr
      PROVE  refs'[a] = Cardinality(Holders(a)') + Cardinality(Owed(a)')
  <2>0. PICK H \in SUBSET Waiter, O \in SUBSET (Waker \X (1..Cardinality(Waiter))) :
          H = Holders(a) /\ O = Owed(a)
    BY DEF Holders, Owed
  <2>1. /\ refs[a] = Cardinality(H) + Cardinality(O) /\ Cardinality(H) \in Nat
        /\ Cardinality(O) \in Nat /\ IsFiniteSet(O)
    BY <2>0, FiniteParts DEF Counted
  <2>2. Holders(a)' = H
    BY <1>7, <2>0 DEF Holders, Holds
  <2>3. ASSUME NEW j \in Waker, NEW n \in 1..Cardinality(Waiter)
        PROVE  /\ <<j, n>> \in Owed(a)' <=> (<<j, n>> \in O /\ j # k)
               /\ <<k, n>> \in O <=> (a = b /\ n <= d)
    <3>1. <<k, n>> \in O <=> (a = b /\ n <= d)
      BY <1>1, <1>2, <2>0 DEF Owed
    <3>2. <<j, n>> \in Owed(a)' <=> (<<j, n>> \in O /\ j # k)
      <4>1. CASE j # k
        <5>1. op'[j] = op[j] /\ pc'[j] = pc[j]
          BY <1>1, <4>1 DEF OthersKeep
        <5> QED
          BY <2>0, <4>1, <5>1 DEF Owed
      <4>2. CASE j = k
        BY <1>1, <4>2 DEF Owed
      <4> QED
        BY <4>1, <4>2
    <3> QED
      BY <3>1, <3>2
  <2>4. Owed(a)' \subseteq Waker \X (1..Cardinality(Waiter))
    BY DEF Owed
  <2>5. CASE a = b
    <3>1. \A n \in 1..d : n \in 1..Cardinality(Waiter)
      BY <1>4, FiniteParts
    <3>2. O \cap D = D
      BY <1>5, <2>3, <2>5, <3>1
    <3>3. Owed(a)' = O \ D
      <4>1. ASSUME NEW j \in Waker, NEW n \in 1..Cardinality(Waiter)
            PROVE  <<j, n>> \in Owed(a)' <=> <<j, n>> \in O \ D
        <5>1. <<j, n>> \in D <=> (j = k /\ n \in 1..d)
          BY <1>5
        <5>2. n \in Nat /\ (n <= d <=> n \in 1..d)
          BY FiniteParts
        <5> QED
          BY <2>3, <2>5, <5>1, <5>2
      <4> QED
        BY <2>4, <4>1
    <3>4. Cardinality(O \ D) = Cardinality(O) - d
      <4>1. Cardinality(O \ D) = Cardinality(O) - Cardinality(O \cap D)
        BY <2>1, FS_Difference
      <4> QED
        BY <1>6, <3>2, <4>1
    <3>5. refs'[a] = refs[a] - d
      BY <1>3, <2>5 DEF Kinds, QueueKinds
    <3> QED
      BY <2>1, <2>2, <3>3, <3>4, <3>5
  <2>6. CASE a # b
    <3>1. Owed(a)' = O
      <4>1. ASSUME NEW j \in Waker, NEW n \in 1..Cardinality(Waiter)
            PROVE  <<j, n>> \in Owed(a)' <=> <<j, n>> \in O
        BY <2>3, <2>6
      <4> QED
        BY <2>4, <4>1
    <3>2. refs'[a] = refs[a]
      BY <1>3, <2>6 DEF Kinds, QueueKinds
    <3> QED
      BY <2>1, <2>2, <3>1, <3>2
  <2> QED
    BY <2>5, <2>6
<1> QED
  BY <1>8 DEF Counted

LEMMA CountedWaker ==
  ASSUME Kinds, Asked, Owning, Chained, Walked, Counted, NEW k \in Waker, WakerSteps(k)
  PROVE  Counted'
<1>1. OthersKeep(k) /\ wpc' = wpc
  BY OthersWaker, WakerFrame
<1>2. CASE Requeue(k)
  BY <1>2, CountedRequeue
<1>3. CASE DropKeyRefs(k)
  BY <1>3, CountedDrop
<1>4. CASE ~Requeue(k) /\ ~DropKeyRefs(k)
  <2>1. key' = key /\ refs' = refs
    BY <1>4 DEF WakerSteps, Begins, ReadNqueued, ReadValue, LockFirst, LockSecond, Acquire,
                CheckNqueued, LoopSkips, wake_futex, WakeUpAll, ClearLockPtr, Unlock, futex_q
  <2>2. \A a \in Addr : Holders(a)' = Holders(a)
    BY <1>1, <2>1 DEF Holders, Holds
  <2> DEFINE Goes == /\ pc[k] # "idle" /\ pc'[k] # "idle" /\ op'[k].key1 = op[k].key1
                     /\ op'[k].drop_count = op[k].drop_count
             None == /\ pc[k] = "idle" \/ op[k].drop_count = 0
                     /\ pc'[k] = "idle" \/ op'[k].drop_count = 0
  <2>3. Goes \/ None
    <3>1. ASSUME NEW r \in Request[k], Begins(k, r) PROVE None
      BY <3>1, BeginsOp
    <3>2. ASSUME ReadNqueued(k) PROVE Goes
      BY <3>2, ReadNqueuedOp DEF ReadNqueued, ArgsKept, DoneKept
    <3>3. ASSUME ReadValue(k) PROVE Goes \/ None
      <4>1. CASE Finish(k)
        <5>1. pc[k] = "value" /\ op[k] \in Calls /\ op[k].touched = {}
          BY <3>3 DEF ReadValue, Asked, Walked
        <5>2. op[k].ret = 0 /\ op[k].drop_count <= op[k].ret /\ op[k].drop_count \in Nat
          BY <5>1, FS_EmptySet DEF Walked, Calls
        <5>3. op[k].drop_count = 0
          BY <5>2
        <5> QED
          BY <4>1, <5>3, FinishOp
      <4>2. CASE op' = op /\ \E l \in {"start", "lock1"} : GotoK(k, l)
        BY <3>3, <4>2 DEF ReadValue, GotoK, Kinds, OtherKinds
      <4> QED
        BY <3>3, <4>1, <4>2 DEF ReadValue
    <3>4. ASSUME LockFirst(k) \/ LockSecond(k) PROVE Goes
      BY <3>4 DEF LockFirst, LockSecond, Acquire, GotoK, Kinds, OtherKinds
    <3>5. ASSUME CheckNqueued(k) PROVE Goes
      BY <3>5, CheckNqueuedOp DEF ArgsKept, DoneKept
    <3>6. ASSUME LoopSkips(k) PROVE Goes
      BY <3>6, LoopSkipsOp DEF ArgsKept, DoneKept
    <3>7. ASSUME wake_futex(k) PROVE Goes
      <4>1. pc'[k] = "wake"
        BY <3>7, WakeFutexOp DEF Kinds, OtherKinds
      <4> QED
        BY <3>7, <4>1, WakeFutexOp DEF ArgsKept
    <3>8. ASSUME WakeUpAll(k) \/ ClearLockPtr(k) PROVE Goes
      BY <3>8 DEF WakeUpAll, ClearLockPtr, GotoK, Kinds, OtherKinds
    <3>9. ASSUME Unlock(k) PROVE Goes \/ None
      <4>1. CASE op[k].drop_count = 0 /\ Finish(k)
        BY <4>1, FinishOp
      <4>2. CASE op' = op /\ GotoK(k, "drop")
        BY <3>9, <4>2 DEF Unlock, GotoK, Kinds, OtherKinds
      <4> QED
        BY <3>9, <4>1, <4>2 DEF Unlock
    <3> HIDE DEF Goes, None
    <3> QED
      BY <1>4, <3>1, <3>2, <3>3, <3>4, <3>5, <3>6, <3>7, <3>8, <3>9 DEF WakerSteps
  <2>4. \A a \in Addr : Owed(a)' = Owed(a)
    BY <1>1, <2>3, OwedSame
  <2> QED
    BY <2>1, <2>2, <2>4, CountedSame
<1> QED
  BY <1>2, <1>3, <1>4

-----------------------------------------------------------------------------
(* Unseen. *)

(* What Unseen says of waker k. *)
UnseenOf(k) ==
  /\ late[k] # {} => /\ pc[k] \in {"lock1", "lock2", "locked", "unlock", "drop"}
                     /\ op[k].kind = "cmp_requeue" /\ op[k].touched = {}
  /\ (late[k] # {} /\ pc[k] \in {"lock1", "lock2", "locked"})
       => op[k].nqueued < nqueued[bh1(k)]
  /\ (pc[k] \in {"value", "lock1", "lock2", "locked"} /\ op[k].kind = "cmp_requeue")
       => op[k].nqueued <= nqueued[bh1(k)]

LEMMA UnseenEach ==
  /\ Unseen <=> \A k \in Waker : UnseenOf(k)
  /\ Unseen' <=> \A k \in Waker : UnseenOf(k)'
BY DEF Unseen, UnseenOf

(* A waiter that queues is late for the wakers that have read the word and  *)
(* have not the lock, and counts in nqueued for them.                       *)
LEMMA UnseenWaiter ==
  ASSUME Kinds, Asked, Owning, Chained, Walked, Unseen, NEW w \in Waiter, WaiterSteps(w)
  PROVE  Unseen'
<1>1. UNCHANGED <<hash, pc, op>>
  BY WaiterFrame
<1>2. SUFFICES ASSUME NEW k \in Waker PROVE UnseenOf(k)'
  BY UnseenEach
<1>3. UnseenOf(k) /\ bh1(k)' = bh1(k)
  BY <1>1, UnseenEach DEF bh1
<1>4. ASSUME NEW a \in Addr, Enters(w, a) PROVE UnseenOf(k)'
  <2>1. PICK e \in Bucket : e = hash[a]
    BY DEF Kinds, OtherKinds
  <2>2. /\ nqueued' = [nqueued EXCEPT ![e] = nqueued[e] + 1]
        /\ late' = [j \in Waker |-> IF j \in HaveRead(e) THEN late[j] \cup {w} ELSE late[j]]
    BY <1>4, <2>1 DEF Enters, queue_me, CountQueued
  <2>3. CASE pc[k] = "idle"
    <3>1. late'[k] = late[k]
      BY <2>2, <2>3 DEF HaveRead
    <3> QED
      BY <1>1, <1>3, <2>3, <3>1 DEF UnseenOf
  <2>4. CASE pc[k] # "idle"
    <3>1. op[k] \in Calls /\ bh1(k) \in Bucket
      BY <2>4, Buckets
    <3>0. PICK m \in Nat, q \in Nat : m = nqueued[bh1(k)] /\ q = op[k].nqueued
      BY <3>1 DEF Calls, Kinds, BucketKinds
    <3>2. PICK n \in Nat : /\ m = nqueued[bh1(k)] /\ q = op[k].nqueued
                           /\ n = nqueued'[bh1(k)]
                           /\ n = IF bh1(k) = e THEN m + 1 ELSE m
      BY <2>2, <3>0, <3>1 DEF Kinds, BucketKinds
    <3>3. m <= n /\ (bh1(k) = e => m < n)
      BY <3>2
    <3>4. CASE k \in HaveRead(e)
      <4>1. pc[k] \in {"lock1", "lock2"} /\ op[k].kind = "cmp_requeue" /\ bh1(k) = e
        BY <3>4 DEF HaveRead, bh1
      <4>2. op[k].touched = {} /\ q <= m
        BY <1>3, <3>2, <4>1 DEF Walked, UnseenOf
      <4>3. q < n /\ q <= n
        BY <3>3, <4>1, <4>2
      <4> QED
        BY <1>1, <1>3, <3>2, <4>1, <4>2, <4>3 DEF UnseenOf
    <3>5. CASE k \notin HaveRead(e)
      <4>1. late'[k] = late[k]
        BY <2>2, <3>5
      <4>2. (q < m => q < n) /\ (q <= m => q <= n)
        BY <3>3
      <4> QED
        BY <1>1, <1>3, <3>2, <4>1, <4>2 DEF UnseenOf
    <3> QED
      BY <3>4, <3>5
  <2> QED
    BY <2>3, <2>4
<1>5. ASSUME nqueued' = nqueued, late' = late PROVE UnseenOf(k)'
  BY <1>1, <1>3, <1>5 DEF UnseenOf
<1> QED
  BY <1>4, <1>5, WaiterEffect DEF Stays, Leaves, Unlinks

(* A waker forgets its late waiters when it returns, and nobody else's. *)
LEMMA LateKept ==
  ASSUME Kinds, NEW k \in Waker, WakerSteps(k)
  PROVE  /\ \A j \in Waker \ {k} : late'[j] = late[j]
         /\ late'[k] = late[k] \/ (late'[k] = {} /\ pc'[k] = "idle")
<1>1. CASE late' = late
  BY <1>1
<1>2. CASE Finish(k)
  BY <1>2 DEF Finish, Kinds, QueueKinds, OtherKinds
<1> QED
  BY <1>1, <1>2
  DEF WakerSteps, Begins, ReadNqueued, ReadValue, LockFirst, LockSecond, Acquire,
      CheckNqueued, LoopSkips, wake_futex, WakeUpAll, ClearLockPtr, Requeue, Unlock,
      DropKeyRefs, ghost

LEMMA UnseenOthers ==
  ASSUME Kinds, Asked, Chained, Walked, Unseen, NEW k \in Waker, WakerSteps(k), UnseenOf(k)'
  PROVE  Unseen'
<1>1. UNCHANGED <<hash, nqueued>> /\ OthersKeep(k)
  BY WakerFrame, OthersWaker
<1>2. ASSUME NEW j \in Waker, j # k PROVE UnseenOf(j)'
  <2>1. UnseenOf(j) /\ op'[j] = op[j] /\ pc'[j] = pc[j] /\ late'[j] = late[j]
    BY <1>1, <1>2, UnseenEach, LateKept DEF OthersKeep
  <2> QED
    BY <1>1, <2>1 DEF UnseenOf, bh1
<1> QED
  BY <1>2, UnseenEach

LEMMA UnseenWaker ==
  ASSUME Kinds, Asked, Owning, Chained, Walked, Unseen, NEW k \in Waker, WakerSteps(k)
  PROVE  Unseen'
<1>1. ASSUME NEW r \in Request[k], Begins(k, r) PROVE Unseen'
  <2>1. UnseenOf(k) /\ UNCHANGED <<hash, nqueued>>
    BY <1>1, UnseenEach, WakerFrame DEF WakerSteps
  <2>2. late'[k] = late[k] \/ (late'[k] = {} /\ pc'[k] = "idle")
    BY <1>1, LateKept DEF WakerSteps
  <2>3. /\ pc[k] = "idle" /\ op'[k].kind = r.kind
        /\ pc'[k] = IF r.kind = "wake" THEN "lock1" ELSE "start"
    BY <1>1, BeginsOp
  <2>4. UnseenOf(k)'
    BY <2>1, <2>2, <2>3 DEF UnseenOf
  <2> QED
    BY <1>1, <2>4, UnseenOthers DEF WakerSteps
<1>2. ASSUME ReadNqueued(k) PROVE Unseen'
  <2>1. UnseenOf(k) /\ UNCHANGED <<hash, nqueued>>
    BY <1>2, UnseenEach, WakerFrame DEF WakerSteps
  <2>2. late'[k] = late[k] \/ (late'[k] = {} /\ pc'[k] = "idle")
    BY <1>2, LateKept DEF WakerSteps
  <2>3. /\ pc[k] = "start" /\ pc'[k] \in {"value", "lock1"} /\ op'[k].key1 = op[k].key1
        /\ op'[k].nqueued = nqueued[bh1(k)] /\ bh1(k) \in Bucket
    BY <1>2, ReadNqueuedOp, Buckets DEF ReadNqueued, ArgsKept
  <2>4. nqueued[bh1(k)] \in Nat /\ bh1(k)' = bh1(k) /\ late'[k] = {}
    BY <2>1, <2>2, <2>3 DEF Kinds, BucketKinds, bh1, UnseenOf
  <2>5. UnseenOf(k)'
    BY <2>1, <2>3, <2>4 DEF UnseenOf
  <2> QED
    BY <1>2, <2>5, UnseenOthers DEF WakerSteps
<1>3. ASSUME ReadValue(k) PROVE Unseen'
  <2>1. UnseenOf(k) /\ UNCHANGED <<hash, nqueued>>
    BY <1>3, UnseenEach, WakerFrame DEF WakerSteps
  <2>2. late'[k] = late[k] \/ (late'[k] = {} /\ pc'[k] = "idle")
    BY <1>3, LateKept DEF WakerSteps
  <2>3. pc[k] = "value" /\ (pc'[k] = "idle" \/ (pc'[k] \in {"lock1", "start"} /\ op' = op))
    BY <1>3, FinishOp DEF ReadValue, GotoK, Kinds, OtherKinds
  <2>4. late'[k] = {}
    BY <2>1, <2>2, <2>3 DEF UnseenOf
  <2>5. UnseenOf(k)'
    BY <2>1, <2>3, <2>4 DEF UnseenOf, bh1
  <2> QED
    BY <1>3, <2>5, UnseenOthers DEF WakerSteps
<1>4. ASSUME LockFirst(k) PROVE Unseen'
  <2>1. UnseenOf(k) /\ UNCHANGED <<hash, nqueued>>
    BY <1>4, UnseenEach, WakerFrame DEF WakerSteps
  <2>2. late'[k] = late[k] \/ (late'[k] = {} /\ pc'[k] = "idle")
    BY <1>4, LateKept DEF WakerSteps
  <2>3. pc[k] = "lock1" /\ pc'[k] \in {"lock2", "locked"} /\ op' = op
    BY <1>4 DEF LockFirst, Acquire, GotoK, Kinds, OtherKinds
  <2>4. UnseenOf(k)'
    BY <2>1, <2>2, <2>3 DEF UnseenOf, bh1
  <2> QED
    BY <1>4, <2>4, UnseenOthers DEF WakerSteps
<1>5. ASSUME LockSecond(k) PROVE Unseen'
  <2>1. UnseenOf(k) /\ UNCHANGED <<hash, nqueued>>
    BY <1>5, UnseenEach, WakerFrame DEF WakerSteps
  <2>2. late'[k] = late[k] \/ (late'[k] = {} /\ pc'[k] = "idle")
    BY <1>5, LateKept DEF WakerSteps
  <2>3. pc[k] = "lock2" /\ pc'[k] \in {"lock2", "locked"} /\ op' = op
    BY <1>5 DEF LockSecond, Acquire, GotoK, Kinds, OtherKinds
  <2>4. UnseenOf(k)'
    BY <2>1, <2>2, <2>3 DEF UnseenOf, bh1
  <2> QED
    BY <1>5, <2>4, UnseenOthers DEF WakerSteps
<1>6. ASSUME CheckNqueued(k) PROVE Unseen'
  <2>1. UnseenOf(k) /\ UNCHANGED <<hash, nqueued>>
    BY <1>6, UnseenEach, WakerFrame DEF WakerSteps
  <2>2. late'[k] = late[k] \/ (late'[k] = {} /\ pc'[k] = "idle")
    BY <1>6, LateKept DEF WakerSteps
  <2>3. /\ pc[k] = "locked" /\ op[k] \in Calls /\ bh1(k) \in Bucket
        /\ op'[k].kind = op[k].kind /\ op'[k].touched = op[k].touched
        /\ \/ pc'[k] = "unlock"
           \/ /\ pc'[k] = "scan"
              /\ op[k].kind = "cmp_requeue" => op[k].nqueued = nqueued[bh1(k)]
    BY <1>6, CheckNqueuedOp DEF ArgsKept, DoneKept
  <2>4. op[k].nqueued \in Nat /\ nqueued[bh1(k)] \in Nat
    BY <2>3 DEF Calls, Kinds, BucketKinds
  <2>5. CASE pc'[k] = "scan"
    <3>1. late[k] = {}
      BY <2>1, <2>3, <2>4, <2>5 DEF UnseenOf
    <3> QED
      BY <1>6, <2>2, <2>5, <3>1, UnseenOthers DEF UnseenOf, WakerSteps
  <2>6. CASE pc'[k] = "unlock"
    <3>1. UnseenOf(k)'
      BY <2>1, <2>2, <2>3, <2>6 DEF UnseenOf
    <3> QED
      BY <1>6, <3>1, UnseenOthers DEF WakerSteps
  <2> QED
    BY <2>3, <2>5, <2>6
<1>7. ASSUME LoopSkips(k) PROVE Unseen'
  <2>1. UnseenOf(k) /\ UNCHANGED <<hash, nqueued>>
    BY <1>7, UnseenEach, WakerFrame DEF WakerSteps
  <2>2. late'[k] = late[k] \/ (late'[k] = {} /\ pc'[k] = "idle")
    BY <1>7, LateKept DEF WakerSteps
  <2>3. pc[k] \in {"scan"} /\ pc'[k] \in {"scan"}
    BY <1>7, LoopSkipsOp
  <2>4. late'[k] = {}
    BY <2>1, <2>2, <2>3 DEF UnseenOf
  <2>5. UnseenOf(k)'
    BY <2>3, <2>4 DEF UnseenOf
  <2> QED
    BY <1>7, <2>5, UnseenOthers DEF WakerSteps
<1>8. ASSUME wake_futex(k) PROVE Unseen'
  <2>1. UnseenOf(k) /\ UNCHANGED <<hash, nqueued>>
    BY <1>8, UnseenEach, WakerFrame DEF WakerSteps
  <2>2. late'[k] = late[k] \/ (late'[k] = {} /\ pc'[k] = "idle")
    BY <1>8, LateKept DEF WakerSteps
  <2>3. pc[k] \in {"scan"} /\ pc'[k] \in {"wake"}
    BY <1>8, WakeFutexOp DEF Kinds, OtherKinds
  <2>4. late'[k] = {}
    BY <2>1, <2>2, <2>3 DEF UnseenOf
  <2>5. UnseenOf(k)'
    BY <2>3, <2>4 DEF UnseenOf
  <2> QED
    BY <1>8, <2>5, UnseenOthers DEF WakerSteps
<1>9. ASSUME WakeUpAll(k) PROVE Unseen'
  <2>1. UnseenOf(k) /\ UNCHANGED <<hash, nqueued>>
    BY <1>9, UnseenEach, WakerFrame DEF WakerSteps
  <2>2. late'[k] = late[k] \/ (late'[k] = {} /\ pc'[k] = "idle")
    BY <1>9, LateKept DEF WakerSteps
  <2>3. pc[k] \in {"wake"} /\ pc'[k] \in {"clear"}
    BY <1>9 DEF WakeUpAll, GotoK, Kinds, OtherKinds
  <2>4. late'[k] = {}
    BY <2>1, <2>2, <2>3 DEF UnseenOf
  <2>5. UnseenOf(k)'
    BY <2>3, <2>4 DEF UnseenOf
  <2> QED
    BY <1>9, <2>5, UnseenOthers DEF WakerSteps
<1>10. ASSUME ClearLockPtr(k) PROVE Unseen'
  <2>1. UnseenOf(k) /\ UNCHANGED <<hash, nqueued>>
    BY <1>10, UnseenEach, WakerFrame DEF WakerSteps
  <2>2. late'[k] = late[k] \/ (late'[k] = {} /\ pc'[k] = "idle")
    BY <1>10, LateKept DEF WakerSteps
  <2>3. pc[k] \in {"clear"} /\ pc'[k] \in {"scan", "unlock"}
    BY <1>10 DEF ClearLockPtr, GotoK, Kinds, OtherKinds
  <2>4. late'[k] = {}
    BY <2>1, <2>2, <2>3 DEF UnseenOf
  <2>5. UnseenOf(k)'
    BY <2>3, <2>4 DEF UnseenOf
  <2> QED
    BY <1>10, <2>5, UnseenOthers DEF WakerSteps
<1>11. ASSUME Requeue(k) PROVE Unseen'
  <2>1. UnseenOf(k) /\ UNCHANGED <<hash, nqueued>>
    BY <1>11, UnseenEach, WakerFrame DEF WakerSteps
  <2>2. late'[k] = late[k] \/ (late'[k] = {} /\ pc'[k] = "idle")
    BY <1>11, LateKept DEF WakerSteps
  <2>3. pc[k] \in {"scan"} /\ pc'[k] \in {"scan", "unlock"}
    BY <1>11, RequeueOp
  <2>4. late'[k] = {}
    BY <2>1, <2>2, <2>3 DEF UnseenOf
  <2>5. UnseenOf(k)'
    BY <2>3, <2>4 DEF UnseenOf
  <2> QED
    BY <1>11, <2>5, UnseenOthers DEF WakerSteps
<1>12. ASSUME Unlock(k) PROVE Unseen'
  <2>1. UnseenOf(k) /\ UNCHANGED <<hash, nqueued>>
    BY <1>12, UnseenEach, WakerFrame DEF WakerSteps
  <2>2. late'[k] = late[k] \/ (late'[k] = {} /\ pc'[k] = "idle")
    BY <1>12, LateKept DEF WakerSteps
  <2>3. /\ pc[k] \in {"unlock", "scan"}
        /\ pc'[k] = "idle" \/ (pc'[k] = "drop" /\ op' = op)
    BY <1>12, FinishOp DEF Unlock, GotoK, Kinds, OtherKinds
  <2>4. late'[k] = {} \/ (pc'[k] = "drop" /\ op' = op /\ late'[k] = late[k])
    BY <1>12, <2>2, <2>3 DEF Unlock, Finish, GotoK, Kinds, OtherKinds, QueueKinds
  <2>5. UnseenOf(k)'
    BY <2>1, <2>3, <2>4 DEF UnseenOf
  <2> QED
    BY <1>12, <2>5, UnseenOthers DEF WakerSteps
<1>13. ASSUME DropKeyRefs(k) PROVE Unseen'
  <2>1. UnseenOf(k) /\ UNCHANGED <<hash, nqueued>>
    BY <1>13, UnseenEach, WakerFrame DEF WakerSteps
  <2>2. late'[k] = late[k] \/ (late'[k] = {} /\ pc'[k] = "idle")
    BY <1>13, LateKept DEF WakerSteps
  <2>3. late'[k] = {} /\ pc'[k] = "idle"
    BY <1>13 DEF DropKeyRefs, Finish, Kinds, OtherKinds, QueueKinds
  <2>4. UnseenOf(k)'
    BY <2>3 DEF UnseenOf
  <2> QED
    BY <1>13, <2>4, UnseenOthers DEF WakerSteps
<1> QED
  BY <1>1, <1>2, <1>3, <1>4, <1>5, <1>6, <1>7, <1>8, <1>9, <1>10, <1>11, <1>12,
     <1>13 DEF WakerSteps

-----------------------------------------------------------------------------
(* Coming. *)

(* A waiter that polls does so through a descriptor, and one that waits in  *)
(* futex_wait() has seen its value in the word.                             *)
LEMMA WaitEffect ==
  ASSUME Kinds, Coming, NEW w \in Waiter, WaiterSteps(w)
  PROVE  /\ wpc'[w] = "open" => w \in FdWaiter
         /\ (wpc'[w] \in {"prepare", "check", "sleep"} /\ w \notin FdWaiter) =>
              \/ wpc[w] \in {"prepare", "check", "sleep"}
              \/ word[call[w].uaddr] = call[w].val
<1> DEFINE Goal == /\ wpc'[w] = "open" => w \in FdWaiter
                   /\ (wpc'[w] \in {"prepare", "check", "sleep"} /\ w \notin FdWaiter) =>
                        \/ wpc[w] \in {"prepare", "check", "sleep"}
                        \/ word[call[w].uaddr] = call[w].val
<1>1. ASSUME Prepare(w) PROVE Goal
  <2>1. wpc'[w] = "check"
    BY <1>1, GotoEffect DEF Prepare
  <2> QED
    BY <1>1, <2>1 DEF Prepare, Coming
<1>2. ASSUME CheckList(w) PROVE Goal
  <2>1. wpc'[w] \in {"sleep", "unqueue"} \/ (wpc'[w] = "open" /\ w \in FdWaiter)
    BY <1>2, GotoEffect DEF CheckList, Awake
  <2> QED
    BY <1>2, <2>1 DEF CheckList
<1>3. ASSUME Woken(w) \/ GivesUp(w) PROVE Goal
  <2>1. wpc'[w] = "unqueue" \/ (wpc'[w] = "open" /\ w \in FdWaiter)
    BY <1>3, GotoEffect DEF Woken, GivesUp, Awake
  <2> QED
    BY <2>1
<1>4. ASSUME TestValue(w) PROVE Goal
  <2>1. wpc'[w] = "unqueue" \/ (wpc'[w] = "prepare" /\ word[call[w].uaddr] = call[w].val)
    BY <1>4, GotoEffect DEF TestValue, AfterFault
  <2> QED
    BY <2>1
<1>5. ASSUME futex_close(w) PROVE Goal
  BY <1>5, GotoEffect DEF futex_close
<1>6. ASSUME Refault(w) PROVE Goal
  <2>1. wpc'[w] \in {"test", "idle"}
    BY <1>6, GotoEffect DEF Refault, Kinds, LabelKinds
  <2> QED
    BY <2>1
<1>7. ASSUME NEW c \in Wait[w], futex_wait(w, c[1], c[2]) PROVE Goal
  <2>1. wpc'[w] = "test"
    BY <1>7 DEF futex_wait, Kinds, LabelKinds
  <2> QED
    BY <2>1
<1>8. ASSUME NEW c \in Wait[w], futex_fd(w, c[1]) PROVE Goal
  <2>1. wpc'[w] = "open" /\ w \in FdWaiter
    BY <1>8 DEF futex_fd, Kinds, LabelKinds
  <2> QED
    BY <2>1
<1>9. ASSUME unqueue_me(w) PROVE Goal
  <2>1. wpc'[w] \in {"idle", "spin"}
    BY <1>9, GotoEffect DEF unqueue_me, Return, Kinds, LabelKinds
  <2> QED
    BY <2>1
<1>10. ASSUME UnqueueLocked(w) PROVE Goal
  <2>1. wpc'[w] \in {"idle", "unqueue", "refault"}
    BY <1>10, GotoEffect DEF UnqueueLocked, Return, Kinds, LabelKinds
  <2> QED
    BY <2>1
<1> QED
  BY <1>1, <1>2, <1>3, <1>4, <1>5, <1>6, <1>7, <1>8, <1>9, <1>10 DEF WaiterSteps

(* No step of its own makes a waiter wait past its value. *)
LEMMA OutdatedWaiter ==
  ASSUME Kinds, Asked, Owning, Chained, Coming, NEW w \in Waiter, WaiterSteps(w),
         NEW v \in Waiter, Outdated(v)'
  PROVE  Outdated(v) /\ call'[v].uaddr = call[v].uaddr
<1>1. word' = word /\ OnlyWaiter(w)
  BY WaiterFrame, OnlyWaiterStep
<1>2. CASE v # w
  <2>1. wpc'[v] = wpc[v] /\ call'[v] = call[v] /\ (Linked(v)' <=> Linked(v))
    BY <1>1, <1>2, LinkedWaiter DEF OnlyWaiter
  <2>2. moved'[v] = moved[v]
    BY <1>2, WaiterEffect, EnterEffect, DropEffect DEF Stays, Leaves, Unlinks
  <2> QED
    BY <1>1, <2>1, <2>2 DEF Outdated
<1>3. CASE v = w
  <2>1. wpc'[w] \in {"prepare", "check", "sleep"} /\ w \notin FdWaiter
    BY <1>3 DEF Outdated
  <2>2. Stays(w)
    BY <2>1, WaiterEffect DEF Enters, Leaves, Unlinks
  <2>3. /\ call'[w].uaddr = call[w].uaddr /\ call'[w].val = call[w].val
        /\ moved' = moved /\ (Linked(w)' <=> Linked(w))
    BY <2>2, LinkedWaiter DEF Stays
  <2>4. word[call[w].uaddr] # call[w].val
    BY <1>1, <1>3, <2>3 DEF Outdated
  <2>5. wpc[w] \in {"prepare", "check", "sleep"}
    BY <2>1, <2>4, WaitEffect
  <2> QED
    BY <1>3, <2>1, <2>3, <2>4, <2>5 DEF Outdated
<1> QED
  BY <1>2, <1>3

LEMMA ComingWaiter ==
  ASSUME Kinds, Asked, Owning, Chained, Coming, NEW w \in Waiter, WaiterSteps(w)
  PROVE  Coming'
<1>1. UNCHANGED <<hash, pc, op>> /\ OnlyWaiter(w)
  BY WaiterFrame, OnlyWaiterStep
<1>2. \A k \in Waker : pc'[k] # "idle" /\ op'[k].stored =>
        op'[k].kind = "wake" /\ op'[k].nr_wake >= Cardinality(Waiter)
  BY <1>1 DEF Coming
<1>3. \A v \in Waiter : wpc'[v] = "open" => v \in FdWaiter
  BY <1>1, WaitEffect DEF Coming, OnlyWaiter
<1>4. ASSUME NEW v \in Waiter, Holds(v)', ~moved'[v] PROVE key'[v] = call'[v].uaddr
  <2>1. CASE v # w
    <3>1. wpc'[v] = wpc[v] /\ call'[v] = call[v]
      BY <1>1, <2>1 DEF OnlyWaiter
    <3>2. moved'[v] = moved[v] /\ key'[v] = key[v]
      BY <2>1, WaiterEffect, EnterEffect, DropEffect DEF Stays, Leaves, Unlinks
    <3> QED
      BY <1>4, <3>1, <3>2 DEF Coming, Holds
  <2>2. CASE v = w
    <3>1. ASSUME NEW a \in Addr, Enters(w, a) PROVE key'[w] = call'[w].uaddr
      BY <3>1, EnterEffect DEF Enters
    <3>2. ASSUME Stays(w) PROVE key'[w] = call'[w].uaddr
      BY <1>4, <2>2, <3>2 DEF Stays, Coming
    <3>3. ~Leaves(w) /\ ~Unlinks(w)
      BY <1>4, <2>2 DEF Leaves, Unlinks, Holds
    <3> QED
      BY <2>2, <3>1, <3>2, <3>3, WaiterEffect
  <2> QED
    BY <2>1, <2>2
<1>5. ASSUME NEW v \in Waiter, Outdated(v)' PROVE \E k \in Waker : ComesTo(k, v)'
  <2>1. Outdated(v) /\ call'[v].uaddr = call[v].uaddr
    BY <1>5, OutdatedWaiter
  <2>2. PICK k \in Waker : ComesTo(k, v)
    BY <2>1 DEF Coming
  <2>3. Walking(k) => chain'[bh1(k)] = chain[bh1(k)]
    BY WaiterApart, WakingWalks
  <2> QED
    BY <1>1, <2>1, <2>2, <2>3 DEF ComesTo, Walking, bh1
<1> QED
  BY <1>2, <1>3, <1>4, <1>5 DEF Coming

(* Only a call that stores changes a word, and only moving a waiter, its    *)
(* key.                                                                     *)
LEMMA WordKept ==
  ASSUME NEW k \in Waker, WakerSteps(k), \A r \in Request[k] : ~Begins(k, r)
  PROVE  word' = word
BY DEF WakerSteps, ReadNqueued, ReadValue, LockFirst, LockSecond, Acquire, CheckNqueued,
       LoopSkips, wake_futex, WakeUpAll, ClearLockPtr, Requeue, Unlock, DropKeyRefs

LEMMA KeyKept ==
  ASSUME NEW k \in Waker, WakerSteps(k), ~Requeue(k)
  PROVE  key' = key /\ moved' = moved
<1>1. key' = key
  BY DEF WakerSteps, Begins, ReadNqueued, ReadValue, LockFirst, LockSecond, Acquire,
         CheckNqueued, LoopSkips, wake_futex, WakeUpAll, ClearLockPtr, Unlock, DropKeyRefs,
         futex_q
<1>2. moved' = moved
  BY DEF WakerSteps, Begins, ReadNqueued, ReadValue, LockFirst, LockSecond, Acquire,
         CheckNqueued, LoopSkips, wake_futex, WakeUpAll, ClearLockPtr, Unlock, DropKeyRefs,
         ghost
<1> QED
  BY <1>1, <1>2

(* The waiter a storing waker comes to is in the chain it walks, ... *)
LEMMA ComesToChain ==
  ASSUME Kinds, Asked, Chained, Walked, Coming, NEW k \in Waker, NEW v \in Waiter, Outdated(v),
         ComesTo(k, v)
  PROVE  /\ op[k] \in Calls /\ bh1(k) \in Bucket /\ InChain(v, bh1(k)) /\ key[v] = op[k].key1
         /\ op[k].kind = "wake" /\ op[k].nr_wake >= Cardinality(Waiter)
         /\ op[k].key1 = op[k].key2
<1>1. /\ pc[k] # "idle" /\ op[k].stored /\ op[k].key1 = call[v].uaddr
  BY DEF ComesTo
<1>2. op[k] \in Calls /\ bh1(k) \in Bucket
  BY <1>1, Buckets
<1>3. PICK b \in Bucket : InChain(v, b)
  BY DEF Outdated, Linked
<1>4. Holds(v) /\ hash[key[v]] = b
  BY <1>3, Member
<1>5. key[v] = op[k].key1
  BY <1>1, <1>4 DEF Coming, Outdated
<1>6. bh1(k) = b
  BY <1>4, <1>5 DEF bh1
<1>7. op[k].kind = "wake" /\ op[k].nr_wake >= Cardinality(Waiter)
  BY <1>1 DEF Coming
<1>8. op[k].key1 = op[k].key2
  BY <1>1, <1>7 DEF Asked
<1> QED
  BY <1>2, <1>3, <1>5, <1>6, <1>7, <1>8

(* ... and it stays ahead of its cursor until it is woken. *)
LEMMA ComesToOwn ==
  ASSUME Kinds, Asked, Owning, Chained, Walked, Coming, NEW k \in Waker, WakerSteps(k),
         NEW v \in Waiter, Outdated(v), ComesTo(k, v), Outdated(v)'
  PROVE  ComesTo(k, v)'
<1>1. /\ op[k] \in Calls /\ bh1(k) \in Bucket /\ InChain(v, bh1(k)) /\ key[v] = op[k].key1
      /\ op[k].kind = "wake" /\ op[k].nr_wake >= Cardinality(Waiter)
      /\ op[k].key1 = op[k].key2
  BY ComesToChain
<1>2. UNCHANGED <<hash, call>>
  BY WakerFrame
<1>3. /\ pc[k] # "idle" /\ op[k].stored /\ op[k].key1 = call[v].uaddr
      /\ \/ pc[k] \in {"lock1", "locked"}
         \/ Walking(k) /\ (op[k].next = v \/ Ahead(chain[bh1(k)], op[k].next, v))
  BY DEF ComesTo
<1>4. PICK c \in Seq(Waiter) : c = chain[bh1(k)] /\ Once(c) /\ v \in ToSet(c)
  BY <1>1 DEF Kinds, BucketKinds, Chained, InChain
<1>5. ASSUME ArgsKept(k), chain' = chain, Walking(k)',
             op'[k].next = v \/ Ahead(c, op'[k].next, v)
      PROVE  ComesTo(k, v)'
  <2>1. bh1(k)' = bh1(k)
    BY <1>2, <1>5 DEF ArgsKept, bh1
  <2>2. pc'[k] # "idle"
    BY <1>5 DEF Walking
  <2> QED
    BY <1>2, <1>3, <1>4, <1>5, <2>1, <2>2 DEF ComesTo, ArgsKept
<1>6. ASSUME NEW r \in Request[k], Begins(k, r) PROVE FALSE
  BY <1>3, <1>6 DEF Begins
<1>7. ASSUME ReadNqueued(k) \/ ReadValue(k) \/ LockSecond(k) \/ DropKeyRefs(k) PROVE FALSE
  BY <1>3, <1>7 DEF ReadNqueued, ReadValue, LockSecond, DropKeyRefs, Walking
<1>8. ASSUME LockFirst(k) PROVE ComesTo(k, v)'
  <2>1. bh1(k) = bh2(k)
    BY <1>1 DEF bh1, bh2
  <2>2. pc'[k] = "locked" /\ op' = op
    BY <1>8, <2>1 DEF LockFirst, Acquire, GotoK, Kinds, OtherKinds
  <2> QED
    BY <1>2, <1>3, <2>2 DEF ComesTo
<1>9. ASSUME CheckNqueued(k) PROVE ComesTo(k, v)'
  <2>1. GotoK(k, "scan") /\ chain' = chain
    BY <1>1, <1>9 DEF CheckNqueued, buckets
  <2>2. pc'[k] = "scan"
    BY <2>1 DEF GotoK, Kinds, OtherKinds
  <2>3. ArgsKept(k) /\ op'[k].next = First(bh1(k))
    BY <1>9, <2>2, CheckNqueuedOp
  <2>4. c # <<>> /\ (v = c[1] \/ Ahead(c, c[1], v))
    BY <1>4, AheadFirst
  <2>5. First(bh1(k)) = c[1]
    BY <1>4, <2>4 DEF First
  <2> QED
    BY <1>5, <2>1, <2>2, <2>3, <2>4, <2>5 DEF Walking
<1>10. ASSUME LoopSkips(k) PROVE ComesTo(k, v)'
  <2>1. /\ pc' = pc /\ ArgsKept(k) /\ pc[k] = "scan" /\ key[op[k].next] # op[k].key1
        /\ op[k].next # op[k].head1
        /\ op'[k].next = NextOf(op[k].next, bh1(k))
    BY <1>10, LoopSkipsOp
  <2>2. Ahead(c, op[k].next, v)
    BY <1>1, <1>3, <1>4, <2>1
  <2>3. v = op'[k].next \/ Ahead(c, op'[k].next, v)
    BY <1>4, <2>1, <2>2, CursorNew
  <2>4. chain' = chain
    BY <1>10 DEF LoopSkips, buckets
  <2> QED
    BY <1>5, <2>1, <2>3, <2>4 DEF Walking
<1>11. ASSUME wake_futex(k) PROVE ComesTo(k, v)'
  <2>1. /\ ArgsKept(k) /\ pc[k] = "scan" /\ pc'[k] = "wake" /\ op[k].next # op[k].head1
        /\ op'[k].next = NextOf(op[k].next, bh1(k))
    BY <1>11, WakeFutexOp DEF Kinds, OtherKinds
  <2>2. PICK t \in Waiter : t = op[k].next /\ ~Linked(t)'
    BY <1>11, LinkedWaker
  <2>3. v # t
    BY <2>2 DEF Outdated
  <2>4. Ahead(c, t, v)
    BY <1>3, <1>4, <2>1, <2>2, <2>3
  <2>5. /\ t \in ToSet(c) /\ op'[k].next # t
        /\ v = op'[k].next \/ Ahead(c, op'[k].next, v)
    BY <1>4, <2>1, <2>2, <2>4, CursorNew
  <2>6. chain'[bh1(k)] = RemoveFirst(c, t)
    BY <1>4, <1>11, <2>2, WakeEffect DEF Without
  <2>7. v = op'[k].next \/ Ahead(chain'[bh1(k)], op'[k].next, v)
    BY <1>4, <2>3, <2>5, <2>6, RemoveFirstAhead
  <2>8. bh1(k)' = bh1(k)
    BY <1>2, <2>1 DEF ArgsKept, bh1
  <2> QED
    BY <1>2, <1>3, <2>1, <2>7, <2>8 DEF ComesTo, ArgsKept, Walking
<1>12. ASSUME WakeUpAll(k) PROVE ComesTo(k, v)'
  <2>1. pc[k] = "wake" /\ pc'[k] = "clear" /\ op' = op /\ chain' = chain
    BY <1>12 DEF WakeUpAll, GotoK, buckets, Kinds, OtherKinds
  <2> QED
    BY <1>3, <1>4, <1>5, <2>1 DEF ArgsKept, Walking
<1>13. ASSUME ClearLockPtr(k) PROVE ComesTo(k, v)'
  <2>1. pc[k] = "clear" /\ op' = op /\ chain' = chain
    BY <1>13 DEF ClearLockPtr, buckets
  <2>2. op[k].ret < Cardinality(Waiter)
    <3>1. op[k].ret = Cardinality(op[k].touched) /\ v \notin op[k].touched
      BY <1>1, <1>4, <2>1 DEF Walked, Walking
    <3>2. op[k].touched \in SUBSET Waiter
      BY <1>1 DEF Calls
    <3>3. /\ Cardinality(op[k].touched \cup {v}) = Cardinality(op[k].touched) + 1
          /\ Cardinality(op[k].touched \cup {v}) <= Cardinality(Waiter)
          /\ Cardinality(op[k].touched) \in Nat /\ Cardinality(Waiter) \in Nat
      BY <3>1, <3>2, CountsOne, FiniteParts
    <3> QED
      BY <3>1, <3>3
  <2>3. ~(op[k].ret >= op[k].nr_wake)
    <3>1. op[k].ret \in Nat /\ op[k].nr_wake \in Nat /\ Cardinality(Waiter) \in Nat
      BY <1>1, FiniteParts DEF Calls
    <3> QED
      BY <1>1, <2>2, <3>1
  <2>4. pc'[k] = "scan"
    BY <1>13, <2>3 DEF ClearLockPtr, GotoK, Kinds, OtherKinds
  <2> QED
    BY <1>3, <1>4, <1>5, <2>1, <2>4 DEF ArgsKept, Walking
<1>14. ASSUME Requeue(k) PROVE FALSE
  BY <1>1, <1>14, RequeueOp
<1>15. ASSUME Unlock(k) PROVE FALSE
  <2>1. pc[k] = "scan" /\ op[k].next = op[k].head1 /\ Walking(k)
    BY <1>3, <1>15 DEF Unlock, Walking
  <2>2. op[k].next = ListHead
    BY <1>1, <2>1 DEF Walked
  <2>3. op[k].next \in ToSet(c)
    BY <1>3, <1>4, <2>1, AheadOrder
  <2>4. ToSet(c) \in SUBSET Waiter
    BY ListSet
  <2> QED
    BY <2>2, <2>3, <2>4, Distinct
<1> QED
  BY <1>6, <1>7, <1>8, <1>9, <1>10, <1>11, <1>12, <1>13, <1>14, <1>15 DEF WakerSteps

LEMMA ComingWaker ==
  ASSUME StoresWakeAll, Kinds, Asked, Owning, Chained, Walked, Coming, NEW k \in Waker,
         WakerSteps(k)
  PROVE  Coming'
<1>1. UNCHANGED <<hash, wpc, call>> /\ OthersKeep(k)
  BY WakerFrame, OthersWaker
<1>2. ASSUME NEW j \in Waker, pc'[j] # "idle", op'[j].stored
      PROVE  op'[j].kind = "wake" /\ op'[j].nr_wake >= Cardinality(Waiter)
  <2>1. CASE j # k
    BY <1>1, <1>2, <2>1 DEF OthersKeep, Coming
  <2>2. ASSUME NEW r \in Request[k], Begins(k, r)
        PROVE  op'[k].stored => op'[k].kind = "wake" /\ op'[k].nr_wake >= Cardinality(Waiter)
    <3>1. op'[k].kind = r.kind /\ op'[k].nr_wake = r.nr_wake /\ op'[k].stored = r.stored
      BY <2>2, BeginsOp
    <3> QED
      BY <3>1, Arguments DEF StoresWakeAll
  <2>3. ASSUME \A r \in Request[k] : ~Begins(k, r), pc'[k] # "idle"
        PROVE  ArgsKept(k) /\ pc[k] # "idle"
    <3>1. CASE op' = op
      BY <2>3, <3>1
      DEF ArgsKept, WakerSteps, ReadNqueued, ReadValue, LockFirst, LockSecond, CheckNqueued,
          LoopSkips, wake_futex, Matches, WakeUpAll, ClearLockPtr, Requeue, Unlock, DropKeyRefs
    <3>2. CASE ReadNqueued(k)
      BY <3>2, ReadNqueuedOp DEF ReadNqueued
    <3>3. CASE CheckNqueued(k)
      BY <3>3, CheckNqueuedOp
    <3>4. CASE LoopSkips(k)
      BY <3>4, LoopSkipsOp
    <3>5. CASE wake_futex(k)
      BY <3>5, WakeFutexOp
    <3>6. CASE Requeue(k)
      BY <3>6, RequeueOp
    <3>7. ~Finish(k)
      BY <2>3, FinishOp
    <3> QED
      BY <2>3, <3>1, <3>2, <3>3, <3>4, <3>5, <3>6, <3>7
      DEF WakerSteps, ReadValue, LockFirst, LockSecond, Acquire, WakeUpAll, ClearLockPtr,
          Unlock, DropKeyRefs
  <2>4. CASE j = k /\ \A r \in Request[k] : ~Begins(k, r)
    BY <1>2, <2>3, <2>4 DEF ArgsKept, Coming
  <2> QED
    BY <1>2, <2>1, <2>2, <2>4
<1>3. \A v \in Waiter : wpc'[v] = "open" => v \in FdWaiter
  BY <1>1 DEF Coming
<1>4. ASSUME NEW v \in Waiter
      PROVE  /\ ~moved'[v] => ~moved[v]
             /\ Holds(v)' /\ ~moved'[v] => key'[v] = call'[v].uaddr
  <2>1. CASE ~Requeue(k)
    BY <1>1, <2>1, KeyKept DEF Coming, Holds
  <2>2. CASE Requeue(k)
    <3>1. PICK t \in Waiter :
            /\ t = op[k].next /\ key'[t] = op[k].key2 /\ key[t] = op[k].key1
            /\ \A u \in Waiter \ {t} : key'[u] = key[u] /\ moved'[u] = moved[u]
      BY <2>2, RequeueEffect, RequeueOp
    <3>2. CASE v # t
      BY <1>1, <3>1, <3>2 DEF Coming, Holds
    <3>3. CASE v = t
      <4>1. PICK m \in BOOLEAN : m = (moved[t] \/ op[k].key1 # op[k].key2)
        BY <3>1 DEF Kinds, QueueKinds
      <4>2. moved' = [moved EXCEPT ![t] = m]
        BY <2>2, <3>1, <4>1 DEF Requeue
      <4>3. moved'[t] = m
        BY <4>2 DEF Kinds, QueueKinds
      <4>4. ~moved'[t] => ~moved[t] /\ op[k].key1 = op[k].key2
        BY <4>1, <4>3
      <4> QED
        BY <1>1, <3>1, <3>3, <4>4 DEF Coming, Holds
    <3> QED
      BY <3>2, <3>3
  <2> QED
    BY <2>1, <2>2
<1>5. ASSUME NEW v \in Waiter, Outdated(v)' PROVE \E j \in Waker : ComesTo(j, v)'
  <2>1. Linked(v) /\ ~moved[v]
    BY <1>4, <1>5, LinkedWaker DEF Outdated
  <2>2. ASSUME Outdated(v) PROVE \E j \in Waker : ComesTo(j, v)'
    <3>1. PICK j \in Waker : ComesTo(j, v)
      BY <2>2 DEF Coming
    <3>2. CASE j = k
      BY <1>5, <2>2, <3>1, <3>2, ComesToOwn
    <3>3. CASE j # k
      <4>1. op'[j] = op[j] /\ pc'[j] = pc[j]
        BY <1>1, <3>3 DEF OthersKeep
      <4>2. Walking(j) => chain'[bh1(j)] = chain[bh1(j)]
        BY <3>3, WakerApart, WakingWalks
      <4>3. ComesTo(j, v)'
        BY <1>1, <3>1, <4>1, <4>2 DEF ComesTo, Walking, bh1
      <4> QED
        BY <4>3
    <3> QED
      BY <3>2, <3>3
  <2>3. CASE word'[call[v].uaddr] = word[call[v].uaddr]
    BY <1>1, <1>5, <2>1, <2>2, <2>3 DEF Outdated
  <2>4. ASSUME NEW r \in Request[k], Begins(k, r),
               word'[call[v].uaddr] # word[call[v].uaddr]
        PROVE  ComesTo(k, v)'
    <3>1. r.stored /\ call[v].uaddr = r.key1
      BY <2>4 DEF Begins, Kinds, OtherKinds, LabelKinds
    <3>2. /\ pc'[k] = (IF r.kind = "wake" THEN "lock1" ELSE "start")
          /\ op'[k].stored = r.stored /\ op'[k].key1 = r.key1
      BY <2>4, BeginsOp, Zenon
    <3>3. r.kind = "wake"
      BY <3>1, Arguments, Zenon
    <3>4. pc'[k] = "lock1"
      BY <3>2, <3>3
    <3> QED
      BY <1>1, <3>1, <3>2, <3>4 DEF ComesTo
  <2> QED
    BY <2>3, <2>4, WordKept
<1> QED
  BY <1>2, <1>3, <1>4, <1>5 DEF Coming

-----------------------------------------------------------------------------
(* The invariant. *)

IInv ==
  /\ Kinds /\ Asked /\ Owning /\ Chained /\ Walked
  /\ Sleeping /\ Reported /\ Counted /\ Unseen

LEMMA InitKinds ==
  ASSUME Init
  PROVE  Kinds /\ Asked
<1>1. hash \in [Addr -> Bucket]
  BY FutexAssumption DEF Init
<1>2. BucketKinds /\ QueueKinds
  BY Distinct DEF Init, BucketKinds, QueueKinds
<1>3. TaskKinds /\ LabelKinds
  BY Distinct DEF Init, TaskKinds, LabelKinds, Label, Error
<1>4. OtherKinds
  BY <1>1, Distinct, FutexAssumption DEF Init, OtherKinds
<1>5. Asked
  BY DEF Init, Asked
<1> QED
  BY <1>2, <1>3, <1>4, <1>5 DEF Kinds

LEMMA InitChained ==
  ASSUME Init
  PROVE  Owning /\ Chained /\ Walked /\ Sleeping /\ Reported /\ Unseen
<1>1. /\ \A k \in Waker : pc[k] = "idle" /\ late[k] = {}
      /\ \A w \in Waiter : wpc[w] = "idle" /\ lock_ptr[w] = NULL /\ ret[w] = "none"
      /\ \A b \in Bucket : chain[b] = <<>> /\ lock[b] = Nobody
  BY DEF Init
<1>2. \A b \in Bucket : ToSet(chain[b]) = {} /\ Once(chain[b])
  BY <1>1 DEF ToSet, Once
<1>3. Owning
  BY <1>1, Distinct DEF Owning, Inside
<1>4. Chained
  BY <1>1, <1>2 DEF Chained, Waking, Walking
<1>5. Walked /\ Unseen
  BY <1>1 DEF Walked, Walking, Unseen
<1>6. Sleeping /\ Reported
  BY <1>1 DEF Sleeping, Reported, Holds
<1> QED
  BY <1>3, <1>4, <1>5, <1>6

LEMMA InitCounted ==
  ASSUME Init
  PROVE  Counted
<1>1. SUFFICES ASSUME NEW a \in Addr
      PROVE  refs[a] = Cardinality(Holders(a)) + Cardinality(Owed(a))
  BY DEF Counted
<1>2. /\ \A k \in Waker : pc[k] = "idle"
      /\ \A w \in Waiter : wpc[w] = "idle"
      /\ refs[a] = 0
  BY DEF Init
<1>3. Holders(a) = {} /\ Owed(a) = {}
  BY <1>2 DEF Holders, Owed, Holds
<1>4. Cardinality({}) = 0
  BY FS_EmptySet
<1> QED
  BY <1>2, <1>3, <1>4

LEMMA AskedWaiter ==
  ASSUME Asked, NEW w \in Waiter, WaiterSteps(w)
  PROVE  Asked'
BY WaiterFrame DEF Asked

(* A stuttering step. *)
LEMMA Stutters ==
  ASSUME IInv, UNCHANGED vars
  PROVE  IInv'
<1> USE DEF vars, buckets, futex_q, waiter, waker, ghost, bounds
<1>1. Kinds' /\ Asked'
  BY DEF IInv, Kinds, BucketKinds, QueueKinds, TaskKinds, LabelKinds, OtherKinds, Asked
<1>2. Owning'
  BY DEF IInv, Owning, Inside, bh1, bh2, Lower
<1>3. Chained'
  BY DEF IInv, Chained, Holds, InChain, Waking, Walking, bh1
<1>4. Walked'
  BY DEF IInv, Walked, Walking, Stopped, bh1
<1>5. Sleeping' /\ Reported'
  BY DEF IInv, Sleeping, Reported, Holds, Linked, InChain
<1>6. Counted'
  BY DEF IInv, Counted, Holders, Owed, Holds
<1>7. Unseen'
  BY DEF IInv, Unseen, bh1
<1> QED
  BY <1>1, <1>2, <1>3, <1>4, <1>5, <1>6, <1>7 DEF IInv

LEMMA Steps ==
  ASSUME IInv, Next
  PROVE  IInv'
<1>1. ASSUME NEW w \in Waiter, WaiterSteps(w) PROVE IInv'
  <2>1. Kinds' /\ Asked' /\ Owning' /\ Chained' /\ Walked'
    BY <1>1, KindsWaiter, AskedWaiter, OwningWaiter, ChainedWaiter, WalkedWaiter DEF IInv
  <2>2. Sleeping' /\ Reported' /\ Counted' /\ Unseen'
    BY <1>1, SleepingWaiter, ReportedWaiter, CountedWaiter, UnseenWaiter DEF IInv
  <2> QED
    BY <2>1, <2>2 DEF IInv
<1>2. ASSUME NEW k \in Waker, WakerSteps(k) PROVE IInv'
  <2>1. Kinds' /\ Asked' /\ Owning' /\ Chained' /\ Walked'
    BY <1>2, KindsWaker, AskedWaker, OwningWaker, ChainedWaker, WalkedWaker DEF IInv
  <2>2. Sleeping' /\ Reported' /\ Counted' /\ Unseen'
    BY <1>2, SleepingWaker, ReportedWaker, CountedWaker, UnseenWaker DEF IInv
  <2> QED
    BY <2>1, <2>2 DEF IInv
<1> QED
  BY <1>1, <1>2, NextCases

(* The inductive invariant holds of every behaviour of the waiters' and the *)
(* wakers' steps.                                                           *)
THEOREM Invariance == Spec => []IInv
<1>1. Init => IInv
  BY InitKinds, InitChained, InitCounted DEF IInv
<1>2. IInv /\ [Next]_vars => IInv'
  BY Steps, Stutters
<1> QED
  BY <1>1, <1>2, PTL DEF Spec

(* Every field of a futex_q, a bucket and a call keeps its type; a key's    *)
(* references are never dropped below zero.                                 *)
THEOREM TypeCorrect == Spec => []TypeOK
<1>1. ASSUME IInv PROVE TypeOK
  <2>1. Kinds /\ Asked /\ Counted
    BY <1>1 DEF IInv
  <2>2. refs \in [Addr -> Nat]
    <3>1. refs \in [Addr -> Int]
      BY <2>1 DEF Kinds, QueueKinds
    <3>2. ASSUME NEW a \in Addr PROVE refs[a] \in Nat
      <4>1. Holders(a) \in SUBSET Waiter
            /\ Owed(a) \in SUBSET (Waker \X (1..Cardinality(Waiter)))
        BY DEF Holders, Owed
      <4>2. Cardinality(Holders(a)) \in Nat /\ Cardinality(Owed(a)) \in Nat
        BY <4>1, FiniteParts
      <4> QED
        BY <2>1, <4>2 DEF Counted
    <3> QED
      BY <3>1, <3>2
  <2>3. \A k \in Waker : op[k] = Idle <=> pc[k] = "idle"
    <3>1. SUFFICES ASSUME NEW k \in Waker, op[k] = Idle PROVE pc[k] = "idle"
      BY <2>1 DEF Asked
    <3>2. op[k].kind = "none"
      BY <3>1 DEF Idle
    <3>3. op[k] \in Calls => op[k].kind # "none"
      BY DEF Calls
    <3> QED
      BY <2>1, <3>2, <3>3 DEF Asked
  <2> QED
    BY <2>1, <2>2, <2>3
    DEF TypeOK, Kinds, BucketKinds, QueueKinds, TaskKinds, LabelKinds, Label, OtherKinds
<1> QED
  BY <1>1, Invariance, PTL

(* Under the lock that lock_ptr names, unqueue_me() finds its waiter in the *)
(* chain of that lock's bucket.                                             *)
LEMMA UnqueueFinds ==
  ASSUME Kinds, Owning, Chained, NEW w \in Waiter,
         wpc[w] = "spin", lp[w] = lock_ptr[w], lock[lp[w]] = Nobody
  PROVE  InChain(w, lp[w])
<1>1. lp[w] \in Bucket /\ lock_ptr[w] # NULL
  BY Distinct DEF Chained
<1>2. ASSUME NEW k \in Waker, Waking(k), op[k].this = w PROVE FALSE
  <2>1. lock_ptr[w] = bh1(k)
    BY <1>2 DEF Chained
  <2>2. bh1(k) # lp[w]
    BY <1>2, WakingWalks, FreeBucket
  <2> QED
    BY <2>1, <2>2
<1> QED
  BY <1>1, <1>2 DEF Chained

(* wake_futex() and unqueue_me() reach a futex_q only while its owner has   *)
(* it, in the chain and under the lock that lock_ptr names: neither uses    *)
(* one that the waiting task has freed, and no list_del() is of an entry of *)
(* another list.                                                            *)
THEOREM LinksStayLive == Spec => []LinksLive
<1>1. ASSUME IInv PROVE LinksLive
  <2>1. Kinds /\ Owning /\ Chained
    BY <1>1 DEF IInv
  <2>2. WakeTargetLive
    <3>1. SUFFICES ASSUME NEW k \in Waker
          PROVE  /\ Waking(k) => Holds(op[k].this) /\ lock_ptr[op[k].this] = bh1(k)
                 /\ Walking(k) => op[k].next = ListHead \/ InChain(op[k].next, bh1(k))
      BY DEF WakeTargetLive, Waking, Walking
    <3>2. ASSUME Waking(k) PROVE Holds(op[k].this) /\ lock_ptr[op[k].this] = bh1(k)
      <4>1. op[k].this \in Waiter /\ lock_ptr[op[k].this] = bh1(k)
        BY <2>1, <3>2 DEF Chained
      <4>2. bh1(k) \in Bucket
        BY <1>1, <3>2, Buckets DEF IInv, Waking
      <4> QED
        BY <2>1, <4>1, <4>2, Distinct DEF Chained
    <3> QED
      BY <2>1, <3>2 DEF Chained
  <2>3. UnqueuesFromItsChain
    <3>1. ASSUME NEW b \in Bucket, NEW i \in DOMAIN chain[b], NEW j \in DOMAIN chain[b]
          PROVE  /\ i # j => chain[b][i] # chain[b][j]
                 /\ Holds(chain[b][i])
                 /\ lock_ptr[chain[b][i]] = b /\ hash[key[chain[b][i]]] = b
      <4>1. chain[b][i] \in ToSet(chain[b])
        BY DEF ToSet
      <4> QED
        BY <2>1, <4>1 DEF Chained, Once
    <3> QED
      BY <2>1, <3>1, UnqueueFinds DEF UnqueuesFromItsChain
  <2> QED
    BY <2>2, <2>3 DEF LinksLive
<1> QED
  BY <1>1, Invariance, PTL

(* A waiter that sleeps off its list, between the list_del_init() and the   *)
(* wake_up_all() of wake_futex(), is about to be woken: no order of the     *)
(* waiter's set_current_state(), add_wait_queue() and list_empty() and the  *)
(* waker's steps loses a wakeup.                                            *)
THEOREM NoWakeupLost == Spec => []NoLostWakeup
<1>1. IInv => NoLostWakeup
  BY DEF IInv, Sleeping, NoLostWakeup
<1> QED
  BY <1>1, Invariance, PTL

(* futex_wait() returns 0 for the waiters that some futex_wake() or         *)
(* futex_requeue() took off a list and counted, and for no other.           *)
THEOREM WakesReported == Spec => []WakesAreReported
<1>1. IInv => WakesAreReported
  BY DEF IInv, Reported, WakesAreReported
<1> QED
  BY <1>1, Invariance, PTL

(* The loop of futex_wake() and futex_requeue() handles no waiter twice,    *)
(* with both futexes in one bucket too, and returns how many it handled.    *)
THEOREM HandledOnce == Spec => []EachHandledOnce
<1>1. IInv => EachHandledOnce
  BY DEF IInv, Walked, EachHandledOnce
<1> QED
  BY <1>1, Invariance, PTL

(* get_key_refs() and drop_key_refs() balance: a key has as many references *)
(* as futex_qs with it and drops owed by a futex_requeue().                 *)
THEOREM ReferencesExact == Spec => []KeyRefsExact
<1>1. IInv => KeyRefsExact
  BY DEF IInv, Counted, Holders, Owed, KeyRefsExact
<1> QED
  BY <1>1, Invariance, PTL

(* FUTEX_CMP_REQUEUE, which compares the word without a lock, handles no    *)
(* waiter that was queued after the comparison: nqueued tells it.           *)
THEOREM NoLateWaiterSeen == Spec => []CmpRequeueSeesNoLateWaiter
<1>1. IInv => CmpRequeueSeesNoLateWaiter
  BY DEF IInv, Unseen, CmpRequeueSeesNoLateWaiter
<1> QED
  BY <1>1, Invariance, PTL

(* When every task that stores to a futex word wakes all of its waiters     *)
(* next, a waiter of futex_wait() that passed its test stays queued while   *)
(* the word differs from its value only until such a task has walked the    *)
(* chain.                                                                   *)
THEOREM ValueHolds ==
  ASSUME StoresWakeAll
  PROVE  Spec => []BlocksOnlyWhileValueHolds
<1>1. Init => Coming
  BY DEF Init, Coming, Holds, Outdated
<1>2. ASSUME IInv, Coming, [Next]_vars PROVE Coming'
  <2>1. ASSUME NEW w \in Waiter, WaiterSteps(w) PROVE Coming'
    BY <1>2, <2>1, ComingWaiter DEF IInv
  <2>2. ASSUME NEW k \in Waker, WakerSteps(k) PROVE Coming'
    BY <1>2, <2>2, ComingWaker DEF IInv
  <2>3. CASE UNCHANGED vars
    BY <1>2, <2>3 DEF vars, buckets, futex_q, waiter, waker, ghost, bounds, Coming, Holds,
                      Outdated, ComesTo, Linked, InChain, Walking, bh1
  <2> QED
    BY <1>2, <2>1, <2>2, <2>3, NextCases
<1>3. IInv /\ Coming => BlocksOnlyWhileValueHolds
  <2>1. SUFFICES ASSUME Coming, NEW w \in Waiter, Outdated(w)
        PROVE  \E k \in Waker : /\ pc[k] \in {"lock1", "locked", "scan", "wake", "clear"}
                                /\ op[k].stored /\ op[k].key1 = call[w].uaddr
    BY DEF BlocksOnlyWhileValueHolds, Outdated
  <2>2. PICK k \in Waker : ComesTo(k, w)
    BY <2>1 DEF Coming
  <2> QED
    BY <2>2 DEF ComesTo, Walking
<1> QED
  BY <1>1, <1>2, <1>3, Invariance, PTL DEF Spec

-----------------------------------------------------------------------------
(* Locks. *)

(* Waker k waits for the lock of a bucket that another waker has. *)
Blocked(k) ==
  \/ pc[k] = "lock1" /\ lock[Lower(k)] # Nobody
  \/ pc[k] = "lock2" /\ \A b \in {bh1(k), bh2(k)} : lock[b] \in Waker

SomeWakerUnblocked ==
  (\E k \in Waker : pc[k] # "idle") => \E k \in Waker : pc[k] # "idle" /\ ~Blocked(k)

(* One of finitely many things is highest. *)
LEMMA Highest ==
  ASSUME NEW S, IsFiniteSet(S), S # {}, NEW f \in [S -> Nat]
  PROVE  \E x \in S : \A y \in S : f[y] <= f[x]
<1> DEFINE Above(x) == {y \in S : f[x] < f[y]}
           N == {Cardinality(Above(x)) : x \in S}
<1>1. ASSUME NEW x \in S PROVE IsFiniteSet(Above(x)) /\ Cardinality(Above(x)) \in Nat
  <2>1. Above(x) \in SUBSET S
    OBVIOUS
  <2> QED
    BY <2>1, FS_Subset, FS_CardinalityType
<1>2. N \subseteq Nat /\ N # {}
  BY <1>1
<1>3. PICK n \in N : \A m \in N : n <= m
  BY <1>2, Least
<1>4. PICK x \in S : n = Cardinality(Above(x))
  OBVIOUS
<1>5. ASSUME NEW y \in S, f[x] < f[y] PROVE FALSE
  <2>1. Above(y) \in SUBSET Above(x) /\ y \in Above(x) /\ y \notin Above(y)
    BY <1>5
  <2>2. Cardinality(Above(y)) <= Cardinality(Above(x)) /\ Above(x) # Above(y)
    BY <1>1, <2>1, FS_Subset
  <2>3. Cardinality(Above(x)) # Cardinality(Above(y))
    BY <1>1, <2>1, <2>2, FS_Subset
  <2>4. n <= Cardinality(Above(y))
    BY <1>3
  <2> HIDE DEF Above
  <2> QED
    BY <1>1, <1>4, <2>2, <2>3, <2>4
<1> QED
  BY <1>5

(* Of the wakers that have one lock and wait for another, the one whose     *)
(* first lock is highest waits for a lock that none of them has.            *)
LEMMA LocksInOrder == Kinds /\ Asked /\ Owning => SomeWakerUnblocked
<1> SUFFICES ASSUME Kinds, Asked, Owning, NEW i \in Waker, pc[i] # "idle",
                    \A k \in Waker : pc[k] # "idle" => Blocked(k)
             PROVE  FALSE
  BY DEF SomeWakerUnblocked
<1> DEFINE S == {k \in Waker : pc[k] = "lock2"}
           f == [k \in S |-> Lower(k)]
<1>1. \A k \in Waker : pc[k] \in {"idle", "lock1", "lock2"}
  BY DEF Blocked
<1>2. ASSUME NEW k \in Waker, pc[k] # "idle"
      PROVE  bh1(k) \in Bucket /\ bh2(k) \in Bucket /\ Lower(k) \in {bh1(k), bh2(k)}
  <2>1. hash \in [Addr -> Bucket] /\ op[k].key1 \in Addr /\ op[k].key2 \in Addr
    BY <1>2 DEF Kinds, OtherKinds, Asked, Calls
  <2> QED
    BY <2>1 DEF bh1, bh2, Lower
<1>3. ASSUME NEW b \in Bucket, lock[b] # Nobody PROVE \E k \in S : b = Lower(k)
  <2>1. PICK k \in Waker : lock[b] = k
    BY <1>3 DEF Kinds, BucketKinds
  <2> QED
    BY <1>1, <2>1 DEF Owning, Inside
<1>4. S # {}
  <2>1. CASE pc[i] = "lock2"
    BY <2>1
  <2>2. CASE pc[i] = "lock1"
    <3>1. lock[Lower(i)] # Nobody /\ Lower(i) \in Bucket
      BY <1>2, <2>2 DEF Blocked
    <3> QED
      BY <1>3, <3>1
  <2> QED
    BY <1>1, <2>1, <2>2
<1>5. IsFiniteSet(S)
  BY FutexAssumption, FS_Subset
<1>6. f \in [S -> Nat]
  BY <1>2, FutexAssumption
<1>7. PICK k \in S : \A j \in S : Lower(j) <= Lower(k)
  <2>1. PICK k \in S : \A j \in S : f[j] <= f[k]
    <3> HIDE DEF S, f
    <3> QED
      BY <1>4, <1>5, <1>6, Highest
  <2> QED
    BY <2>1
<1>8. k \in Waker /\ pc[k] = "lock2" /\ bh1(k) # bh2(k)
  BY <1>7 DEF Owning
<1>9. PICK b \in {bh1(k), bh2(k)} : Lower(k) < b
  <2>1. bh1(k) \in Nat /\ bh2(k) \in Nat
    BY <1>2, <1>8, FutexAssumption
  <2> QED
    BY <1>8, <2>1 DEF Lower
<1>10. b \in Bucket /\ lock[b] # Nobody
  BY <1>2, <1>8, NameAssumption DEF Blocked
<1>11. PICK j \in S : b = Lower(j)
  BY <1>3, <1>10
<1>12. Lower(j) <= Lower(k) /\ Lower(k) < Lower(j) /\ Lower(j) \in Nat /\ Lower(k) \in Nat
  BY <1>2, <1>7, <1>9, <1>11, FutexAssumption
<1> QED
  BY <1>12

(* Requeues in opposite directions never all wait for one another: while    *)
(* wakers are in calls, one of them does not wait for a bucket's lock (the  *)
(* order of the locks in futex_requeue()).                                  *)
THEOREM NoLockCycle == Spec => []SomeWakerUnblocked
<1>1. IInv => SomeWakerUnblocked
  BY LocksInOrder DEF IInv
<1> QED
  BY <1>1, Invariance, PTL
=============================================================================
