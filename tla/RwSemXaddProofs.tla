-------------------------- MODULE RwSemXaddProofs --------------------------
(***************************************************************************)
(* Proofs about the optimised read/write semaphore, for any finite set of  *)
(* tasks smaller than WaitingUnit.  The inductive invariant is built in    *)
(* layers, each of which is preserved given the ones before it:            *)
(*                                                                         *)
(*   Base    types, who may be in the wake-up path (only the owner of      *)
(*           wait_lock), and what the path has on its entry;               *)
(*   Listed  every linked record is on the stack of a task that still      *)
(*           waits for it, no task is linked twice, and the records a      *)
(*           waker is about to release are readers';                       *)
(*   Count   sem->count is exact at every step, and a writer is alone;     *)
(*   Refs    each task_struct has exactly the references in use.           *)
(*                                                                         *)
(* The count is a sum of two parts that never overflow into each other:    *)
(* every task adds at most one to the active part, and there are fewer     *)
(* than WaitingUnit tasks.  This is what lets the lock-free fast paths     *)
(* conclude from one comparison that nobody holds or waits.                *)
(***************************************************************************)
EXTENDS RwSemXadd, FiniteSetTheorems, WellFoundedInduction, SequenceTheorems, TLAPS

(* The types the steps keep by themselves; that no reference count becomes  *)
(* negative follows from Refs.                                              *)
Types ==
  /\ count \in Int
  /\ wait_list \in Seq(Task)
  /\ wait_lock \in Task \cup {NoTask}
  /\ waiter \in [Task -> Task \cup {NoTask}]
  /\ flags \in [Task -> Flags]
  /\ state \in [Task -> State]
  /\ usage \in [Task -> Int]
  /\ pc \in [Task -> PC]
  /\ tsk \in Task \cup {NoTask}
  /\ loop \in Nat
  /\ after \in {"idle", "read", "wait"}

(* The wake-up path is run by the owner of wait_lock and nobody else. *)
Owner == \A t \in Task : pc[t] \in OwnerPC <=> wait_lock = t

(* The wake-up path until it has decided whom to wake. *)
Deciding == {"do_wake", "undo", "readers_only"}

(* What the path has at each of its labels: somebody to wake, a downgrading *)
(* caller only where readers are woken, readers to release only in the      *)
(* loop over them.                                                          *)
Path ==
  /\ wait_lock = NoTask => loop = 0
  /\ loop <= Len(wait_list)
  /\ \A t \in Task :
       /\ pc[t] \in Deciding \cup {"wake_writer"} => loop = 0
       /\ pc[t] \in Deciding => wait_list # <<>>
       /\ pc[t] \in {"do_wake", "undo", "wake_writer"} => after # "read"
       /\ pc[t] \in {"wake_writer", "wake_reader"} => tsk \in Task

Base == Types /\ Owner /\ Path

(* The records on sem->wait_list.  A task that runs the wake-up path with   *)
(* its own record linked came from rwsem_down_failed_common.                *)
Linkage ==
  /\ \A i \in 1..Len(wait_list) :
       /\ pc[wait_list[i]] \in {"wait", "schedule"} \cup OwnerPC
       /\ pc[wait_list[i]] \in OwnerPC => after = "wait"
       /\ waiter[wait_list[i]] = wait_list[i]
  /\ \A i, j \in 1..Len(wait_list) : wait_list[i] = wait_list[j] => i = j

(* Readers are released from the front of the list only. *)
FrontIsRead ==
  /\ \A t \in Task : pc[t] = "readers_only" => flags[Head(wait_list)] = "read"
  /\ \A i \in 1..loop : flags[wait_list[i]] = "read"

(* Who runs the wake-up path for itself has not released itself yet. *)
OwnRecord ==
  \A t \in Task : pc[t] \in Deciding /\ after = "wait" => waiter[t] = t

Listed == Linkage /\ FrontIsRead /\ OwnRecord

(* A set of natural numbers that is not empty has a least member. *)
LEMMA LeastNat ==
  ASSUME NEW T \in SUBSET Nat, T # {}
  PROVE  \E x \in T : \A y \in T : x <= y
<1>1. \E x \in T : \A y \in T : ~(<<y, x>> \in OpToRel(<, Nat))
  BY NatLessThanWellFounded, WFMin
<1>2. PICK x \in T : \A y \in T : ~(<<y, x>> \in OpToRel(<, Nat))
  BY <1>1
<1>3. \A y \in T : ~(y < x)
  BY <1>2 DEF OpToRel
<1> QED
  BY <1>3

(* The number of readers at the front of the list is well defined: it ends  *)
(* before the first writer, or with the list.                               *)
LEMMA FrontReadersType ==
  ASSUME Types, ReaderAtFront
  PROVE  /\ FrontReaders \in 1..Len(wait_list)
         /\ \A i \in 1..FrontReaders : flags[wait_list[i]] = "read"
<1> DEFINE n == Len(wait_list)
           W == {i \in 1..n : flags[wait_list[i]] # "read"}
           P(k) == /\ \A i \in 1..k : flags[wait_list[i]] = "read"
                   /\ k = n \/ flags[wait_list[k + 1]] # "read"
<1>1. n \in Nat /\ n >= 1 /\ flags[wait_list[1]] = "read"
  BY DEF Types, ReaderAtFront
<1>2. \E k \in 1..n : P(k)
  <2>1. CASE W = {}
    BY <1>1, <2>1
  <2>2. CASE W # {}
    <3>0. W \in SUBSET Nat
      OBVIOUS
    <3> HIDE DEF W
    <3>1. PICK x \in W : \A y \in W : x <= y
      BY <2>2, <3>0, LeastNat
    <3> USE DEF W
    <3>2. x - 1 \in 1..n /\ P(x - 1)
      BY <1>1, <3>1
    <3> QED
      BY <3>2
  <2> QED
    BY <2>1, <2>2
<1>3. FrontReaders = CHOOSE k \in 1..n : P(k)
  BY DEF FrontReaders
<1>4. FrontReaders \in 1..n /\ P(FrontReaders)
  BY <1>2, <1>3
<1> QED
  BY <1>4

(* init_rwsem leaves no owner of wait_lock and nobody in the wake-up path. *)
LEMMA BaseInit == Init => Base
BY TaskAssumption
DEF Init, Base, Types, Owner, Path, Deciding, Flags, State, PC, OwnerPC

(* t goes somewhere, the others stay where they are. *)
Moves(t) == pc' \in [Task -> PC] /\ \A u \in Task \ {t} : pc'[u] = pc[u]

(* A task that moves outside of the wake-up path. *)
LEMMA BaseMove ==
  ASSUME Base, NEW t \in Task, Moves(t), {pc[t], pc'[t]} \cap OwnerPC = {},
         UNCHANGED <<wait_list, wait_lock, waiter, tsk, loop, after>>,
         count' \in Int, flags' \in [Task -> Flags], state' \in [Task -> State],
         usage' \in [Task -> Int]
  PROVE  Base'
<1>1. /\ pc' \in [Task -> PC] /\ pc'[t] \notin OwnerPC /\ pc[t] \notin OwnerPC
      /\ \A u \in Task : u # t => pc'[u] = pc[u]
  BY DEF Moves
<1>2. Types'
  BY <1>1 DEF Base, Types
<1>3. \A u \in Task : pc'[u] \in OwnerPC => pc'[u] = pc[u]
  BY <1>1
<1>4. Owner'
  BY <1>1 DEF Base, Owner
<1>5. Path'
  BY <1>3 DEF Base, Path, Deciding, OwnerPC
<1> QED
  BY <1>2, <1>4, <1>5 DEF Base

(* Every step keeps Base: one case for each action. *)
LEMMA BaseNext == Base /\ Listed /\ [Next]_vars => Base'
<1> SUFFICES ASSUME Base, Listed, [Next]_vars PROVE Base'
  OBVIOUS
<1> USE TaskAssumption DEF Flags, State, PC, OwnerPC, waiters, tasks, locals, ACTIVE_BIAS,
        WAITING_BIAS, ACTIVE_WRITE_BIAS
<1>0. Types /\ Owner /\ Path /\ WaitingUnit \in Nat
  BY UnitAssumption DEF Base
<1>1. CASE UNCHANGED vars
  BY <1>1 DEF Base, Types, Owner, Path, Deciding, Goto, vars
<1>2. ASSUME NEW t \in Task, Acquire(t) PROVE Base'
  <2> DEFINE Step == /\ pc[t] = "idle"
                     /\ Moves(t) /\ pc'[t] \in {"read", "write", "failed"}
                     /\ UNCHANGED <<wait_list, wait_lock, waiter, state, usage, tsk,
                                    loop, after>>
                     /\ count' \in Int /\ flags' \in [Task -> Flags]
  <2>1. down_read(t) => Step
    BY <1>0 DEF Types, Goto, Moves, down_read
  <2>2. down_write(t) => Step
    BY <1>0 DEF Types, Goto, Moves, down_write
  <2>3. down_read_trylock(t) => Step
    BY <1>0 DEF Types, Goto, Moves, down_read_trylock
  <2>4. down_write_trylock(t) => Step
    BY <1>0 DEF Types, Goto, Moves, down_write_trylock
  <2>5. Step
    BY <1>2, <2>1, <2>2, <2>3, <2>4 DEF Acquire
  <2> QED
    BY <1>0, <2>5, BaseMove DEF Types
<1>3. ASSUME NEW t \in Task, wait_check(t) PROVE Base'
  <2>1. /\ pc[t] = "wait"
        /\ Moves(t) /\ pc'[t] \in {"read", "write", "schedule"}
        /\ UNCHANGED <<count, wait_list, wait_lock, waiters, usage, locals>>
        /\ state' \in [Task -> State]
    BY <1>0, <1>3 DEF Types, Goto, Moves, wait_check
  <2> QED
    BY <1>0, <2>1, BaseMove DEF Types
<1>4. ASSUME NEW t \in Task, schedule_return(t) PROVE Base'
  BY <1>4 DEF Base, Types, Owner, Path, Deciding, Goto, schedule_return
<1>5. ASSUME NEW t \in Task, up_read(t) PROVE Base'
  <2>1. Moves(t) /\ pc[t] = "read" /\ pc'[t] \in {"idle", "rwsem_wake"}
    BY <1>0, <1>5 DEF up_read, Types, Goto, Moves
  <2>2. /\ count' \in Int /\ UNCHANGED <<wait_list, wait_lock, waiters, tasks, locals>>
    BY <1>0, <1>5 DEF up_read, Types
  <2> QED
    BY <1>0, <2>1, <2>2, BaseMove DEF Types
<1>6. ASSUME NEW t \in Task, up_write(t) PROVE Base'
  <2>1. Moves(t) /\ pc[t] = "write" /\ pc'[t] \in {"idle", "rwsem_wake"}
    BY <1>0, <1>6 DEF up_write, Types, Goto, Moves
  <2>2. /\ count' \in Int /\ UNCHANGED <<wait_list, wait_lock, waiters, tasks, locals>>
    BY <1>0, <1>6 DEF up_write, Types
  <2> QED
    BY <1>0, <2>1, <2>2, BaseMove DEF Types
<1>7. ASSUME NEW t \in Task, downgrade_write(t) PROVE Base'
  <2>1. Moves(t) /\ pc'[t] \in {"read", "downgrade_wake"} /\ count' \in Int
    BY <1>0, <1>7 DEF downgrade_write, Types, Goto, Moves
  <2> QED
    BY <1>0, <1>7, <2>1, BaseMove DEF downgrade_write, Types
<1>8. ASSUME NEW t \in Task, down_failed(t) PROVE Base'
  <2>1. count' \in Int
    <3>1. Adjustment(flags[t]) \in Int
      BY <1>0 DEF Adjustment
    <3> QED
      BY <1>0, <1>8, <3>1 DEF Types, down_failed
  <2>2. /\ wait_list' \in Seq(Task) /\ wait_list' # <<>>
        /\ Len(wait_list') = Len(wait_list) + 1
    <3>1. wait_list \in Seq(Task) /\ wait_list' = Append(wait_list, t)
      BY <1>0, <1>8 DEF Types, down_failed
    <3>2. wait_list' \in Seq(Task) /\ Len(wait_list') = Len(wait_list) + 1
      BY <3>1
    <3> QED
      BY <3>1, <3>2
  <2>3. CASE Lock(t, "wait") /\ Goto(t, "do_wake")
    BY <1>8, <2>1, <2>2, <2>3 DEF Base, Types, Owner, Path, Deciding, Goto, down_failed, Lock
  <2>4. CASE Goto(t, "wait") /\ UNCHANGED <<wait_lock, after>>
    BY <1>8, <2>1, <2>2, <2>4 DEF Base, Types, Owner, Path, Deciding, Goto, down_failed
  <2> QED
    BY <1>8, <2>3, <2>4 DEF down_failed
<1>9. ASSUME NEW t \in Task, rwsem_wake(t) PROVE Base'
  BY <1>9, ZenonT(60) DEF Base, Types, Owner, Path, Deciding, Goto, rwsem_wake, Lock
<1>10. ASSUME NEW t \in Task, rwsem_downgrade_wake(t) PROVE Base'
  <2>1. CASE ReaderAtFront
    <3>1. Lock(t, "read") /\ Goto(t, "readers_only") /\ wait_list # <<>>
      BY <1>10, <2>1 DEF rwsem_downgrade_wake, ReaderAtFront
    <3> QED
      BY <1>10, <3>1
      DEF Base, Types, Owner, Path, Deciding, Goto, rwsem_downgrade_wake, Lock
  <2>2. CASE ~ReaderAtFront
    <3>1. Moves(t) /\ pc'[t] = "read" /\ UNCHANGED <<wait_lock, after>>
      BY <1>0, <1>10, <2>2 DEF Types, Goto, Moves, rwsem_downgrade_wake
    <3> QED
      BY <1>0, <1>10, <3>1, BaseMove DEF rwsem_downgrade_wake, Types
  <2> QED
    BY <2>1, <2>2
<1>11. ASSUME NEW t \in Task, do_wake_busy(t) PROVE Base'
  BY <1>11 DEF Base, Types, Owner, Path, Deciding, Goto, do_wake_busy
<1>12. ASSUME NEW t \in Task, do_wake_writer(t) PROVE Base'
  <2>1. /\ wait_list' \in Seq(Task) /\ Head(wait_list) \in Task
        /\ Len(wait_list') >= 0 /\ loop = 0
    BY <1>12 DEF Base, Types, Owner, Path, Deciding, Goto, do_wake_writer
  <2> QED
    BY <1>12, <2>1 DEF Base, Types, Owner, Path, Deciding, Goto, do_wake_writer
<1>13. ASSUME NEW t \in Task, do_wake_readers(t) PROVE Base'
  BY <1>13 DEF Base, Types, Owner, Path, Deciding, Goto, do_wake_readers
<1>14. ASSUME NEW t \in Task, do_wake_undo(t) PROVE Base'
  <2>1. CASE count' # 0
    BY <1>14, <2>1 DEF Base, Types, Owner, Path, Deciding, Goto, do_wake_undo
  <2>2. CASE count' = 0
    BY <1>14, <2>2 DEF Base, Types, Owner, Path, Deciding, Goto, do_wake_undo
  <2> QED
    BY <2>1, <2>2
<1>15. ASSUME NEW t \in Task, readers_only(t) PROVE Base'
  <2>1. FrontReaders \in 1..Len(wait_list)
    BY <1>0, <1>15, FrontReadersType
    DEF readers_only, Listed, FrontIsRead, ReaderAtFront, Path, Deciding
  <2>2. loop' \in Nat /\ loop' <= Len(wait_list) /\ wait_list' = wait_list
    BY <1>15, <2>1 DEF Base, Types, Owner, Path, Deciding, Goto, readers_only
  <2>3. count' \in Int
    BY <1>15, <2>1 DEF Base, Types, Owner, Path, Deciding, Goto, readers_only
  <2> QED
    BY <1>15, <2>2, <2>3 DEF Base, Types, Owner, Path, Deciding, Goto, readers_only
<1>16. ASSUME NEW t \in Task, readers_loop(t) PROVE Base'
  <2>1. /\ wait_list' \in Seq(Task) /\ Head(wait_list) \in Task
        /\ Len(wait_list') = Len(wait_list) - 1
    BY <1>16 DEF Base, Types, Owner, Path, Deciding, Goto, readers_loop
  <2> QED
    BY <1>16, <2>1 DEF Base, Types, Owner, Path, Deciding, Goto, readers_loop
<1>17. ASSUME NEW t \in Task, readers_done(t) PROVE Base'
  BY <1>17 DEF Base, Types, Owner, Path, Deciding, Goto, readers_done, Unlock
<1>18. ASSUME NEW t \in Task, wake_reader(t) PROVE Base'
  BY <1>18 DEF Base, Types, Owner, Path, Deciding, Goto, wake_reader, WakeAndPut
<1>19. ASSUME NEW t \in Task, wake_writer(t) PROVE Base'
  BY <1>19 DEF Base, Types, Owner, Path, Deciding, Goto, wake_writer, WakeAndPut, Unlock
<1>20. ASSUME NEW t \in Task, spurious_wakeup(t) PROVE Base'
  BY <1>20 DEF Base, Types, Owner, Path, Deciding, Goto, spurious_wakeup
<1>21. ASSUME NEW t \in Task, do_exit(t) PROVE Base'
  BY <1>21 DEF Base, Types, Owner, Path, Deciding, Goto, do_exit
<1> QED
  BY <1>1, <1>2, <1>3, <1>4, <1>5, <1>6, <1>7, <1>8, <1>9, <1>10, <1>11, <1>12,
     <1>13, <1>14, <1>15, <1>16, <1>17, <1>18, <1>19, <1>20, <1>21
  DEF Next, Contend
-----------------------------------------------------------------------------
(* Nobody is linked at the start. *)
LEMMA ListedInit == Init => Listed
BY DEF Init, Listed, Linkage, FrontIsRead, OwnRecord, Deciding

(* Only the owner of wait_lock is in the wake-up path. *)
LEMMA Alone ==
  ASSUME Base
  PROVE  /\ wait_lock = NoTask => \A u \in Task : pc[u] \notin OwnerPC
         /\ \A t, u \in Task : pc[t] \in OwnerPC /\ u # t => pc[u] \notin OwnerPC
BY TaskAssumption DEF Base, Owner

(* A task that moves without touching the list: if it is linked it stays in *)
(* the wait loop or in the wake-up path it was called from there.           *)
LEMMA ListedMove ==
  ASSUME Base, Listed, NEW t \in Task, Moves(t), UNCHANGED <<wait_list, waiter>>,
         after' = after \/ wait_lock = NoTask,
         loop' = loop \/ loop' = 0,
         \A i \in 1..Len(wait_list) : flags'[wait_list[i]] = flags[wait_list[i]],
         \/ \A i \in 1..Len(wait_list) : wait_list[i] # t
         \/ pc'[t] \in {"wait", "schedule"}
         \/ pc'[t] \in OwnerPC /\ after' = "wait",
         pc'[t] = "readers_only" => ReaderAtFront,
         pc'[t] \in Deciding /\ after' = "wait" => waiter[t] = t
  PROVE  Listed'
<1>1. /\ \A u \in Task \ {t} : pc'[u] = pc[u]
      /\ \A u \in Task \ {t} : pc[u] \in OwnerPC => after' = after
      /\ wait_list \in Seq(Task) /\ loop \in Nat /\ loop <= Len(wait_list)
      /\ \A i \in 1..Len(wait_list) : wait_list[i] \in Task
      /\ wait_list # <<>> => Head(wait_list) = wait_list[1] /\ 1 \in 1..Len(wait_list)
      /\ \A u \in Task : pc[u] = "readers_only" => wait_list # <<>>
  BY Alone DEF Moves, Base, Types, Path, Deciding
<1>2. Linkage'
  <2>1. ASSUME NEW i \in 1..Len(wait_list)
        PROVE  /\ pc'[wait_list[i]] \in {"wait", "schedule"} \cup OwnerPC
               /\ pc'[wait_list[i]] \in OwnerPC => after' = "wait"
    <3>1. CASE wait_list[i] = t
      BY <3>1 DEF OwnerPC
    <3>2. CASE wait_list[i] # t
      BY <1>1, <3>2 DEF Listed, Linkage
    <3> QED
      BY <3>1, <3>2
  <2> QED
    BY <2>1 DEF Listed, Linkage
<1>3. FrontIsRead'
  <2>1. \A u \in Task : pc'[u] = "readers_only" => flags'[Head(wait_list)] = "read"
    BY <1>1 DEF Listed, FrontIsRead, ReaderAtFront
  <2>2. \A i \in 1..loop' : flags'[wait_list[i]] = "read"
    BY <1>1 DEF Listed, FrontIsRead
  <2> QED
    BY <2>1, <2>2 DEF FrontIsRead
<1>4. OwnRecord'
  BY <1>1 DEF Listed, OwnRecord, Deciding, OwnerPC
<1> QED
  BY <1>2, <1>3, <1>4 DEF Listed

(* The record at the front is taken off and its task released. *)
LEMMA ListedPop ==
  ASSUME Base, Listed, NEW t \in Task, Moves(t), pc[t] \in OwnerPC,
         pc'[t] \in {"wake_writer", "wake_reader"}, wait_list # <<>>,
         wait_list' = Tail(wait_list),
         waiter' = [waiter EXCEPT ![Head(wait_list)] = NoTask],
         NEW k \in Nat, loop' = k, k + 1 <= loop \/ k = 0, UNCHANGED <<flags, after>>
  PROVE  Listed'
<1> DEFINE n == Len(wait_list)
<1>1. /\ n \in Nat /\ n >= 1 /\ Len(wait_list') = n - 1
      /\ \A i \in 1..(n - 1) : wait_list'[i] = wait_list[i + 1]
      /\ Head(wait_list) = wait_list[1] /\ \A i \in 1..n : wait_list[i] \in Task
      /\ loop \in Nat /\ loop <= n /\ waiter \in [Task -> Task \cup {NoTask}]
  BY DEF Base, Types, Path
<1>2. /\ \A u \in Task \ {t} : pc'[u] = pc[u] /\ pc[u] \notin OwnerPC
  BY Alone DEF Moves
<1>3. ASSUME NEW i \in 1..(n - 1)
      PROVE  /\ i + 1 \in 1..n /\ wait_list'[i] = wait_list[i + 1]
             /\ wait_list'[i] \in Task /\ wait_list'[i] # wait_list[1]
             /\ waiter'[wait_list'[i]] = wait_list'[i]
             /\ pc'[wait_list'[i]] \in {"wait", "schedule"} \cup OwnerPC
             /\ pc'[wait_list'[i]] \in OwnerPC => after' = "wait"
  <2>1. i + 1 \in 1..n /\ 1 \in 1..n /\ i + 1 # 1 /\ wait_list'[i] = wait_list[i + 1]
    BY <1>1
  <2>2. wait_list'[i] \in Task /\ wait_list'[i] # wait_list[1]
    BY <1>1, <2>1 DEF Listed, Linkage
  <2>3. waiter'[wait_list'[i]] = wait_list'[i]
    BY <1>1, <2>1, <2>2 DEF Listed, Linkage
  <2>4. /\ pc'[wait_list'[i]] \in {"wait", "schedule"} \cup OwnerPC
        /\ pc'[wait_list'[i]] \in OwnerPC => after' = "wait"
    BY <1>2, <2>1, <2>2 DEF Listed, Linkage, OwnerPC
  <2> QED
    BY <2>1, <2>2, <2>3, <2>4
<1>4. ASSUME NEW i \in 1..(n - 1), NEW j \in 1..(n - 1), wait_list'[i] = wait_list'[j]
      PROVE  i = j
  <2>1. i + 1 = j + 1
    BY <1>3, <1>4 DEF Listed, Linkage
  <2> QED
    BY <2>1
<1>5. Linkage'
  BY <1>1, <1>3, <1>4 DEF Linkage
<1>6. FrontIsRead'
  <2>1. \A i \in 1..loop' : flags[wait_list'[i]] = "read"
    <3> SUFFICES ASSUME NEW i \in 1..k PROVE flags[wait_list'[i]] = "read"
      OBVIOUS
    <3>1. i \in 1..(n - 1) /\ i + 1 \in 1..loop
      BY <1>1
    <3> QED
      BY <1>3, <3>1 DEF Listed, FrontIsRead
  <2>2. \A u \in Task : pc'[u] # "readers_only"
    BY <1>2 DEF OwnerPC
  <2> QED
    BY <2>1, <2>2 DEF FrontIsRead
<1>7. OwnRecord'
  BY <1>2 DEF OwnRecord, Deciding, OwnerPC
<1> QED
  BY <1>5, <1>6, <1>7 DEF Listed

(* A task whose fast path failed links its record at the tail. *)
LEMMA ListedAppend ==
  ASSUME Base, Listed, NEW t \in Task, down_failed(t)
  PROVE  Listed'
<1> DEFINE n == Len(wait_list)
<1>1. /\ pc[t] = "failed" /\ wait_lock = NoTask /\ Moves(t) /\ flags' = flags
      /\ pc'[t] \in {"wait", "do_wake"} /\ (pc'[t] = "do_wake" => after' = "wait")
      /\ waiter' = [waiter EXCEPT ![t] = t] /\ wait_list' = Append(wait_list, t)
      /\ loop' = 0 /\ waiter \in [Task -> Task \cup {NoTask}]
  BY DEF down_failed, Lock, Goto, Moves, Base, Types, Path, PC, OwnerPC
<1>2. /\ n \in Nat /\ Len(wait_list') = n + 1 /\ wait_list'[n + 1] = t
      /\ \A i \in 1..n : wait_list'[i] = wait_list[i] /\ wait_list[i] \in Task
                         /\ wait_list[i] # t
  <2>1. wait_list \in Seq(Task)
    BY DEF Base, Types
  <2>2. /\ n \in Nat /\ Len(wait_list') = n + 1 /\ wait_list'[n + 1] = t
        /\ \A i \in 1..n : wait_list'[i] = wait_list[i] /\ wait_list[i] \in Task
    BY <1>1, <2>1
  <2>3. \A i \in 1..n : wait_list[i] # t
    BY <1>1 DEF Listed, Linkage, OwnerPC
  <2> QED
    BY <2>2, <2>3
<1>3. \A u \in Task \ {t} : pc'[u] = pc[u] /\ pc[u] \notin OwnerPC
  BY <1>1, Alone DEF Moves
<1>4. Linkage'
  <2>1. ASSUME NEW i \in 1..(n + 1)
        PROVE  /\ pc'[wait_list'[i]] \in {"wait", "schedule"} \cup OwnerPC
               /\ pc'[wait_list'[i]] \in OwnerPC => after' = "wait"
               /\ waiter'[wait_list'[i]] = wait_list'[i]
    <3>1. CASE i = n + 1
      BY <1>1, <1>2, <3>1 DEF OwnerPC
    <3>2. CASE i \in 1..n
      BY <1>1, <1>2, <1>3, <3>2 DEF Listed, Linkage
    <3> QED
      BY <1>2, <3>1, <3>2
  <2>2. \A i, j \in 1..(n + 1) : wait_list'[i] = wait_list'[j] => i = j
    BY <1>2 DEF Listed, Linkage
  <2> QED
    BY <1>2, <2>1, <2>2 DEF Linkage
<1>5. FrontIsRead' /\ OwnRecord'
  BY <1>1, <1>3 DEF FrontIsRead, OwnRecord, Deciding, OwnerPC
<1> QED
  BY <1>4, <1>5 DEF Listed

(* Where each step of a task takes it. *)
LEMMA MoveFacts ==
  ASSUME Base, NEW t \in Task
  PROVE  /\ down_read(t) \/ down_write(t) \/ down_read_trylock(t)
              \/ down_write_trylock(t) =>
              Moves(t) /\ pc[t] = "idle" /\ pc'[t] \in {"read", "write", "failed"}
         /\ wait_check(t) =>
              /\ Moves(t) /\ pc[t] = "wait"
              /\ waiter[t] = NoTask => pc'[t] = flags[t]
              /\ waiter[t] # NoTask => pc'[t] = "schedule"
         /\ schedule_return(t) => Moves(t) /\ pc[t] = "schedule" /\ pc'[t] = "wait"
         /\ up_read(t) =>
              Moves(t) /\ pc[t] = "read" /\ pc'[t] \in {"idle", "rwsem_wake"}
         /\ up_write(t) =>
              Moves(t) /\ pc[t] = "write" /\ pc'[t] \in {"idle", "rwsem_wake"}
         /\ downgrade_write(t) =>
              Moves(t) /\ pc[t] = "write" /\ pc'[t] \in {"read", "downgrade_wake"}
         /\ do_exit(t) => Moves(t) /\ pc[t] = "idle" /\ pc'[t] = "dead"
         /\ spurious_wakeup(t) => Moves(t) /\ pc'[t] = pc[t]
<1> USE DEF Base, Types, Moves, Goto, PC, Flags
<1>1. down_read(t) => Moves(t) /\ pc[t] = "idle" /\ pc'[t] \in {"read", "write", "failed"}
  BY DEF down_read
<1>2. down_write(t) => Moves(t) /\ pc[t] = "idle" /\ pc'[t] \in {"read", "write", "failed"}
  BY DEF down_write
<1>3. down_read_trylock(t) \/ down_write_trylock(t) =>
        Moves(t) /\ pc[t] = "idle" /\ pc'[t] \in {"read", "write", "failed"}
  BY DEF down_read_trylock, down_write_trylock
<1>4. wait_check(t) =>
        /\ Moves(t) /\ pc[t] = "wait"
        /\ waiter[t] = NoTask => pc'[t] = flags[t]
        /\ waiter[t] # NoTask => pc'[t] = "schedule"
  BY DEF wait_check
<1>5. schedule_return(t) => Moves(t) /\ pc[t] = "schedule" /\ pc'[t] = "wait"
  BY DEF schedule_return
<1>6. up_read(t) => Moves(t) /\ pc[t] = "read" /\ pc'[t] \in {"idle", "rwsem_wake"}
  BY DEF up_read
<1>7. up_write(t) => Moves(t) /\ pc[t] = "write" /\ pc'[t] \in {"idle", "rwsem_wake"}
  BY DEF up_write
<1>8. downgrade_write(t) =>
        Moves(t) /\ pc[t] = "write" /\ pc'[t] \in {"read", "downgrade_wake"}
  BY DEF downgrade_write
<1>9. do_exit(t) => Moves(t) /\ pc[t] = "idle" /\ pc'[t] = "dead"
  BY DEF do_exit
<1>10. spurious_wakeup(t) => Moves(t) /\ pc'[t] = pc[t]
  BY DEF spurious_wakeup
<1> QED
  BY <1>1, <1>2, <1>3, <1>4, <1>5, <1>6, <1>7, <1>8, <1>9, <1>10

(* The same for the contention paths. *)
LEMMA ContendFacts ==
  ASSUME Base, NEW t \in Task
  PROVE  /\ rwsem_wake(t) =>
              /\ Moves(t) /\ pc[t] = "rwsem_wake" /\ wait_lock = NoTask
              /\ \/ pc'[t] = "do_wake" /\ after' = "idle"
                 \/ pc'[t] = "idle" /\ after' = after
         /\ rwsem_downgrade_wake(t) =>
              /\ Moves(t) /\ pc[t] = "downgrade_wake" /\ wait_lock = NoTask
              /\ \/ pc'[t] = "readers_only" /\ after' = "read" /\ ReaderAtFront
                 \/ pc'[t] = "read" /\ after' = after
         /\ do_wake_busy(t) => Moves(t) /\ pc[t] = "do_wake" /\ pc'[t] = "undo"
         /\ do_wake_writer(t) => Moves(t) /\ pc[t] = "do_wake" /\ pc'[t] = "wake_writer"
         /\ do_wake_readers(t) =>
              Moves(t) /\ pc[t] = "do_wake" /\ pc'[t] = "readers_only"
         /\ do_wake_undo(t) => Moves(t) /\ pc[t] = "undo" /\ pc'[t] \in {"do_wake", after}
         /\ readers_only(t) => Moves(t) /\ pc[t] = "readers_only" /\ pc'[t] = "readers"
         /\ readers_loop(t) => Moves(t) /\ pc[t] = "readers" /\ pc'[t] = "wake_reader"
         /\ readers_done(t) => Moves(t) /\ pc[t] = "readers" /\ pc'[t] = after
         /\ wake_reader(t) => Moves(t) /\ pc[t] = "wake_reader" /\ pc'[t] = "readers"
         /\ wake_writer(t) => Moves(t) /\ pc[t] = "wake_writer" /\ pc'[t] = after
<1> USE DEF Base, Types, Moves, Goto, PC, OwnerPC
<1>1. rwsem_wake(t) =>
        /\ Moves(t) /\ pc[t] = "rwsem_wake" /\ wait_lock = NoTask
        /\ \/ pc'[t] = "do_wake" /\ after' = "idle"
           \/ pc'[t] = "idle" /\ after' = after
  BY DEF rwsem_wake, Lock
<1>2. rwsem_downgrade_wake(t) =>
        /\ Moves(t) /\ pc[t] = "downgrade_wake" /\ wait_lock = NoTask
        /\ \/ pc'[t] = "readers_only" /\ after' = "read" /\ ReaderAtFront
           \/ pc'[t] = "read" /\ after' = after
  BY DEF rwsem_downgrade_wake, Lock
<1>3. do_wake_busy(t) => Moves(t) /\ pc[t] = "do_wake" /\ pc'[t] = "undo"
  BY DEF do_wake_busy
<1>4. do_wake_writer(t) => Moves(t) /\ pc[t] = "do_wake" /\ pc'[t] = "wake_writer"
  BY DEF do_wake_writer
<1>5. do_wake_readers(t) => Moves(t) /\ pc[t] = "do_wake" /\ pc'[t] = "readers_only"
  BY DEF do_wake_readers
<1>6. do_wake_undo(t) => Moves(t) /\ pc[t] = "undo" /\ pc'[t] \in {"do_wake", after}
  BY DEF do_wake_undo
<1>7. readers_only(t) => Moves(t) /\ pc[t] = "readers_only" /\ pc'[t] = "readers"
  BY DEF readers_only
<1>8. readers_loop(t) => Moves(t) /\ pc[t] = "readers" /\ pc'[t] = "wake_reader"
  BY DEF readers_loop
<1>9. readers_done(t) => Moves(t) /\ pc[t] = "readers" /\ pc'[t] = after
  BY DEF readers_done, Unlock
<1>10. wake_reader(t) => Moves(t) /\ pc[t] = "wake_reader" /\ pc'[t] = "readers"
  BY DEF wake_reader
<1>11. wake_writer(t) => Moves(t) /\ pc[t] = "wake_writer" /\ pc'[t] = after
  BY DEF wake_writer, Unlock
<1> QED
  BY <1>1, <1>2, <1>3, <1>4, <1>5, <1>6, <1>7, <1>8, <1>9, <1>10, <1>11

(* A task outside of the wait loop and of the wake-up path is not linked;   *)
(* one in the wake-up path only if it came from the wait loop.              *)
LEMMA NotLinked ==
  ASSUME Base, Listed, NEW t \in Task,
         \/ pc[t] \notin {"wait", "schedule"} \cup OwnerPC
         \/ pc[t] \in OwnerPC /\ after # "wait"
         \/ waiter[t] = NoTask
  PROVE  \A i \in 1..Len(wait_list) : wait_list[i] # t
BY TaskAssumption DEF Listed, Linkage, OwnerPC

(* Records are linked by their owner, and unlinked before it may leave. *)
LEMMA ListedNext == Base /\ Listed /\ [Next]_vars => Listed'
<1> SUFFICES ASSUME Base, Listed, [Next]_vars PROVE Listed'
  OBVIOUS
<1> USE DEF waiters, tasks, locals, Deciding, OwnerPC
<1>0. /\ flags \in [Task -> Flags] /\ after \in {"idle", "read", "wait"}
      /\ \A i \in 1..Len(wait_list) : wait_list[i] \in Task
      /\ \A t \in Task : pc[t] \in Deciding => wait_list # <<>> /\ loop = 0
      /\ loop \in Nat /\ loop <= Len(wait_list)
  BY DEF Base, Types, Path
<1>1. CASE UNCHANGED vars
  BY <1>1 DEF vars, Listed, Linkage, FrontIsRead, OwnRecord
<1>2. ASSUME NEW t \in Task, Acquire(t) PROVE Listed'
  <2>1. \A i \in 1..Len(wait_list) : wait_list[i] # t
    BY <1>2, MoveFacts, NotLinked DEF Acquire
  <2>2. \A i \in 1..Len(wait_list) : flags'[wait_list[i]] = flags[wait_list[i]]
    BY <1>0, <1>2, <2>1
    DEF Acquire, down_read, down_write, down_read_trylock, down_write_trylock
  <2>3. UNCHANGED <<wait_list, waiter, loop, after>>
    BY <1>2 DEF Acquire, down_read, down_write, down_read_trylock, down_write_trylock
  <2> QED
    BY <1>2, <2>1, <2>2, <2>3, MoveFacts, ListedMove DEF Acquire
<1>3. ASSUME NEW t \in Task, wait_check(t) PROVE Listed'
  <2>1. \/ \A i \in 1..Len(wait_list) : wait_list[i] # t
        \/ pc'[t] = "schedule"
    BY <1>3, MoveFacts, NotLinked
  <2>2. Moves(t) /\ pc'[t] \in {"read", "write", "schedule"}
    BY <1>0, <1>3, MoveFacts DEF Flags
  <2>3. UNCHANGED <<wait_list, waiter, flags, loop, after>>
    BY <1>3 DEF wait_check
  <2> QED
    BY <2>1, <2>2, <2>3, ListedMove
<1>4. ASSUME NEW t \in Task, schedule_return(t) PROVE Listed'
  BY <1>4, MoveFacts, ListedMove DEF schedule_return
<1>5. ASSUME NEW t \in Task, up_read(t) PROVE Listed'
  BY <1>5, MoveFacts, NotLinked, ListedMove DEF up_read
<1>6. ASSUME NEW t \in Task, up_write(t) PROVE Listed'
  BY <1>6, MoveFacts, NotLinked, ListedMove DEF up_write
<1>7. ASSUME NEW t \in Task, downgrade_write(t) PROVE Listed'
  BY <1>7, MoveFacts, NotLinked, ListedMove DEF downgrade_write
<1>8. ASSUME NEW t \in Task, down_failed(t) PROVE Listed'
  BY <1>8, ListedAppend
<1>9. ASSUME NEW t \in Task, rwsem_wake(t) PROVE Listed'
  BY <1>9, ContendFacts, NotLinked, ListedMove DEF rwsem_wake
<1>10. ASSUME NEW t \in Task, rwsem_downgrade_wake(t) PROVE Listed'
  BY <1>10, ContendFacts, NotLinked, ListedMove DEF rwsem_downgrade_wake
<1>11. ASSUME NEW t \in Task, do_wake_busy(t) PROVE Listed'
  <2>1. after = "wait" \/ \A i \in 1..Len(wait_list) : wait_list[i] # t
    BY <1>11, ContendFacts, NotLinked
  <2> QED
    BY <1>11, <2>1, ContendFacts, ListedMove DEF do_wake_busy, Listed, OwnRecord
<1>12. ASSUME NEW t \in Task, do_wake_writer(t) PROVE Listed'
  BY <1>0, <1>12, ContendFacts, ListedPop DEF do_wake_writer
<1>13. ASSUME NEW t \in Task, do_wake_readers(t) PROVE Listed'
  <2>1. after = "wait" \/ \A i \in 1..Len(wait_list) : wait_list[i] # t
    BY <1>13, ContendFacts, NotLinked
  <2> QED
    BY <1>13, <2>1, ContendFacts, ListedMove DEF do_wake_readers, Listed, OwnRecord
<1>14. ASSUME NEW t \in Task, do_wake_undo(t) PROVE Listed'
  <2>1. after = "wait" \/ \A i \in 1..Len(wait_list) : wait_list[i] # t
    BY <1>14, ContendFacts, NotLinked
  <2> QED
    BY <1>0, <1>14, <2>1, ContendFacts, ListedMove DEF do_wake_undo, Listed, OwnRecord
<1>15. ASSUME NEW t \in Task, readers_only(t) PROVE Listed'
  <2>1. after = "wait" \/ \A i \in 1..Len(wait_list) : wait_list[i] # t
    BY <1>15, ContendFacts, NotLinked
  <2>2. \A i \in 1..loop' : flags[wait_list[i]] = "read"
    BY <1>0, <1>15, FrontReadersType
    DEF readers_only, Base, Listed, FrontIsRead, ReaderAtFront
  <2>3. /\ Moves(t) /\ pc[t] = "readers_only" /\ pc'[t] = "readers"
        /\ UNCHANGED <<wait_list, waiter, flags, after>>
        /\ \A u \in Task \ {t} : pc[u] \notin OwnerPC
    BY <1>15, ContendFacts, Alone DEF readers_only
  <2>4. Linkage'
    BY <1>0, <2>1, <2>3 DEF Listed, Linkage, Moves
  <2>5. FrontIsRead' /\ OwnRecord'
    BY <2>2, <2>3 DEF FrontIsRead, OwnRecord, Moves
  <2> QED
    BY <2>4, <2>5 DEF Listed
<1>16. ASSUME NEW t \in Task, readers_loop(t) PROVE Listed'
  <2>1. wait_list # <<>> /\ loop - 1 \in Nat
    BY <1>0, <1>16 DEF readers_loop, Base, Types
  <2> QED
    BY <1>0, <1>16, <2>1, ContendFacts, ListedPop DEF readers_loop
<1>17. ASSUME NEW t \in Task, readers_done(t) PROVE Listed'
  BY <1>0, <1>17, ContendFacts, NotLinked, ListedMove DEF readers_done
<1>18. ASSUME NEW t \in Task, wake_reader(t) PROVE Listed'
  BY <1>0, <1>18, ContendFacts, NotLinked, ListedMove DEF wake_reader
<1>19. ASSUME NEW t \in Task, wake_writer(t) PROVE Listed'
  BY <1>0, <1>19, ContendFacts, NotLinked, ListedMove DEF wake_writer
<1>20. ASSUME NEW t \in Task, spurious_wakeup(t) PROVE Listed'
  BY <1>20, MoveFacts, ListedMove DEF spurious_wakeup
<1>21. ASSUME NEW t \in Task, do_exit(t) PROVE Listed'
  BY <1>21, MoveFacts, NotLinked, ListedMove DEF do_exit
<1> QED
  BY <1>1, <1>2, <1>3, <1>4, <1>5, <1>6, <1>7, <1>8, <1>9, <1>10, <1>11, <1>12,
     <1>13, <1>14, <1>15, <1>16, <1>17, <1>18, <1>19, <1>20, <1>21
  DEF Next, Contend
-----------------------------------------------------------------------------
(* Who counts in sem->count: Active tasks one each in its lower half, a     *)
(* waker's attempt one more; writers and ungranted records in its upper.    *)
ActiveTasks == Readers \cup Writers \cup Failed("read") \cup Failed("write")

Attempt == {t \in Task : \/ pc[t] = "undo"
                         \/ pc[t] = "readers_only" /\ after # "read"}

Waiting == Cardinality(Writers) + Cardinality(Failed("write"))
             + (Len(wait_list) - loop)

CountExact ==
  count = Cardinality(ActiveTasks) + Cardinality(Attempt) - Waiting * WaitingUnit

WriterAlone ==
  /\ \A t, u \in Writers : t = u
  /\ Writers = {} \/ Readers = {}

(* No writer gets in while a waker that found the active part zero makes up *)
(* its mind to wake readers.                                                *)
ReadersOnlyPhase == \A t \in Task : pc[t] = "readers_only" => Writers = {}

Count == CountExact /\ WriterAlone /\ ReadersOnlyPhase

(* Exclusion, in these words. *)
LEMMA ExclusionIs == ASSUME Base PROVE Exclusion <=> CountExact /\ WriterAlone
<1>1. Cardinality(Writers) \in Int /\ Cardinality(Failed("write")) \in Int
  BY TaskAssumption, FS_Subset, FS_CardinalityType DEF Writers, Failed
<1>2. Len(wait_list) \in Nat /\ loop \in Nat
  BY DEF Base, Types
<1>3. Cardinality(Writers) + Cardinality(Failed("write")) + Len(wait_list) - loop = Waiting
  BY <1>1, <1>2 DEF Waiting
<1> QED
  BY <1>3 DEF Exclusion, CountExact, WriterAlone, ActiveTasks, Attempt

(* Sets of tasks are finite. *)
LEMMA CountSubset ==
  ASSUME NEW S \in SUBSET Task
  PROVE  /\ IsFiniteSet(S) /\ Cardinality(S) \in Nat
         /\ Cardinality(S) <= Cardinality(Task) /\ Cardinality(Task) \in Nat
         /\ Cardinality(S) = 0 <=> S = {}
BY TaskAssumption, FS_Subset, FS_CardinalityType, FS_EmptySet

(* Two sets of tasks that differ at most in t. *)
LEMMA CountOne ==
  ASSUME NEW S \in SUBSET Task, NEW T \in SUBSET Task, NEW t \in Task,
         \A u \in Task \ {t} : u \in S <=> u \in T
  PROVE  Cardinality(T) = Cardinality(S) + (IF t \in T THEN 1 ELSE 0)
                                         - (IF t \in S THEN 1 ELSE 0)
<1>0. IsFiniteSet(S) /\ Cardinality(S) \in Nat
  BY CountSubset
<1>1. CASE t \in S /\ t \in T
  <2>1. S = T
    BY <1>1
  <2> QED
    BY <1>0, <1>1, <2>1
<1>2. CASE t \notin S /\ t \notin T
  <2>1. S = T
    BY <1>2
  <2> QED
    BY <1>0, <1>2, <2>1
<1>3. CASE t \in S /\ t \notin T
  <2>1. T = S \ {t}
    BY <1>3
  <2> QED
    BY <1>0, <1>3, <2>1, FS_RemoveElement
<1>4. CASE t \notin S /\ t \in T
  <2>1. T = S \cup {t}
    BY <1>4
  <2> QED
    BY <1>0, <1>4, <2>1, FS_AddElement
<1> QED
  BY <1>1, <1>2, <1>3, <1>4

(* The active part stays below one unit, so a comparison of the whole count *)
(* tells its two parts apart.                                               *)
LEMMA Units ==
  ASSUME NEW s \in Nat, NEW w \in Nat, s < WaitingUnit
  PROVE  /\ s - w * WaitingUnit >= 0 => w = 0
         /\ s - w * WaitingUnit = 0 => s = 0
         /\ Active(s - w * WaitingUnit) = s
<1> DEFINE U == WaitingUnit
           x == s - w * U
           q == x \div U
           r == x % U
<1>0. U \in Nat /\ U > 0
  BY UnitAssumption
<1> HIDE DEF U
<1>1. \A k \in Int : k >= 1 => k * U >= U
  BY <1>0
<1>2. x >= 0 => w = 0
  <2>1. w >= 1 => w * U >= U
    BY <1>1
  <2>2. w * U \in Int
    BY <1>0
  <2> QED
    BY <1>0, <2>1, <2>2 DEF U
<1>3. x = 0 => s = 0
  BY <1>0, <1>2
<1>4. x \in Int
  BY <1>0
<1>5. x = U * q + r /\ r \in 0..(U - 1) /\ q \in Int
  <2> HIDE DEF x
  <2> QED
    BY <1>0, <1>4
<1>6. (q + w) * U = s - r
  <2> HIDE DEF q, r
  <2>1. x = s - w * U
    OBVIOUS
  <2> QED
    BY <1>0, <1>5, <2>1
<1>7. q + w = 0
  <2> HIDE DEF q, r, x
  <2>1. q + w >= 1 => (q + w) * U >= U
    BY <1>1, <1>5
  <2>2. q + w <= -1 => (-(q + w)) * U >= U
    BY <1>1, <1>5
  <2>3. (-(q + w)) * U = r - s
    BY <1>0, <1>5, <1>6
  <2> QED
    BY <1>0, <1>5, <1>6, <2>1, <2>2, <2>3 DEF U
<1>8. r = s
  <2> HIDE DEF q, r, x
  <2> QED
    BY <1>0, <1>5, <1>6, <1>7
<1> QED
  BY <1>2, <1>3, <1>8 DEF U, Active

(* A task granted when its record was unlinked, or about to be. *)
Woken(u) == /\ waiter[u] = NoTask
            /\ \/ pc[u] \in {"wait", "schedule"}
               \/ pc[u] \in OwnerPC /\ after = "wait"

InFront(u) == \E i \in 1..loop : wait_list[i] = u

(* Granted, in these words. *)
LEMMA GrantedIs == \A u \in Task : Granted(u) <=> Woken(u) \/ InFront(u)
BY DEF Granted, Woken, InFront

(* Holding, in these words, before and after a step. *)
LEMMA Holding ==
  ASSUME NEW u \in Task
  PROVE  /\ u \in Readers <=> \/ pc[u] \in {"read", "downgrade_wake"}
                              \/ pc[u] \in OwnerPC /\ after = "read"
                              \/ flags[u] = "read" /\ (Woken(u) \/ InFront(u))
         /\ u \in Writers <=> \/ pc[u] = "write"
                              \/ flags[u] = "write" /\ (Woken(u) \/ InFront(u))
<1>1. Granted(u) <=> Woken(u) \/ InFront(u)
  BY GrantedIs
<1> QED
  BY <1>1 DEF Readers, Writers

(* The same in the state after a step. *)
LEMMA HoldingAfter ==
  ASSUME NEW u \in Task
  PROVE  /\ u \in Readers' <=> \/ pc'[u] \in {"read", "downgrade_wake"}
                               \/ pc'[u] \in OwnerPC /\ after' = "read"
                               \/ flags'[u] = "read" /\ (Woken(u)' \/ InFront(u)')
         /\ u \in Writers' <=> \/ pc'[u] = "write"
                               \/ flags'[u] = "write" /\ (Woken(u)' \/ InFront(u)')
<1>1. Granted(u)' <=> Woken(u)' \/ InFront(u)'
  BY DEF Granted, Woken, InFront
<1> QED
  BY <1>1 DEF Readers, Writers

(* A task released together with others is still linked, as a reader. *)
LEMMA InFrontFacts ==
  ASSUME Base, Listed, NEW u \in Task
  PROVE  /\ InFront(u) => /\ \E i \in 1..Len(wait_list) : wait_list[i] = u
                          /\ flags[u] = "read" /\ ~Woken(u)
                          /\ pc[u] \in {"wait", "schedule"} \cup OwnerPC
                          /\ pc[u] \in OwnerPC => after = "wait"
         /\ loop = 0 => ~InFront(u)
<1>1. loop \in Nat /\ loop <= Len(wait_list) /\ Len(wait_list) \in Nat
  BY DEF Base, Types, Path
<1>2. ASSUME NEW i \in 1..loop, wait_list[i] = u
      PROVE  /\ i \in 1..Len(wait_list) /\ flags[u] = "read" /\ ~Woken(u)
             /\ pc[u] \in {"wait", "schedule"} \cup OwnerPC
             /\ pc[u] \in OwnerPC => after = "wait"
  <2>1. i \in 1..Len(wait_list)
    BY <1>1
  <2> QED
    BY <1>2, <2>1, TaskAssumption DEF Listed, Linkage, FrontIsRead, Woken
<1>3. loop = 0 => ~InFront(u)
  BY DEF InFront
<1> QED
  BY <1>2, <1>3 DEF InFront

(* What a task is to the count is the same before and after a step. *)
Same(u) ==
  /\ u \in Readers' <=> u \in Readers
  /\ u \in Writers' <=> u \in Writers
  /\ u \in Failed("read")' <=> u \in Failed("read")
  /\ u \in Failed("write")' <=> u \in Failed("write")
  /\ u \in Attempt' <=> u \in Attempt

Bit(u, S) == IF u \in S THEN 1 ELSE 0

(* The sets are sets of tasks. *)
LEMMA SetsOfTasks ==
  /\ Readers \in SUBSET Task /\ Writers \in SUBSET Task /\ Attempt \in SUBSET Task
  /\ Failed("read") \in SUBSET Task /\ Failed("write") \in SUBSET Task
  /\ ActiveTasks \in SUBSET Task
  /\ Readers' \in SUBSET Task /\ Writers' \in SUBSET Task /\ Attempt' \in SUBSET Task
  /\ Failed("read")' \in SUBSET Task /\ Failed("write")' \in SUBSET Task
  /\ ActiveTasks' \in SUBSET Task
BY DEF Readers, Writers, Attempt, Failed, ActiveTasks

(* The arithmetic of such a step: active tasks A, attempts T, writers W,    *)
(* failed writers F and ungranted records L, with a lower case letter for   *)
(* what the step adds to each.                                              *)
LEMMA Sums ==
  ASSUME NEW U \in Int, NEW A \in Int, NEW T \in Int, NEW W \in Int, NEW F \in Int,
         NEW L \in Int, NEW a \in Int, NEW t \in Int, NEW w \in Int, NEW f \in Int,
         NEW l \in Int
  PROVE  (A + T - (W + F + L) * U) + (a + t) - (w + f + l) * U =
           (A + a) + (T + t) - ((W + w) + (F + f) + (L + l)) * U
<1>1. (W + w) + (F + f) + (L + l) = (W + F + L) + (w + f + l)
  OBVIOUS
<1>2. ((W + F + L) + (w + f + l)) * U = (W + F + L) * U + (w + f + l) * U
  OBVIOUS
<1>3. (W + F + L) * U \in Int /\ (w + f + l) * U \in Int
  OBVIOUS
<1> QED
  BY <1>1, <1>2, <1>3

(* A step that changes what at most one task is to the count: a is what it  *)
(* adds to the active part, w to the waiting part.                          *)
LEMMA CountDelta ==
  ASSUME Base, CountExact, NEW x \in Task, \A u \in Task \ {x} : Same(u),
         NEW l \in Int, (Len(wait_list) - loop)' = (Len(wait_list) - loop) + l,
         count' = count + (Bit(x, ActiveTasks') - Bit(x, ActiveTasks)
                            + (Bit(x, Attempt') - Bit(x, Attempt)))
                        - (Bit(x, Writers') - Bit(x, Writers)
                            + (Bit(x, Failed("write")') - Bit(x, Failed("write"))) + l)
                          * WaitingUnit
  PROVE  CountExact'
<1> DEFINE A == Cardinality(ActiveTasks)
           T == Cardinality(Attempt)
           W == Cardinality(Writers)
           F == Cardinality(Failed("write"))
           L == Len(wait_list) - loop
           a == Bit(x, ActiveTasks') - Bit(x, ActiveTasks)
           t == Bit(x, Attempt') - Bit(x, Attempt)
           w == Bit(x, Writers') - Bit(x, Writers)
           f == Bit(x, Failed("write")') - Bit(x, Failed("write"))
<1>1. A \in Int /\ T \in Int /\ W \in Int /\ F \in Int
  BY SetsOfTasks, CountSubset
<1>2. L \in Int /\ WaitingUnit \in Int /\ count \in Int
  BY UnitAssumption DEF Base, Types
<1>3. a \in Int /\ t \in Int /\ w \in Int /\ f \in Int
  BY DEF Bit
<1>4. Cardinality(ActiveTasks') = A + a
  <2>1. \A u \in Task \ {x} : u \in ActiveTasks <=> u \in ActiveTasks'
    BY DEF Same, ActiveTasks
  <2> QED
    BY <2>1, SetsOfTasks, CountOne DEF Bit
<1>5. Cardinality(Attempt') = T + t
  BY SetsOfTasks, CountOne DEF Bit, Same
<1>6. Cardinality(Writers') = W + w
  BY SetsOfTasks, CountOne DEF Bit, Same
<1>7. Cardinality(Failed("write")') = F + f
  BY SetsOfTasks, CountOne DEF Bit, Same
<1>8. count = A + T - (W + F + L) * WaitingUnit
  BY DEF CountExact, Waiting
<1>9. count' = count + (a + t) - (w + f + l) * WaitingUnit
  OBVIOUS
<1>10. CountExact' <=>
         count' = (A + a) + (T + t) - ((W + w) + (F + f) + (L + l)) * WaitingUnit
  BY <1>4, <1>5, <1>6, <1>7 DEF CountExact, Waiting
<1> HIDE DEF A, T, W, F, L, a, t, w, f
<1>11. (A + T - (W + F + L) * WaitingUnit) + (a + t) - (w + f + l) * WaitingUnit =
         (A + a) + (T + t) - ((W + w) + (F + f) + (L + l)) * WaitingUnit
  BY <1>1, <1>2, <1>3, Sums
<1> QED
  BY <1>8, <1>9, <1>10, <1>11

(* A step of t that leaves the list alone changes nobody else. *)
LEMMA OthersSame ==
  ASSUME Base, NEW t \in Task, Moves(t), UNCHANGED <<wait_list, waiter, loop>>,
         after' = after \/ wait_lock = NoTask,
         \A u \in Task \ {t} : flags'[u] = flags[u]
  PROVE  /\ \A u \in Task \ {t} : Same(u)
         /\ \A u \in Task : InFront(u)' <=> InFront(u)
<1>1. \A u \in Task : InFront(u)' <=> InFront(u)
  BY DEF InFront
<1>2. ASSUME NEW u \in Task \ {t}
      PROVE  Same(u)
  <2>1. /\ pc'[u] = pc[u] /\ flags'[u] = flags[u] /\ waiter'[u] = waiter[u]
        /\ pc[u] \in OwnerPC => after' = after
    BY Alone DEF Moves
  <2>2. Woken(u)' <=> Woken(u)
    BY <2>1 DEF Woken
  <2>3. /\ u \in Readers' <=> u \in Readers
        /\ u \in Writers' <=> u \in Writers
    BY <1>1, <2>1, <2>2, Holding, HoldingAfter
  <2>4. /\ u \in Failed("read")' <=> u \in Failed("read")
        /\ u \in Failed("write")' <=> u \in Failed("write")
        /\ u \in Attempt' <=> u \in Attempt
    BY <2>1 DEF Failed, Attempt, OwnerPC
  <2> QED
    BY <2>3, <2>4 DEF Same
<1> QED
  BY <1>1, <1>2

(* What a task is to the count, from where it is. *)
Places ==
  \A t \in Task :
    /\ pc[t] \in {"idle", "dead", "rwsem_wake"} =>
         t \notin ActiveTasks /\ t \notin Writers /\ t \notin Failed("write") /\ t \notin Attempt
    /\ pc[t] = "failed" =>
         /\ t \in ActiveTasks /\ t \notin Writers /\ t \notin Readers /\ t \notin Attempt
         /\ t \in Failed("write") <=> flags[t] = "write"
    /\ pc[t] \in {"read", "downgrade_wake"} =>
         /\ t \in ActiveTasks /\ t \in Readers /\ t \notin Writers
         /\ t \notin Failed("write") /\ t \notin Attempt
    /\ pc[t] = "write" =>
         /\ t \in ActiveTasks /\ t \in Writers /\ t \notin Readers
         /\ t \notin Failed("write") /\ t \notin Attempt
    /\ pc[t] \in {"wait", "schedule"} \cup OwnerPC =>
         /\ t \notin Failed("read") /\ t \notin Failed("write")
         /\ t \in ActiveTasks <=> t \in Readers \/ t \in Writers
    /\ t \in Attempt => t \notin ActiveTasks /\ t \notin Writers /\ loop = 0

(* Places follows from where the records are. *)
LEMMA PlacesHold == Base /\ Listed => Places
<1> SUFFICES ASSUME Base, Listed, NEW t \in Task
             PROVE  Places!(t)
  BY DEF Places
<1> USE DEF OwnerPC, PC
<1>1. /\ flags[t] \in {"read", "write"} /\ pc[t] \in PC
  BY DEF Base, Types, Flags
<1>2. /\ InFront(t) => /\ flags[t] = "read" /\ ~Woken(t)
                       /\ pc[t] \in {"wait", "schedule"} \cup OwnerPC
                       /\ pc[t] \in OwnerPC => after = "wait"
      /\ loop = 0 => ~InFront(t)
  BY InFrontFacts
<1>3. Woken(t) => /\ pc[t] \in {"wait", "schedule"} \cup OwnerPC
                  /\ pc[t] \in OwnerPC => after = "wait"
                  /\ waiter[t] = NoTask
  BY DEF Woken
<1>4. t \in Attempt => /\ pc[t] \in Deciding /\ after # "read" /\ loop = 0 /\ ~Woken(t)
  BY TaskAssumption DEF Attempt, Deciding, Base, Path, Listed, OwnRecord, Woken
<1>5. \A f \in {"read", "write"} : t \in Failed(f) <=> pc[t] = "failed" /\ flags[t] = f
  BY DEF Failed
<1>6. t \in Attempt => pc[t] \in {"undo", "readers_only"}
  BY DEF Attempt
<1>7. t \in ActiveTasks <=> \/ t \in Readers \/ t \in Writers
                            \/ t \in Failed("read") \/ t \in Failed("write")
  BY DEF ActiveTasks
<1> QED
  BY <1>1, <1>2, <1>3, <1>4, <1>5, <1>6, <1>7, Holding DEF Deciding

(* The same after a step. *)
LEMMA PlacesAfter == Base' /\ Listed' => Places'
BY PlacesHold, PTL

(* What the two halves of the count say, and what they say with one more    *)
(* active task that is not counted yet.                                     *)
LEMMA CountParts ==
  ASSUME Base, Listed, CountExact
  PROVE  /\ Waiting \in Nat
         /\ Active(count) = 0 => ActiveTasks = {} /\ Attempt = {}
         /\ Active(count) \in Nat
         /\ count >= 0 => Waiting = 0
         /\ count = 0 => ActiveTasks = {} /\ Attempt = {} /\ Waiting = 0
         /\ \A t \in Task \ (ActiveTasks \cup Attempt) :
              count + 1 >= 0 => Waiting = 0
<1> DEFINE A == Cardinality(ActiveTasks)
           T == Cardinality(Attempt)
           N == Cardinality(Task)
<1>1. /\ A \in Nat /\ T \in Nat /\ N \in Nat
      /\ A = 0 <=> ActiveTasks = {}
      /\ T = 0 <=> Attempt = {}
  BY SetsOfTasks, CountSubset
<1>2. Waiting \in Nat
  <2>1. Cardinality(Writers) \in Nat /\ Cardinality(Failed("write")) \in Nat
    BY SetsOfTasks, CountSubset
  <2>2. Len(wait_list) - loop \in Nat
    BY DEF Base, Types, Path
  <2> QED
    BY <2>1, <2>2 DEF Waiting
<1>3. A + T = Cardinality(ActiveTasks \cup Attempt)
  <2>1. ActiveTasks \cap Attempt = {}
    BY PlacesHold, SetsOfTasks DEF Places
  <2>2. IsFiniteSet(ActiveTasks) /\ IsFiniteSet(Attempt)
    BY SetsOfTasks, CountSubset
  <2>3. Cardinality(ActiveTasks \cup Attempt) = A + T - Cardinality(ActiveTasks \cap Attempt)
    BY <2>2, FS_Union
  <2>4. Cardinality(ActiveTasks \cap Attempt) = 0
    BY <2>1, FS_EmptySet
  <2> HIDE DEF A, T
  <2> QED
    BY <1>1, <2>3, <2>4
<1>4. A + T <= N
  BY <1>3, SetsOfTasks, CountSubset
<1>5. ASSUME NEW t \in Task \ (ActiveTasks \cup Attempt) PROVE A + T + 1 <= N
  <2>1. A + T + 1 = Cardinality((ActiveTasks \cup Attempt) \cup {t})
    BY <1>3, SetsOfTasks, CountSubset, FS_AddElement
  <2>2. (ActiveTasks \cup Attempt) \cup {t} \in SUBSET Task
    BY SetsOfTasks
  <2> QED
    BY <2>1, <2>2, CountSubset
<1>6. N < WaitingUnit /\ WaitingUnit \in Nat
  BY UnitAssumption
<1>7. count = (A + T) - Waiting * WaitingUnit
  <2>1. count = A + T - Waiting * WaitingUnit
    BY DEF CountExact
  <2>2. Waiting * WaitingUnit \in Int
    BY <1>2, <1>6
  <2> HIDE DEF A, T
  <2> QED
    BY <1>1, <2>1, <2>2
<1> HIDE DEF A, T, N
<1>8. A + T \in Nat /\ A + T < WaitingUnit
  BY <1>1, <1>4, <1>6
<1>9. /\ count >= 0 => Waiting = 0
      /\ count = 0 => A + T = 0
      /\ Active(count) = A + T
  <2> HIDE DEF Waiting
  <2>1. /\ (A + T) - Waiting * WaitingUnit >= 0 => Waiting = 0
        /\ (A + T) - Waiting * WaitingUnit = 0 => A + T = 0
        /\ Active((A + T) - Waiting * WaitingUnit) = A + T
    BY <1>2, <1>8, Units
  <2> QED
    BY <1>7, <2>1
<1>10. ASSUME NEW t \in Task \ (ActiveTasks \cup Attempt) PROVE count + 1 >= 0 => Waiting = 0
  <2>1. (A + T + 1) - Waiting * WaitingUnit >= 0 => Waiting = 0
    BY <1>1, <1>2, <1>5, <1>6, Units
  <2>2. Waiting * WaitingUnit \in Int
    BY <1>2, <1>6
  <2> QED
    BY <1>1, <1>7, <2>1, <2>2
<1> QED
  BY <1>1, <1>2, <1>8, <1>9, <1>10

(* Nobody counted as waiting: no writer, and every record is granted. *)
LEMMA NobodyWaits ==
  ASSUME Base, Waiting = 0
  PROVE  Writers = {} /\ Failed("write") = {} /\ Len(wait_list) = loop
<1>1. Cardinality(Writers) \in Nat /\ Cardinality(Failed("write")) \in Nat
  BY SetsOfTasks, CountSubset
<1>2. Len(wait_list) - loop \in Nat /\ Len(wait_list) \in Nat /\ loop \in Nat
  BY DEF Base, Types, Path
<1>3. /\ Cardinality(Writers) = 0 /\ Cardinality(Failed("write")) = 0
      /\ Len(wait_list) - loop = 0
  BY <1>1, <1>2 DEF Waiting
<1> QED
  BY <1>2, <1>3, SetsOfTasks, CountSubset

(* Exclusion when at most x changes: it may join the readers when there is  *)
(* no writer or it was the writer, and become a writer when it was alone.   *)
LEMMA AloneStep ==
  ASSUME WriterAlone, NEW x \in Task, \A u \in Task \ {x} : Same(u),
         ~(x \in Readers' /\ x \in Writers'),
         x \in Readers' => x \in Readers \cup Writers \/ Writers = {},
         x \in Writers' => x \in Writers \/ Readers \cup Writers = {}
  PROVE  WriterAlone'
<1>1. \A u \in Task \ {x} : /\ u \in Readers' <=> u \in Readers
                            /\ u \in Writers' <=> u \in Writers
  BY DEF Same
<1>2. /\ Readers \subseteq Task /\ Writers \subseteq Task
      /\ Readers' \subseteq Task /\ Writers' \subseteq Task
  BY SetsOfTasks
<1>3. \A u, v \in Writers' : u = v
  BY <1>1, <1>2 DEF WriterAlone
<1>4. Writers' = {} \/ Readers' = {}
  <2> SUFFICES ASSUME NEW u \in Writers', NEW v \in Readers' PROVE FALSE
    OBVIOUS
  <2>1. CASE u = x
    BY <1>1, <1>2, <2>1 DEF WriterAlone
  <2>2. CASE u # x
    BY <1>1, <1>2, <2>2 DEF WriterAlone
  <2> QED
    BY <2>1, <2>2
<1> QED
  BY <1>3, <1>4 DEF WriterAlone

(* The count and exclusion over a step that changes at most x: it adds a to *)
(* the active part, w to the waiting part, l to the ungranted records.      *)
LEMMA CountStep ==
  ASSUME Base, Count, NEW x \in Task, \A u \in Task \ {x} : Same(u),
         NEW a \in Int, NEW w \in Int, NEW l \in Int,
         (Len(wait_list) - loop)' = (Len(wait_list) - loop) + l,
         a = Bit(x, ActiveTasks') - Bit(x, ActiveTasks)
               + (Bit(x, Attempt') - Bit(x, Attempt)),
         w = Bit(x, Writers') - Bit(x, Writers)
               + (Bit(x, Failed("write")') - Bit(x, Failed("write"))) + l,
         count' = count + a - w * WaitingUnit,
         ~(x \in Readers' /\ x \in Writers'),
         x \in Readers' => x \in Readers \cup Writers \/ Writers = {},
         x \in Writers' => x \in Writers \/ Readers \cup Writers = {},
         \A u \in Task : pc'[u] = "readers_only" =>
           /\ pc[u] = "readers_only" \/ Writers = {}
           /\ x \notin Writers' \/ x \in Writers
  PROVE  Count'
<1>1. CountExact'
  BY CountDelta DEF Count
<1>2. WriterAlone'
  BY AloneStep DEF Count
<1>3. ReadersOnlyPhase'
  <2> SUFFICES ASSUME NEW u \in Task, pc'[u] = "readers_only", NEW v \in Writers'
               PROVE  FALSE
    BY DEF ReadersOnlyPhase
  <2>1. Writers = {} /\ v \in Task /\ v \in Writers'
    BY SetsOfTasks DEF Count, ReadersOnlyPhase
  <2>2. v = x
    BY <2>1 DEF Same
  <2> QED
    BY <2>1, <2>2
<1> QED
  BY <1>1, <1>2, <1>3 DEF Count

(* A fast path: the task is counted as active at once, and what the count   *)
(* was tells whether it got the semaphore.                                  *)
LEMMA CountAcquire ==
  ASSUME Base, Listed, Count, Base', Listed', NEW t \in Task, Acquire(t)
  PROVE  /\ Count' /\ t \notin Readers \cup Writers
         /\ Readers' = IF pc'[t] = "read" THEN Readers \cup {t} ELSE Readers
         /\ Writers' = IF pc'[t] = "write" THEN Writers \cup {t} ELSE Writers
         /\ pc'[t] = "read" => Waiting = 0
         /\ pc'[t] = "write" => Waiting = 0 /\ Readers \cup Writers = {}
<1> USE DEF ACTIVE_BIAS, WAITING_BIAS, ACTIVE_WRITE_BIAS, tasks, locals, waiters
<1>1. /\ Moves(t) /\ pc[t] = "idle" /\ pc'[t] \in {"read", "write", "failed"}
      /\ UNCHANGED <<wait_list, wait_lock, waiter, loop, after>>
      /\ \A u \in Task \ {t} : flags'[u] = flags[u]
  <2>1. Moves(t) /\ pc[t] = "idle" /\ pc'[t] \in {"read", "write", "failed"}
    BY MoveFacts DEF Acquire
  <2> QED
    BY <2>1 DEF Acquire, down_read, down_write, down_read_trylock, down_write_trylock,
                Base, Types
<1>2. \A u \in Task \ {t} : Same(u)
  BY <1>1, OthersSame
<1>3. /\ t \notin ActiveTasks /\ t \notin Writers /\ t \notin Failed("write")
      /\ t \notin Attempt
  BY <1>1, PlacesHold DEF Places
<1>4. /\ t \in ActiveTasks' /\ t \notin Attempt' /\ ~(t \in Readers' /\ t \in Writers')
      /\ t \in Writers' <=> pc'[t] = "write"
      /\ t \in Readers' <=> pc'[t] = "read"
      /\ t \in Failed("write")' <=> pc'[t] = "failed" /\ flags'[t] = "write"
  BY <1>1, PlacesAfter DEF Places
<1>5. \A u \in Task : pc'[u] = "readers_only" => pc[u] = "readers_only"
  BY <1>1 DEF Moves
<1>6. /\ Bit(t, ActiveTasks) = 0 /\ Bit(t, Attempt) = 0 /\ Bit(t, Writers) = 0
      /\ Bit(t, Failed("write")) = 0 /\ Bit(t, ActiveTasks') = 1 /\ Bit(t, Attempt') = 0
  BY <1>3, <1>4 DEF Bit
<1>7. (Len(wait_list) - loop)' = (Len(wait_list) - loop) + 0 /\ count \in Int
      /\ WaitingUnit \in Int
  BY <1>1, UnitAssumption DEF Base, Types
<1>8. count + 1 >= 0 => Waiting = 0 /\ Writers = {}
  BY <1>3, CountParts, NobodyWaits DEF Count
<1>9. count = 0 => /\ Waiting = 0 /\ Readers \cup Writers = {}
                   /\ \A u \in Task : pc[u] # "readers_only"
  <2>1. count = 0 => ActiveTasks = {} /\ Waiting = 0
    BY CountParts DEF Count
  <2>2. ASSUME NEW u \in Task, pc[u] = "readers_only" PROVE Waiting # 0
    BY <2>2, NobodyWaits DEF Base, Types, Path, Deciding
  <2> QED
    BY <2>1, <2>2 DEF ActiveTasks
<1>10. ASSUME down_read(t) \/ down_read_trylock(t)
       PROVE  Count' /\ pc'[t] # "write" /\ (pc'[t] = "read" => Waiting = 0)
  <2>1. /\ count' = count + 1
        /\ \/ pc'[t] = "read" /\ count + 1 >= 0
           \/ pc'[t] = "failed" /\ flags'[t] = "read"
    BY <1>7, <1>10 DEF down_read, down_read_trylock, Goto, Base, Types
  <2>2. Bit(t, Writers') = 0 /\ Bit(t, Failed("write")') = 0 /\ t \notin Writers'
    BY <1>4, <2>1 DEF Bit
  <2>3. count' = count + 1 - 0 * WaitingUnit
    BY <1>7, <2>1
  <2>4. Count'
    BY <1>2, <1>4, <1>5, <1>6, <1>7, <1>8, <2>1, <2>2, <2>3, CountStep
  <2> QED
    BY <1>8, <2>1, <2>4
<1>11. ASSUME down_write(t) \/ down_write_trylock(t)
       PROVE  /\ Count' /\ pc'[t] # "read"
              /\ pc'[t] = "write" => Waiting = 0 /\ Readers \cup Writers = {}
  <2>1. /\ count' = count + 1 - 1 * WaitingUnit
        /\ \/ pc'[t] = "write" /\ count = 0
           \/ pc'[t] = "failed" /\ flags'[t] = "write"
    BY <1>7, <1>11 DEF down_write, down_write_trylock, Goto, Base, Types
  <2>2. Bit(t, Writers') + Bit(t, Failed("write")') = 1 /\ t \notin Readers'
    BY <1>4, <2>1 DEF Bit
  <2>3. 1 = Bit(t, Writers') - 0 + (Bit(t, Failed("write")') - 0) + 0
    BY <1>4, <2>1 DEF Bit
  <2>4. \A u \in Task : pc'[u] = "readers_only" => t \notin Writers'
    BY <1>4, <1>5, <1>9, <2>1
  <2>5. Count'
    BY <1>2, <1>4, <1>5, <1>6, <1>7, <1>9, <2>1, <2>2, <2>3, <2>4, CountStep
  <2> QED
    BY <1>9, <2>1, <2>5
<1>12. /\ Count' /\ (pc'[t] = "read" => Waiting = 0)
       /\ pc'[t] = "write" => Waiting = 0 /\ Readers \cup Writers = {}
  BY <1>10, <1>11 DEF Acquire
<1>13. /\ t \notin Readers \cup Writers
       /\ Readers' = IF pc'[t] = "read" THEN Readers \cup {t} ELSE Readers
       /\ Writers' = IF pc'[t] = "write" THEN Writers \cup {t} ELSE Writers
  <2>1. t \notin Readers /\ t \notin Writers
    BY <1>3 DEF ActiveTasks
  <2> QED
    BY <1>2, <1>4, <2>1, SetsOfTasks DEF Same
<1> QED
  BY <1>12, <1>13

(* A release: the holder leaves the count with what it had added to it. *)
LEMMA CountRelease ==
  ASSUME Base, Listed, Count, Base', Listed', NEW t \in Task,
         up_read(t) \/ up_write(t) \/ downgrade_write(t)
  PROVE  /\ Count'
         /\ up_read(t) => t \in Readers /\ Readers' = Readers \ {t} /\ Writers' = Writers
         /\ up_write(t) => t \in Writers /\ Writers' = Writers \ {t} /\ Readers' = Readers
         /\ downgrade_write(t) => /\ t \in Writers /\ Writers' = Writers \ {t}
                                  /\ Readers' = Readers \cup {t}
<1> USE DEF ACTIVE_BIAS, WAITING_BIAS, ACTIVE_WRITE_BIAS, tasks, locals, waiters
<1>1. /\ Moves(t) /\ UNCHANGED <<wait_list, wait_lock, waiter, flags, loop, after>>
      /\ pc'[t] \in {"idle", "rwsem_wake", "read", "downgrade_wake"}
  BY MoveFacts DEF up_read, up_write, downgrade_write
<1>2. \A u \in Task \ {t} : Same(u)
  BY <1>1, OthersSame
<1>3. \A u \in Task : pc'[u] = "readers_only" => pc[u] = "readers_only"
  BY <1>1 DEF Moves
<1>4. /\ (Len(wait_list) - loop)' = (Len(wait_list) - loop) + 0
      /\ count \in Int /\ WaitingUnit \in Int
  BY <1>1, UnitAssumption DEF Base, Types
<1>5. Places /\ Places'
  BY PlacesHold, PlacesAfter
<1>6. ASSUME up_read(t) PROVE Count'
  <2>1. pc[t] = "read" /\ pc'[t] \in {"idle", "rwsem_wake"}
    BY <1>6, MoveFacts
  <2>2. /\ Bit(t, ActiveTasks) = 1 /\ Bit(t, Attempt) = 0 /\ Bit(t, Writers) = 0
        /\ Bit(t, Failed("write")) = 0 /\ Bit(t, ActiveTasks') = 0 /\ Bit(t, Attempt') = 0
        /\ Bit(t, Writers') = 0 /\ Bit(t, Failed("write")') = 0
        /\ t \notin Readers' /\ t \notin Writers'
    BY <1>5, <2>1 DEF Bit, Places, ActiveTasks
  <2>3. count' = count + (-1) - 0 * WaitingUnit
    BY <1>4, <1>6 DEF up_read
  <2> QED
    BY <1>2, <1>3, <1>4, <2>2, <2>3, CountStep
<1>7. ASSUME up_write(t) PROVE Count'
  <2>1. pc[t] = "write" /\ pc'[t] \in {"idle", "rwsem_wake"}
    BY <1>7, MoveFacts
  <2>2. /\ Bit(t, ActiveTasks) = 1 /\ Bit(t, Attempt) = 0 /\ Bit(t, Writers) = 1
        /\ Bit(t, Failed("write")) = 0 /\ Bit(t, ActiveTasks') = 0 /\ Bit(t, Attempt') = 0
        /\ Bit(t, Writers') = 0 /\ Bit(t, Failed("write")') = 0
        /\ t \notin Readers' /\ t \notin Writers'
    BY <1>5, <2>1 DEF Bit, Places, ActiveTasks
  <2>3. count' = count + (-1) - (-1) * WaitingUnit
    BY <1>4, <1>7 DEF up_write
  <2> QED
    BY <1>2, <1>3, <1>4, <2>2, <2>3, CountStep
<1>8. ASSUME downgrade_write(t) PROVE Count'
  <2>1. pc[t] = "write" /\ pc'[t] \in {"read", "downgrade_wake"}
    BY <1>8, MoveFacts
  <2>2. /\ Bit(t, ActiveTasks) = 1 /\ Bit(t, Attempt) = 0 /\ Bit(t, Writers) = 1
        /\ Bit(t, Failed("write")) = 0 /\ Bit(t, ActiveTasks') = 1 /\ Bit(t, Attempt') = 0
        /\ Bit(t, Writers') = 0 /\ Bit(t, Failed("write")') = 0
        /\ t \in Writers /\ t \notin Writers'
    BY <1>5, <2>1 DEF Bit, Places, ActiveTasks
  <2>3. count' = count + 0 - (-1) * WaitingUnit
    BY <1>4, <1>8 DEF downgrade_write
  <2> QED
    BY <1>2, <1>3, <1>4, <2>2, <2>3, CountStep
<1>9. up_read(t) => t \in Readers /\ Readers' = Readers \ {t} /\ Writers' = Writers
  <2>1. up_read(t) => /\ t \in Readers /\ t \notin Readers'
                      /\ t \notin Writers /\ t \notin Writers'
    BY <1>5, MoveFacts DEF Places, ActiveTasks
  <2> QED
    BY <1>2, <2>1, SetsOfTasks DEF Same
<1>10. up_write(t) => t \in Writers /\ Writers' = Writers \ {t} /\ Readers' = Readers
  <2>1. up_write(t) => /\ t \in Writers /\ t \notin Writers'
                       /\ t \notin Readers /\ t \notin Readers'
    BY <1>5, MoveFacts DEF Places, ActiveTasks
  <2> QED
    BY <1>2, <2>1, SetsOfTasks DEF Same
<1>11. downgrade_write(t) => /\ t \in Writers /\ Writers' = Writers \ {t}
                             /\ Readers' = Readers \cup {t}
  <2>1. downgrade_write(t) => t \in Writers /\ t \notin Writers' /\ t \in Readers'
    BY <1>5, MoveFacts DEF Places
  <2> QED
    BY <1>2, <2>1, SetsOfTasks DEF Same
<1>12. Count'
  BY <1>6, <1>7, <1>8
<1> QED
  BY <1>9, <1>10, <1>11, <1>12

(* A step that changes nobody: the count stays as it is. *)
LEMMA CountQuiet ==
  ASSUME Base, Listed, Count, \A u \in Task : Same(u),
         (Len(wait_list) - loop)' = Len(wait_list) - loop, UNCHANGED count,
         \A u \in Task : pc'[u] = "readers_only" =>
           pc[u] = "readers_only" \/ Writers = {}
  PROVE  Count' /\ Readers' = Readers /\ Writers' = Writers
<1>1. /\ Readers' = Readers /\ Writers' = Writers /\ Attempt' = Attempt
      /\ Failed("write")' = Failed("write") /\ ActiveTasks' = ActiveTasks
  BY SetsOfTasks DEF Same, ActiveTasks
<1>2. Waiting' = Waiting
  BY <1>1 DEF Waiting
<1> QED
  BY <1>1, <1>2 DEF Count, CountExact, WriterAlone, ReadersOnlyPhase

(* Waiting, waking and entering or leaving the wake-up path change nobody's *)
(* part in the count.                                                       *)
LEMMA CountOther ==
  ASSUME Base, Listed, Count, Base', Listed', NEW t \in Task,
         \/ wait_check(t) \/ schedule_return(t) \/ spurious_wakeup(t) \/ do_exit(t)
         \/ rwsem_wake(t) \/ rwsem_downgrade_wake(t) \/ readers_done(t)
         \/ wake_reader(t) \/ wake_writer(t)
  PROVE  Count' /\ Readers' = Readers /\ Writers' = Writers
<1> USE DEF tasks, locals, waiters
<1>1. /\ Moves(t) /\ UNCHANGED <<count, wait_list, waiter, flags, loop>>
      /\ after' = after \/ wait_lock = NoTask
  BY MoveFacts, ContendFacts
  DEF wait_check, schedule_return, spurious_wakeup, do_exit, rwsem_wake,
      rwsem_downgrade_wake, readers_done, wake_reader, wake_writer
<1>2. /\ \A u \in Task \ {t} : Same(u)
      /\ InFront(t)' <=> InFront(t)
  BY <1>1, OthersSame
<1>3. Places /\ Places'
  BY PlacesHold, PlacesAfter
<1>4. \A u \in Task \ {t} : pc'[u] = pc[u]
  BY <1>1 DEF Moves
<1>5. /\ InFront(t) => /\ pc[t] \in {"wait", "schedule"} \cup OwnerPC
                       /\ pc[t] \in OwnerPC => after = "wait"
                       /\ ~Woken(t)
      /\ flags[t] \in {"read", "write"} /\ after \in {"idle", "read", "wait"}
  BY InFrontFacts DEF Base, Types, Flags
<1>6. Same(t) /\ (pc'[t] = "readers_only" => pc[t] = "readers_only" \/ Writers = {})
  <2>1. CASE wait_check(t)
    <3>1. /\ pc[t] = "wait" /\ after' = after
          /\ waiter[t] = NoTask => pc'[t] = flags[t]
          /\ waiter[t] # NoTask => pc'[t] = "schedule"
      BY <2>1, MoveFacts DEF wait_check
    <3>2. CASE waiter[t] = NoTask
      <4>1. Woken(t) /\ pc'[t] = flags[t]
        BY <3>1, <3>2 DEF Woken
      <4> QED
        BY <1>1, <1>5, <3>1, <4>1, Holding, HoldingAfter DEF Same, Failed, Attempt, OwnerPC
    <3>3. CASE waiter[t] # NoTask
      <4>1. ~Woken(t) /\ ~Woken(t)' /\ pc'[t] = "schedule"
        BY <1>1, <3>1, <3>3 DEF Woken
      <4> QED
        BY <1>1, <1>2, <3>1, <4>1, Holding, HoldingAfter DEF Same, Failed, Attempt, OwnerPC
    <3> QED
      BY <3>2, <3>3
  <2>2. CASE schedule_return(t) \/ spurious_wakeup(t)
    <3>1. /\ pc[t] \in {"wait", "schedule"} /\ pc'[t] \in {"wait", "schedule"}
          /\ Woken(t)' <=> Woken(t)
      BY <1>1, <2>2, MoveFacts DEF spurious_wakeup, Woken
    <3> QED
      BY <1>1, <1>2, <3>1, Holding, HoldingAfter DEF Same, Failed, Attempt, OwnerPC
  <2>3. CASE do_exit(t) \/ (rwsem_wake(t) /\ pc'[t] = "idle")
    <3>1. /\ pc[t] \in {"idle", "rwsem_wake"} /\ pc'[t] \in {"idle", "dead"}
      BY <2>3, MoveFacts, ContendFacts
    <3> QED
      BY <1>1, <1>3, <3>1 DEF Places, Same, ActiveTasks
  <2>4. CASE rwsem_wake(t) /\ pc'[t] = "do_wake"
    <3>1. pc[t] = "rwsem_wake" /\ pc'[t] = "do_wake" /\ after' = "idle"
      BY <2>4, ContendFacts
    <3>2. ~Woken(t)' /\ ~InFront(t)
      BY <1>5, <3>1 DEF Woken, OwnerPC
    <3> QED
      BY <1>1, <1>2, <1>3, <3>1, <3>2, HoldingAfter
      DEF Places, Same, ActiveTasks, Failed, Attempt
  <2>5. CASE rwsem_downgrade_wake(t)
    <3>1. /\ pc[t] = "downgrade_wake"
          /\ pc'[t] = "read" \/ (pc'[t] = "readers_only" /\ after' = "read")
      BY <2>5, ContendFacts
    <3>2. t \in Readers /\ t \in Readers' /\ Writers = {}
      BY <1>3, <3>1, HoldingAfter DEF Places, OwnerPC, Count, WriterAlone
    <3>3. t \notin Writers'
      BY <1>2, <1>5, <3>1, HoldingAfter DEF Woken, OwnerPC
    <3> QED
      BY <3>1, <3>2, <3>3 DEF Same, Failed, Attempt
  <2>6. CASE readers_done(t) \/ wake_writer(t)
    <3>1. pc[t] \in {"readers", "wake_writer"} /\ pc'[t] = after /\ after' = after
      BY <2>6, ContendFacts DEF readers_done, wake_writer
    <3>2. after # "wait" => ~Woken(t) /\ ~InFront(t) /\ ~Woken(t)'
      BY <1>5, <3>1 DEF Woken, OwnerPC
    <3>3. after = "wait" => (Woken(t)' <=> Woken(t))
      BY <1>1, <3>1 DEF Woken, OwnerPC
    <3> QED
      BY <1>1, <1>2, <1>5, <3>1, <3>2, <3>3, Holding, HoldingAfter
      DEF Same, Failed, Attempt, OwnerPC
  <2>7. CASE wake_reader(t)
    <3>1. pc[t] = "wake_reader" /\ pc'[t] = "readers" /\ after' = after
      BY <2>7, ContendFacts DEF wake_reader
    <3>2. Woken(t)' <=> Woken(t)
      BY <1>1, <3>1 DEF Woken, OwnerPC
    <3> QED
      BY <1>1, <1>2, <3>1, <3>2, Holding, HoldingAfter DEF Same, Failed, Attempt, OwnerPC
  <2> QED
    BY <2>1, <2>2, <2>3, <2>4, <2>5, <2>6, <2>7, ContendFacts
<1>7. (Len(wait_list) - loop)' = Len(wait_list) - loop
  BY <1>1
<1> QED
  BY <1>1, <1>2, <1>4, <1>6, <1>7, CountQuiet

(* The waker's attempt adds one to the active part, or takes it back. *)
LEMMA CountAttempt ==
  ASSUME Base, Listed, Count, Base', Listed', NEW t \in Task,
         do_wake_busy(t) \/ do_wake_readers(t) \/ do_wake_undo(t)
  PROVE  Count' /\ Readers' = Readers /\ Writers' = Writers
<1> USE DEF ACTIVE_BIAS, tasks, locals, waiters
<1>1. /\ Moves(t) /\ UNCHANGED <<wait_list, waiter, flags, loop, after>>
      /\ pc[t] \in OwnerPC /\ after # "read"
      /\ pc'[t] \in {"undo", "readers_only", "do_wake", after}
  BY ContendFacts DEF do_wake_busy, do_wake_readers, do_wake_undo, OwnerPC, Base, Path
<1>2. /\ \A u \in Task \ {t} : Same(u)
      /\ InFront(t)' <=> InFront(t)
  BY <1>1, OthersSame
<1>3. /\ InFront(t) => after = "wait"
      /\ after \in {"idle", "read", "wait"}
  BY <1>1, InFrontFacts DEF Base, Types
<1>4. /\ t \in Readers' <=> t \in Readers
      /\ t \in Writers' <=> t \in Writers
      /\ t \in ActiveTasks' <=> t \in ActiveTasks
      /\ t \notin Failed("write") /\ t \notin Failed("write")'
  <2>1. after = "wait" => (Woken(t)' <=> Woken(t))
    BY <1>1 DEF Woken, OwnerPC
  <2>2. after # "wait" => ~Woken(t) /\ ~Woken(t)'
    BY <1>1, <1>3 DEF Woken, OwnerPC
  <2>3. /\ pc[t] # "failed" /\ pc'[t] # "failed"
    BY <1>1, <1>3 DEF OwnerPC
  <2>4. /\ t \notin Failed("read") /\ t \notin Failed("read")'
        /\ t \notin Failed("write") /\ t \notin Failed("write")'
    BY <2>3 DEF Failed
  <2>5. /\ t \in Readers' <=> t \in Readers
        /\ t \in Writers' <=> t \in Writers
    BY <1>1, <1>2, <1>3, <2>1, <2>2, Holding, HoldingAfter DEF OwnerPC
  <2> QED
    BY <2>4, <2>5 DEF ActiveTasks
<1>5. /\ (Len(wait_list) - loop)' = (Len(wait_list) - loop) + 0
      /\ count \in Int /\ WaitingUnit \in Int
  BY <1>1, UnitAssumption DEF Base, Types
<1>6. /\ Bit(t, ActiveTasks') = Bit(t, ActiveTasks) /\ Bit(t, Writers') = Bit(t, Writers)
      /\ Bit(t, Failed("write")') = 0 /\ Bit(t, Failed("write")) = 0
      /\ Bit(t, ActiveTasks) \in Int /\ Bit(t, Writers) \in Int
  BY <1>4 DEF Bit
<1>7. ~(t \in Readers' /\ t \in Writers')
  BY <1>4 DEF Count, WriterAlone
<1>8. \A u \in Task \ {t} : pc'[u] = "readers_only" => pc[u] = "readers_only"
  BY <1>1 DEF Moves
<1>9. ASSUME do_wake_busy(t) \/ do_wake_readers(t) PROVE Count'
  <2>1. /\ pc[t] = "do_wake" /\ pc'[t] \in {"undo", "readers_only"}
        /\ count' = count + 1
        /\ pc'[t] = "readers_only" => Active(count) = 0
    BY <1>9, ContendFacts DEF do_wake_busy, do_wake_readers
  <2>2. Bit(t, Attempt) = 0 /\ Bit(t, Attempt') = 1
    BY <1>1, <2>1 DEF Bit, Attempt
  <2>3. count' = count + 1 - 0 * WaitingUnit
    BY <1>5, <2>1
  <2>4. pc'[t] = "readers_only" => Writers = {}
    BY <2>1, CountParts DEF Count, ActiveTasks
  <2> QED
    BY <1>2, <1>4, <1>5, <1>6, <1>7, <1>8, <2>2, <2>3, <2>4, CountStep
<1>10. ASSUME do_wake_undo(t) PROVE Count'
  <2>1. pc[t] = "undo" /\ pc'[t] \in {"do_wake", after} /\ count' = count - 1
    BY <1>10, ContendFacts DEF do_wake_undo
  <2>2. Bit(t, Attempt) = 1 /\ Bit(t, Attempt') = 0
    BY <1>1, <1>3, <2>1 DEF Bit, Attempt
  <2>3. count' = count + (-1) - 0 * WaitingUnit
    BY <1>5, <2>1
  <2>4. pc'[t] # "readers_only"
    BY <1>3, <2>1
  <2> QED
    BY <1>2, <1>4, <1>5, <1>6, <1>7, <1>8, <2>2, <2>3, <2>4, CountStep
<1>11. Count'
  BY <1>9, <1>10
<1>12. Readers' = Readers /\ Writers' = Writers
  BY <1>2, <1>4, SetsOfTasks DEF Same
<1> QED
  BY <1>11, <1>12

(* A task that stays where it is, or moves inside of the wake-up path away  *)
(* from its attempt, with its record left alone.                            *)
LEMMA SameTask ==
  ASSUME NEW u \in Task, flags'[u] = flags[u], waiter'[u] = waiter[u],
         InFront(u)' <=> InFront(u),
         pc[u] \in OwnerPC => after' = after,
         \/ pc'[u] = pc[u]
         \/ {pc[u], pc'[u]} \subseteq OwnerPC \ {"undo", "readers_only"}
  PROVE  Same(u)
<1>1. Woken(u)' <=> Woken(u)
  BY DEF Woken, OwnerPC
<1>2. /\ u \in Readers' <=> u \in Readers
      /\ u \in Writers' <=> u \in Writers
  BY <1>1, Holding, HoldingAfter DEF OwnerPC
<1>3. /\ u \in Failed("read")' <=> u \in Failed("read")
      /\ u \in Failed("write")' <=> u \in Failed("write")
      /\ u \in Attempt' <=> u \in Attempt
  BY DEF Failed, Attempt, OwnerPC
<1> QED
  BY <1>2, <1>3 DEF Same

(* rwsem_down_failed_common undoes the fast path: the task is no longer     *)
(* active, and its record stands for it in the waiting part.                *)
LEMMA CountAppend ==
  ASSUME Base, Listed, Count, Base', Listed', NEW t \in Task, down_failed(t)
  PROVE  /\ Count' /\ Readers' = Readers /\ Writers' = Writers
         /\ t \notin Readers \cup Writers
<1>1. /\ pc[t] = "failed" /\ wait_lock = NoTask /\ Moves(t) /\ flags' = flags
      /\ pc'[t] \in {"wait", "do_wake"} /\ (pc'[t] = "do_wake" => after' = "wait")
      /\ waiter' = [waiter EXCEPT ![t] = t] /\ wait_list' = Append(wait_list, t)
      /\ loop = 0 /\ loop' = 0 /\ waiter \in [Task -> Task \cup {NoTask}]
      /\ flags[t] \in {"read", "write"}
  BY DEF down_failed, Lock, Goto, Moves, Base, Types, Path, PC, OwnerPC, Flags
<1>2. \A u \in Task : ~InFront(u) /\ ~InFront(u)'
  BY <1>1 DEF InFront
<1>3. \A u \in Task \ {t} : Same(u)
  <2> SUFFICES ASSUME NEW u \in Task \ {t} PROVE Same(u)
    OBVIOUS
  <2>1. pc[u] \notin OwnerPC /\ pc'[u] = pc[u] /\ waiter'[u] = waiter[u]
    BY <1>1, Alone DEF Moves
  <2> QED
    BY <1>1, <1>2, <2>1, SameTask
<1>4. /\ t \in ActiveTasks /\ t \notin Writers /\ t \notin Attempt
      /\ t \in Failed("write") <=> flags[t] = "write"
  BY <1>1, PlacesHold DEF Places
<1>5. /\ t \notin Readers' /\ t \notin Writers' /\ t \notin Attempt'
      /\ t \notin Failed("write")' /\ t \notin ActiveTasks'
  <2>1. ~Woken(t)'
    BY <1>1, TaskAssumption DEF Woken
  <2>2. t \notin Readers' /\ t \notin Writers'
    BY <1>1, <1>2, <2>1, HoldingAfter DEF OwnerPC
  <2>3. t \notin Attempt' /\ t \notin Failed("read")' /\ t \notin Failed("write")'
    BY <1>1 DEF Attempt, Failed
  <2> QED
    BY <2>2, <2>3 DEF ActiveTasks
<1>6. (Len(wait_list) - loop)' = (Len(wait_list) - loop) + 1
  <2>1. wait_list \in Seq(Task) /\ wait_list' = Append(wait_list, t)
    BY <1>1 DEF Base, Types
  <2>2. Len(wait_list') = Len(wait_list) + 1 /\ Len(wait_list) \in Nat
    BY <2>1
  <2> QED
    BY <1>1, <2>2
<1>7. \A u \in Task : pc'[u] = "readers_only" => pc[u] = "readers_only"
  BY <1>1 DEF Moves
<1>8. /\ Bit(t, ActiveTasks) = 1 /\ Bit(t, Attempt) = 0 /\ Bit(t, Writers) = 0
      /\ Bit(t, ActiveTasks') = 0 /\ Bit(t, Attempt') = 0 /\ Bit(t, Writers') = 0
      /\ Bit(t, Failed("write")') = 0
      /\ Bit(t, Failed("write")) = IF flags[t] = "write" THEN 1 ELSE 0
  BY <1>4, <1>5 DEF Bit
<1>9. count \in Int /\ WaitingUnit \in Int /\ count' = count + Adjustment(flags[t])
  BY UnitAssumption DEF Base, Types, down_failed
<1>10. ASSUME flags[t] = "read" PROVE Count'
  <2>1. count' = count + (-1) - 1 * WaitingUnit
    BY <1>9, <1>10 DEF Adjustment, ACTIVE_BIAS, WAITING_BIAS
  <2>2. Bit(t, Failed("write")) = 0
    BY <1>8, <1>10
  <2> QED
    BY <1>3, <1>5, <1>6, <1>7, <1>8, <2>1, <2>2, CountStep
<1>11. ASSUME flags[t] = "write" PROVE Count'
  <2>1. count' = count + (-1) - 0 * WaitingUnit
    BY <1>9, <1>11 DEF Adjustment, ACTIVE_BIAS, WAITING_BIAS
  <2>2. Bit(t, Failed("write")) = 1
    BY <1>8, <1>11
  <2> QED
    BY <1>3, <1>5, <1>6, <1>7, <1>8, <2>1, <2>2, CountStep
<1>12. t \notin Readers /\ t \notin Writers
  BY <1>1, PlacesHold DEF Places
<1>13. Readers' = Readers /\ Writers' = Writers
  BY <1>3, <1>5, <1>12, SetsOfTasks DEF Same
<1> QED
  BY <1>1, <1>10, <1>11, <1>12, <1>13

(* __rwsem_do_wake grants the semaphore to the writer at the front: the     *)
(* active part was zero, so nobody held it.                                 *)
LEMMA CountWriter ==
  ASSUME Base, Listed, Count, Base', Listed', NEW t \in Task, do_wake_writer(t)
  PROVE  /\ Count' /\ Readers \cup Writers = {}
         /\ Readers' = {} /\ Writers' = {Head(wait_list)} /\ flags[Head(wait_list)] = "write"
<1>1. /\ Moves(t) /\ pc[t] = "do_wake" /\ pc'[t] = "wake_writer"
      /\ waiter' = [waiter EXCEPT ![Head(wait_list)] = NoTask]
      /\ wait_list' = Tail(wait_list) /\ UNCHANGED <<flags, loop, after>> /\ count' = count + 1
      /\ Active(count) = 0 /\ ~ReaderAtFront
  BY ContendFacts DEF do_wake_writer, ACTIVE_BIAS
<1>2. /\ loop = 0 /\ wait_list # <<>> /\ wait_list \in Seq(Task)
      /\ waiter \in [Task -> Task \cup {NoTask}] /\ flags \in [Task -> Flags]
      /\ count \in Int /\ WaitingUnit \in Int
  BY <1>1, UnitAssumption DEF Base, Path, Types, Deciding
<1>3. PICK h \in Task : /\ h = Head(wait_list) /\ h = wait_list[1]
                        /\ 1 \in 1..Len(wait_list)
  BY <1>2
<1>4. flags[h] = "write"
  BY <1>1, <1>2, <1>3 DEF ReaderAtFront, Flags
<1>5. ActiveTasks = {} /\ Attempt = {} /\ Readers \cup Writers = {}
  BY <1>1, CountParts DEF Count, ActiveTasks
<1>6. \A u \in Task : ~InFront(u) /\ ~InFront(u)'
  BY <1>1, <1>2 DEF InFront
<1>7. \A u \in Task \ {h} : Same(u)
  <2> SUFFICES ASSUME NEW u \in Task \ {h} PROVE Same(u)
    OBVIOUS
  <2>1. waiter'[u] = waiter[u]
    BY <1>1, <1>2, <1>3
  <2>2. pc'[u] = pc[u] \/ {pc[u], pc'[u]} \subseteq OwnerPC \ {"undo", "readers_only"}
    BY <1>1 DEF Moves, OwnerPC
  <2> QED
    BY <1>1, <1>6, <2>1, <2>2, SameTask
<1>8. /\ h \in Writers' /\ h \notin Readers' /\ h \notin Attempt'
      /\ h \notin Failed("write")'
  <2>1. pc[h] \in {"wait", "schedule"} \/ (h = t /\ after = "wait")
    BY <1>1, <1>3, Alone DEF Listed, Linkage, OwnerPC
  <2>2. \/ pc'[h] \in {"wait", "schedule"}
        \/ pc'[h] = "wake_writer" /\ after' = "wait"
    BY <1>1, <2>1, <1>3 DEF Moves, OwnerPC
  <2>3. waiter'[h] = NoTask
    BY <1>1, <1>2, <1>3
  <2>4. Woken(h)'
    BY <2>2, <2>3 DEF Woken, OwnerPC
  <2> QED
    BY <1>1, <1>3, <1>4, <1>6, <2>2, <2>4, HoldingAfter DEF Attempt, Failed, OwnerPC
<1>9. (Len(wait_list) - loop)' = (Len(wait_list) - loop) + (-1)
  <2>1. Len(wait_list') = Len(wait_list) - 1 /\ Len(wait_list) \in Nat
    BY <1>1, <1>2
  <2> QED
    BY <1>1, <1>2, <2>1
<1>10. /\ Bit(h, ActiveTasks) = 0 /\ Bit(h, Attempt) = 0 /\ Bit(h, Writers) = 0
       /\ Bit(h, Failed("write")) = 0 /\ Bit(h, ActiveTasks') = 1
       /\ Bit(h, Attempt') = 0 /\ Bit(h, Writers') = 1 /\ Bit(h, Failed("write")') = 0
  <2>1. /\ h \notin ActiveTasks /\ h \notin Attempt /\ h \notin Writers
        /\ h \notin Failed("write")
    BY <1>5 DEF ActiveTasks
  <2>2. h \in ActiveTasks'
    BY <1>8 DEF ActiveTasks
  <2> QED
    BY <1>8, <2>1, <2>2 DEF Bit
<1>11. \A u \in Task : pc'[u] # "readers_only"
  BY <1>1, Alone DEF Moves, OwnerPC
<1>12. count' = count + 1 - 0 * WaitingUnit
  BY <1>1, <1>2
<1>13. /\ 1 = Bit(h, ActiveTasks') - Bit(h, ActiveTasks)
                + (Bit(h, Attempt') - Bit(h, Attempt))
       /\ 0 = Bit(h, Writers') - Bit(h, Writers)
                + (Bit(h, Failed("write")') - Bit(h, Failed("write"))) + (-1)
  BY <1>10
<1>14. Count'
  BY <1>5, <1>7, <1>8, <1>9, <1>11, <1>12, <1>13, CountStep
<1>15. Readers' = {} /\ Writers' = {h}
  BY <1>5, <1>7, <1>8, SetsOfTasks DEF Same
<1> QED
  BY <1>3, <1>4, <1>5, <1>14, <1>15

(* The loop over the readers releases one that counted as a holder already. *)
LEMMA CountLoop ==
  ASSUME Base, Listed, Count, Base', Listed', NEW t \in Task, readers_loop(t)
  PROVE  Count' /\ Readers' = Readers /\ Writers' = Writers
<1>1. /\ Moves(t) /\ pc[t] = "readers" /\ pc'[t] = "wake_reader" /\ loop > 0
      /\ waiter' = [waiter EXCEPT ![Head(wait_list)] = NoTask]
      /\ wait_list' = Tail(wait_list) /\ UNCHANGED <<count, flags, after>>
      /\ loop' = loop - 1
  BY ContendFacts DEF readers_loop
<1>2. /\ loop \in Nat /\ loop <= Len(wait_list) /\ wait_list \in Seq(Task)
      /\ waiter \in [Task -> Task \cup {NoTask}] /\ Len(wait_list) \in Nat
  <2>1. loop <= Len(wait_list)
    BY DEF Base, Path
  <2> QED
    BY <2>1 DEF Base, Types
<1>3. PICK h \in Task : /\ h = Head(wait_list) /\ h = wait_list[1]
                        /\ 1 \in 1..Len(wait_list) /\ 1 \in 1..loop
  <2>1. 1 \in 1..Len(wait_list) /\ 1 \in 1..loop
    BY <1>1, <1>2
  <2>2. wait_list # <<>> /\ wait_list \in Seq(Task)
    BY <1>2, <2>1
  <2>3. Head(wait_list) \in Task /\ Head(wait_list) = wait_list[1]
    BY <2>2
  <2> QED
    BY <2>1, <2>3
<1>4. \A i \in 1..(Len(wait_list) - 1) : wait_list'[i] = wait_list[i + 1]
  BY <1>1, <1>2
<1>5. ASSUME NEW u \in Task \ {h} PROVE InFront(u)' <=> InFront(u)
  <2>1. PICK k \in Nat : k = loop - 1
    BY <1>1, <1>2
  <2>2. InFront(u)' <=> \E i \in 1..k : wait_list'[i] = u
    BY <1>1, <2>1 DEF InFront
  <2>3. ASSUME NEW i \in 1..k, wait_list'[i] = u PROVE InFront(u)
    <3>1. i + 1 \in 1..loop /\ i \in 1..(Len(wait_list) - 1)
      BY <1>2, <2>1
    <3> QED
      BY <1>4, <2>3, <3>1 DEF InFront
  <2>4. ASSUME NEW i \in 1..loop, wait_list[i] = u PROVE \E j \in 1..k : wait_list'[j] = u
    <3>1. i # 1
      BY <1>3, <2>4
    <3>2. i - 1 \in 1..k /\ i - 1 \in 1..(Len(wait_list) - 1) /\ (i - 1) + 1 = i
      BY <1>2, <2>1, <3>1
    <3>3. wait_list'[i - 1] = u
      BY <1>4, <2>4, <3>2
    <3> QED
      BY <3>2, <3>3
  <2> QED
    BY <2>2, <2>3, <2>4 DEF InFront
<1>6. \A u \in Task \ {h} : Same(u)
  <2> SUFFICES ASSUME NEW u \in Task \ {h} PROVE Same(u)
    OBVIOUS
  <2>1. waiter'[u] = waiter[u]
    BY <1>1, <1>2, <1>3
  <2>2. pc'[u] = pc[u] \/ {pc[u], pc'[u]} \subseteq OwnerPC \ {"undo", "readers_only"}
    BY <1>1 DEF Moves, OwnerPC
  <2> QED
    BY <1>1, <1>5, <2>1, <2>2, SameTask
<1>7. Same(h)
  <2>1. InFront(h) /\ flags[h] = "read"
    BY <1>3 DEF InFront, Listed, FrontIsRead
  <2>2. /\ pc[h] \in {"wait", "schedule"} \cup OwnerPC
        /\ pc[h] \in OwnerPC => after = "wait"
    BY <2>1, InFrontFacts
  <2>3. /\ pc'[h] \in {"wait", "schedule"} \cup OwnerPC
        /\ pc'[h] \in OwnerPC => after' = "wait"
        /\ pc[h] = pc'[h] \/ h = t
    BY <1>1, <2>2 DEF Moves, OwnerPC
  <2>4. waiter'[h] = NoTask
    BY <1>1, <1>2, <1>3
  <2>5. Woken(h)'
    BY <2>3, <2>4 DEF Woken
  <2>6. h \in Readers /\ h \in Readers'
    BY <1>1, <2>1, <2>5, Holding, HoldingAfter
  <2>7. h \notin Writers /\ h \notin Writers'
    BY <1>1, <2>1, <2>2, <2>3, Holding, HoldingAfter DEF OwnerPC
  <2>8. /\ h \notin Failed("read") /\ h \notin Failed("write")
        /\ h \notin Failed("read")' /\ h \notin Failed("write")'
    BY <2>2, <2>3 DEF Failed, OwnerPC
  <2>9. h \notin Attempt /\ h \notin Attempt'
    <3>1. /\ pc[h] \notin {"undo", "readers_only"}
          /\ pc'[h] \notin {"undo", "readers_only"}
      BY <1>1, <2>2, <2>3, Alone DEF OwnerPC
    <3> QED
      BY <3>1 DEF Attempt
  <2> QED
    BY <2>6, <2>7, <2>8, <2>9 DEF Same
<1>8. (Len(wait_list) - loop)' = Len(wait_list) - loop
  <2>1. Len(wait_list') = Len(wait_list) - 1
    BY <1>1, <1>2, <1>3
  <2> QED
    BY <1>1, <1>2, <2>1
<1>9. \A u \in Task : pc'[u] = "readers_only" => pc[u] = "readers_only"
  BY <1>1 DEF Moves
<1> QED
  BY <1>1, <1>6, <1>7, <1>8, <1>9, CountQuiet

(* A list without repetitions has as many members as its length. *)
LEMMA FrontSize ==
  ASSUME Base, Listed, NEW n \in Nat, n <= Len(wait_list)
  PROVE  Cardinality({wait_list[i] : i \in 1..n}) = n
<1> DEFINE S == {wait_list[i] : i \in 1..n}
           f == [i \in 1..n |-> wait_list[i]]
<1>1. Len(wait_list) \in Nat /\ 1..n \subseteq 1..Len(wait_list)
  BY DEF Base, Types
<1>2. \A i, j \in 1..n : wait_list[i] = wait_list[j] => i = j
  BY <1>1 DEF Listed, Linkage
<1>3. f \in [1..n -> S] /\ (\A i, j \in 1..n : f[i] = f[j] => i = j)
      /\ \A s \in S : \E i \in 1..n : f[i] = s
  BY <1>2
<1>4. f \in Bijection(1..n, S)
  BY <1>3 DEF Bijection, Injection, Surjection, IsInjective
<1>5. ExistsBijection(1..n, S)
  BY <1>4 DEF ExistsBijection
<1> QED
  BY <1>5, FS_CountingElements

(* readers_only grants the semaphore to the n readers at the front at once: *)
(* they move from the waiting part to the active part.                      *)
LEMMA CountReaders ==
  ASSUME Base, Listed, Count, Base', Listed', NEW t \in Task, readers_only(t)
  PROVE  /\ Count' /\ Writers = {} /\ Writers' = {}
         /\ \E n \in 1..Len(wait_list) :
              /\ loop = 0 /\ loop' = n /\ \A i \in 1..n : flags[wait_list[i]] = "read"
              /\ Readers' = Readers \cup {wait_list[i] : i \in 1..n}
<1>1. /\ Moves(t) /\ pc[t] = "readers_only" /\ pc'[t] = "readers"
      /\ UNCHANGED <<wait_list, waiter, flags, after>>
  BY ContendFacts DEF readers_only, waiters
<1>2. /\ loop = 0 /\ wait_list # <<>> /\ wait_list \in Seq(Task) /\ Len(wait_list) \in Nat
      /\ count \in Int /\ WaitingUnit \in Int
      /\ \A i \in 1..Len(wait_list) : wait_list[i] \in Task
  BY <1>1, UnitAssumption DEF Base, Path, Types, Deciding
<1>3. PICK n \in 1..Len(wait_list) :
        /\ loop' = n
        /\ \A i \in 1..n : flags[wait_list[i]] = "read"
        /\ count' = count + n * (1 + WaitingUnit) - (IF after = "read" THEN 0 ELSE 1)
  <2>1. /\ FrontReaders \in 1..Len(wait_list)
        /\ \A i \in 1..FrontReaders : flags[wait_list[i]] = "read"
    BY <1>1, <1>2, FrontReadersType DEF Base, Listed, FrontIsRead, ReaderAtFront
  <2>2. 1 - (-WaitingUnit) = 1 + WaitingUnit
    BY <1>2
  <2> QED
    BY <2>1, <2>2 DEF readers_only, ACTIVE_BIAS, WAITING_BIAS
<1> DEFINE Front == {wait_list[i] : i \in 1..n}
           p == IF after = "read" THEN 0 ELSE 1
<1>4. Front \in SUBSET Task /\ Cardinality(Front) = n /\ n \in Nat
  BY <1>2, <1>3, FrontSize
<1>5. \A u \in Task : ~InFront(u) /\ (InFront(u)' <=> u \in Front)
  BY <1>1, <1>2, <1>3 DEF InFront
<1>6. ASSUME NEW u \in Front
      PROVE  /\ flags[u] = "read" /\ ~Woken(u)
             /\ pc[u] \in {"wait", "schedule"} \/ (u = t /\ after = "wait")
             /\ u \notin ActiveTasks
  <2>1. PICK i \in 1..n : u = wait_list[i]
    OBVIOUS
  <2>2. flags[u] = "read" /\ i \in 1..Len(wait_list) /\ u \in Task
    BY <1>2, <1>3, <2>1
  <2>3. /\ waiter[u] = u /\ pc[u] \in {"wait", "schedule"} \cup OwnerPC
        /\ pc[u] \in OwnerPC => after = "wait"
    BY <2>1, <2>2 DEF Listed, Linkage
  <2>4. ~Woken(u)
    BY <2>2, <2>3, TaskAssumption DEF Woken
  <2>5. pc[u] \in {"wait", "schedule"} \/ (u = t /\ after = "wait")
    BY <1>1, <2>2, <2>3, Alone DEF OwnerPC
  <2>6. u \notin Readers /\ u \notin Writers
    BY <1>1, <1>5, <2>2, <2>4, <2>5, Holding DEF OwnerPC
  <2>7. u \notin Failed("read") /\ u \notin Failed("write")
    BY <1>1, <2>5 DEF Failed
  <2> QED
    BY <2>2, <2>4, <2>5, <2>6, <2>7 DEF ActiveTasks
<1>7. \A u \in Task : Woken(u)' <=> Woken(u)
  BY <1>1 DEF Moves, Woken, OwnerPC
<1>8. \A u \in Task : /\ u \in Readers' <=> u \in Readers \/ u \in Front
                      /\ u \in Writers' <=> u \in Writers
                      /\ u \in Failed("read")' <=> u \in Failed("read")
                      /\ u \in Failed("write")' <=> u \in Failed("write")
  <2> SUFFICES ASSUME NEW u \in Task
               PROVE  /\ u \in Readers' <=> u \in Readers \/ u \in Front
                      /\ u \in Writers' <=> u \in Writers
                      /\ u \in Failed("read")' <=> u \in Failed("read")
                      /\ u \in Failed("write")' <=> u \in Failed("write")
    OBVIOUS
  <2> HIDE DEF Front
  <2>1. pc'[u] = pc[u] \/ (u = t /\ {pc[u], pc'[u]} \subseteq OwnerPC)
    BY <1>1 DEF Moves, OwnerPC
  <2>2. /\ u \in Readers' <=> u \in Readers \/ u \in Front
        /\ u \in Writers' <=> u \in Writers
    BY <1>1, <1>5, <1>6, <1>7, <2>1, Holding, HoldingAfter DEF OwnerPC
  <2>3. /\ u \in Failed("read")' <=> u \in Failed("read")
        /\ u \in Failed("write")' <=> u \in Failed("write")
    BY <1>1, <2>1 DEF Failed, OwnerPC
  <2> QED
    BY <2>2, <2>3
<1> HIDE DEF Front
<1>9. /\ Readers' = Readers \cup Front /\ Writers' = Writers
      /\ Failed("write")' = Failed("write")
      /\ ActiveTasks' = ActiveTasks \cup Front /\ ActiveTasks \cap Front = {}
  BY <1>4, <1>6, <1>8, SetsOfTasks DEF ActiveTasks
<1>10. Cardinality(ActiveTasks') = Cardinality(ActiveTasks) + n
  <2>1. IsFiniteSet(ActiveTasks) /\ IsFiniteSet(Front) /\ Cardinality(ActiveTasks) \in Nat
    BY <1>4, SetsOfTasks, CountSubset
  <2>2. Cardinality(ActiveTasks \cup Front) =
          Cardinality(ActiveTasks) + Cardinality(Front) - Cardinality(ActiveTasks \cap Front)
    BY <2>1, FS_Union
  <2>3. Cardinality(ActiveTasks \cap Front) = 0
    BY <1>9, FS_EmptySet
  <2> QED
    BY <1>4, <1>9, <2>1, <2>2, <2>3
<1>11. Cardinality(Attempt') = Cardinality(Attempt) - p
  <2>1. \A u \in Task \ {t} : u \in Attempt <=> u \in Attempt'
    BY <1>1 DEF Moves, Attempt
  <2>2. t \notin Attempt' /\ (t \in Attempt <=> after # "read")
    BY <1>1 DEF Attempt
  <2>3. Cardinality(Attempt') = Cardinality(Attempt) + 0 - p
    BY <2>1, <2>2, SetsOfTasks, CountOne
  <2>4. Cardinality(Attempt) \in Nat
    BY SetsOfTasks, CountSubset
  <2> QED
    BY <2>3, <2>4
<1>12. CountExact'
  <2> DEFINE A == Cardinality(ActiveTasks)
             T == Cardinality(Attempt)
             W == Cardinality(Writers)
             F == Cardinality(Failed("write"))
             L == Len(wait_list)
  <2>1. A \in Int /\ T \in Int /\ W \in Int /\ F \in Int /\ L \in Int
        /\ p \in Int /\ n \in Int
    BY <1>2, SetsOfTasks, CountSubset
  <2>2. count = A + T - (W + F + L) * WaitingUnit
    BY <1>2 DEF Count, CountExact, Waiting
  <2>3. count' = count + n * (1 + WaitingUnit) - p
    BY <1>3
  <2>4. CountExact' <=>
          count' = (A + n) + (T + (-p)) - ((W + 0) + (F + 0) + (L + (-n))) * WaitingUnit
    <3>1. Waiting' = (W + 0) + (F + 0) + (L + (-n))
      BY <1>1, <1>3, <1>9, <2>1 DEF Waiting
    <3>2. T - p = T + (-p)
      BY <2>1
    <3> QED
      BY <1>10, <1>11, <3>1, <3>2 DEF CountExact
  <2> HIDE DEF A, T, W, F, L, p
  <2>5. (A + T - (W + F + L) * WaitingUnit) + (n + (-p)) - (0 + 0 + (-n)) * WaitingUnit =
          (A + n) + (T + (-p)) - ((W + 0) + (F + 0) + (L + (-n))) * WaitingUnit
    BY <1>2, <2>1, Sums
  <2>6. n * (1 + WaitingUnit) - p = (n + (-p)) - (0 + 0 + (-n)) * WaitingUnit
    BY <1>2, <2>1
  <2>7. count' = count + (n + (-p)) - (0 + 0 + (-n)) * WaitingUnit
    <3>1. n * (1 + WaitingUnit) \in Int /\ (0 + 0 + (-n)) * WaitingUnit \in Int
      BY <1>2, <2>1
    <3> QED
      BY <1>2, <2>1, <2>3, <2>6, <3>1
  <2> QED
    BY <2>2, <2>4, <2>5, <2>7
<1>13. Writers = {}
  BY <1>1 DEF Count, ReadersOnlyPhase
<1>14. Count' /\ Writers' = {}
  BY <1>9, <1>12, <1>13 DEF Count, WriterAlone, ReadersOnlyPhase
<1>15. Readers' = Readers \cup {wait_list[i] : i \in 1..n}
  BY <1>9 DEF Front
<1> QED
  BY <1>2, <1>3, <1>13, <1>14, <1>15

(* The count starts at zero, and nobody holds or waits. *)
LEMMA CountInit == Init => Count
<1> SUFFICES ASSUME Init PROVE Count
  OBVIOUS
<1>1. Readers = {} /\ Writers = {} /\ Attempt = {} /\ ActiveTasks = {}
      /\ Failed("write") = {}
  <2>1. \A u \in Task : pc[u] = "idle" /\ ~Granted(u)
    BY DEF Init, Granted, OwnerPC
  <2>2. Readers = {} /\ Writers = {}
    BY <2>1 DEF Readers, Writers, OwnerPC
  <2>3. Attempt = {} /\ Failed("read") = {} /\ Failed("write") = {}
    BY <2>1 DEF Attempt, Failed
  <2> QED
    BY <2>2, <2>3 DEF ActiveTasks
<1>2. Len(wait_list) = 0 /\ loop = 0 /\ count = 0 /\ WaitingUnit \in Nat
  BY UnitAssumption DEF Init
<1>3. Cardinality({}) = 0
  BY FS_EmptySet
<1>4. Waiting = 0
  <2>1. Cardinality(Writers) = 0 /\ Cardinality(Failed("write")) = 0
    BY <1>1, <1>3
  <2> QED
    BY <1>2, <2>1 DEF Waiting
<1>5. CountExact
  BY <1>1, <1>2, <1>3, <1>4 DEF CountExact
<1> QED
  BY <1>1, <1>5 DEF Count, WriterAlone, ReadersOnlyPhase

(* Every step keeps the count exact and a writer alone. *)
LEMMA CountNext == Base /\ Listed /\ Count /\ [Next]_vars => Count'
<1> SUFFICES ASSUME Base, Listed, Count, [Next]_vars PROVE Count'
  OBVIOUS
<1>1. Base' /\ Listed'
  BY BaseNext, ListedNext
<1>2. CASE UNCHANGED vars
  <2>1. UNCHANGED <<Readers, Writers, Attempt, Failed("read"), Failed("write")>>
    BY <1>2 DEF vars, Readers, Writers, Granted, Attempt, Failed
  <2>2. ActiveTasks' = ActiveTasks /\ Waiting' = Waiting
    BY <1>2, <2>1 DEF vars, ActiveTasks, Waiting
  <2> QED
    BY <1>2, <2>1, <2>2 DEF vars, Count, CountExact, WriterAlone, ReadersOnlyPhase
<1>3. ASSUME NEW t \in Task, Acquire(t) PROVE Count'
  BY <1>1, <1>3, CountAcquire
<1>4. ASSUME NEW t \in Task, up_read(t) \/ up_write(t) \/ downgrade_write(t) PROVE Count'
  BY <1>1, <1>4, CountRelease
<1>5. ASSUME NEW t \in Task,
             \/ wait_check(t) \/ schedule_return(t) \/ spurious_wakeup(t) \/ do_exit(t)
             \/ rwsem_wake(t) \/ rwsem_downgrade_wake(t) \/ readers_done(t)
             \/ wake_reader(t) \/ wake_writer(t)
      PROVE  Count'
  BY <1>1, <1>5, CountOther
<1>6. ASSUME NEW t \in Task, do_wake_busy(t) \/ do_wake_readers(t) \/ do_wake_undo(t)
      PROVE  Count'
  BY <1>1, <1>6, CountAttempt
<1>7. ASSUME NEW t \in Task, down_failed(t) PROVE Count'
  BY <1>1, <1>7, CountAppend
<1>8. ASSUME NEW t \in Task, do_wake_writer(t) PROVE Count'
  BY <1>1, <1>8, CountWriter
<1>9. ASSUME NEW t \in Task, readers_only(t) PROVE Count'
  BY <1>1, <1>9, CountReaders
<1>10. ASSUME NEW t \in Task, readers_loop(t) PROVE Count'
  BY <1>1, <1>10, CountLoop
<1> QED
  BY <1>2, <1>3, <1>4, <1>5, <1>6, <1>7, <1>8, <1>9, <1>10 DEF Next, Contend
-----------------------------------------------------------------------------
(* The holders of references to a task, besides the task itself. *)
Linked(u) == \E i \in 1..Len(wait_list) : wait_list[i] = u

WakerPC == {"wake_reader", "wake_writer"}

BeingWoken(u) == tsk = u /\ \E t \in Task : pc[t] \in WakerPC

(* One reference for the task's life, one for its record on the list and    *)
(* then for the waker that is about to wake it.                             *)
Refs ==
  \A u \in Task :
    usage[u] = (IF pc[u] # "dead" THEN 1 ELSE 0)
               + (IF Linked(u) THEN 1 ELSE 0)
               + (IF BeingWoken(u) THEN 1 ELSE 0)

(* Every task starts with the reference for its life. *)
LEMMA RefsInit == Init => Refs
<1> SUFFICES ASSUME Init, NEW u \in Task
             PROVE  usage[u] = 1 /\ pc[u] # "dead" /\ ~Linked(u) /\ ~BeingWoken(u)
  BY DEF Refs
<1> QED
  BY DEF Init, Linked, BeingWoken, WakerPC

(* A task that moves without taking or dropping a reference. *)
LEMMA RefsMove ==
  ASSUME Refs, NEW t \in Task, Moves(t),
         {pc[t], pc'[t]} \cap (WakerPC \cup {"dead"}) = {},
         UNCHANGED <<wait_list, usage, tsk>>
  PROVE  Refs'
<1>1. ASSUME NEW u \in Task
      PROVE  /\ Linked(u)' <=> Linked(u)
             /\ BeingWoken(u)' <=> BeingWoken(u)
             /\ pc'[u] = "dead" <=> pc[u] = "dead"
  <2>1. \A v \in Task : pc'[v] \in WakerPC <=> pc[v] \in WakerPC
    BY DEF Moves
  <2> QED
    BY <2>1 DEF Moves, Linked, BeingWoken
<1> QED
  BY <1>1 DEF Refs

(* The record's reference passes from the list to the waker. *)
LEMMA RefsPop ==
  ASSUME Base, Listed, Refs, NEW t \in Task, Moves(t), pc[t] \in OwnerPC \ WakerPC,
         pc'[t] \in WakerPC, wait_list # <<>>, wait_list' = Tail(wait_list),
         tsk' = Head(wait_list), UNCHANGED usage
  PROVE  Refs'
<1> DEFINE n == Len(wait_list)
<1>1. /\ n \in Nat /\ n >= 1 /\ Len(wait_list') = n - 1
      /\ \A i \in 1..(n - 1) : wait_list'[i] = wait_list[i + 1]
  BY DEF Base, Types
<1>2. PICK h \in Task : h = wait_list[1] /\ tsk' = h
  BY DEF Base, Types
<1>3. pc[h] # "dead" /\ Linked(h)
  BY <1>1, <1>2 DEF Listed, Linkage, OwnerPC, Linked
<1>4. \A v \in Task : pc[v] \notin WakerPC
  BY Alone DEF WakerPC, OwnerPC
<1>5. ASSUME NEW u \in Task
      PROVE  /\ Linked(u)' <=> Linked(u) /\ u # h
             /\ BeingWoken(u)' <=> u = h
             /\ ~BeingWoken(u)
             /\ pc'[u] = "dead" <=> pc[u] = "dead"
  <2>1. Linked(u)' => Linked(u) /\ u # h
    <3> SUFFICES ASSUME NEW i \in 1..(n - 1), wait_list'[i] = u
                 PROVE  Linked(u) /\ u # h
      BY <1>1 DEF Linked
    <3>1. i + 1 \in 1..n /\ wait_list[i + 1] = u /\ i + 1 # 1 /\ 1 \in 1..n
      BY <1>1
    <3> QED
      BY <1>2, <3>1 DEF Linked, Listed, Linkage
  <2>2. Linked(u) /\ u # h => Linked(u)'
    <3> SUFFICES ASSUME NEW i \in 1..n, wait_list[i] = u, u # h
                 PROVE  Linked(u)'
      BY DEF Linked
    <3>1. i - 1 \in 1..(n - 1) /\ wait_list'[i - 1] = u
      BY <1>1, <1>2
    <3> QED
      BY <1>1, <3>1 DEF Linked
  <2>3. BeingWoken(u)' <=> u = h
    BY <1>2 DEF BeingWoken
  <2>4. ~BeingWoken(u)
    BY <1>4 DEF BeingWoken
  <2>5. pc'[u] = "dead" <=> pc[u] = "dead"
    BY DEF Moves, WakerPC, OwnerPC
  <2> QED
    BY <2>1, <2>2, <2>3, <2>4, <2>5
<1> QED
  BY <1>3, <1>5 DEF Refs

(* put_task_struct drops the waker's reference. *)
LEMMA RefsPut ==
  ASSUME Base, Refs, NEW t \in Task, Moves(t), pc[t] \in WakerPC,
         pc'[t] \notin WakerPC \cup {"dead"}, WakeAndPut, UNCHANGED <<wait_list, tsk>>
  PROVE  Refs'
<1>1. usage \in [Task -> Int] /\ tsk \in Task
  BY DEF Base, Types, Path, WakerPC
<1>2. \A v \in Task : pc'[v] \notin WakerPC
  BY Alone DEF Moves, WakerPC, OwnerPC
<1>3. ASSUME NEW u \in Task
      PROVE  /\ Linked(u)' <=> Linked(u)
             /\ BeingWoken(u) <=> u = tsk
             /\ ~BeingWoken(u)'
             /\ pc'[u] = "dead" <=> pc[u] = "dead"
             /\ usage'[u] = IF u = tsk THEN usage[u] - 1 ELSE usage[u]
  <2>1. Linked(u)' <=> Linked(u)
    BY DEF Linked
  <2>2. (BeingWoken(u) <=> u = tsk) /\ ~BeingWoken(u)'
    BY <1>2 DEF BeingWoken
  <2>3. /\ pc'[u] = "dead" <=> pc[u] = "dead"
        /\ usage'[u] = IF u = tsk THEN usage[u] - 1 ELSE usage[u]
    BY <1>1 DEF Moves, WakerPC, WakeAndPut
  <2> QED
    BY <2>1, <2>2, <2>3
<1> QED
  BY <1>1, <1>3 DEF Refs

(* A task that queues itself takes the reference its waker will drop. *)
LEMMA RefsAppend ==
  ASSUME Base, Listed, Refs, NEW t \in Task, down_failed(t)
  PROVE  Refs'
<1>1. /\ Moves(t) /\ pc[t] = "failed" /\ pc'[t] \in {"wait", "do_wake"}
      /\ wait_list' = Append(wait_list, t) /\ wait_list \in Seq(Task)
      /\ usage' = [usage EXCEPT ![t] = @ + 1] /\ usage \in [Task -> Int] /\ tsk' = tsk
  <2>1. pc \in [Task -> PC] /\ wait_list \in Seq(Task) /\ usage \in [Task -> Int]
    BY DEF Base, Types
  <2> QED
    BY <2>1 DEF down_failed, Moves, Goto, PC, OwnerPC
<1>2. /\ Len(wait_list) \in Nat /\ Len(wait_list') = Len(wait_list) + 1
      /\ wait_list'[Len(wait_list) + 1] = t
      /\ \A i \in 1..Len(wait_list) : wait_list'[i] = wait_list[i]
  <2>1. wait_list \in Seq(Task) /\ wait_list' = Append(wait_list, t)
    BY <1>1
  <2> QED
    BY <2>1
<1>3. ASSUME NEW u \in Task
      PROVE  /\ Linked(u)' <=> Linked(u) \/ u = t
             /\ BeingWoken(u)' <=> BeingWoken(u)
             /\ pc'[u] = "dead" <=> pc[u] = "dead"
             /\ usage'[u] = IF u = t THEN usage[u] + 1 ELSE usage[u]
  <2>1. Linked(u)' <=> Linked(u) \/ u = t
    BY <1>2 DEF Linked
  <2>2. \A v \in Task : pc'[v] \in WakerPC <=> pc[v] \in WakerPC
    BY <1>1 DEF Moves, WakerPC
  <2>3. BeingWoken(u)' <=> BeingWoken(u)
    BY <1>1, <2>2 DEF BeingWoken
  <2>4. /\ pc'[u] = "dead" <=> pc[u] = "dead"
        /\ usage'[u] = IF u = t THEN usage[u] + 1 ELSE usage[u]
    BY <1>1 DEF Moves
  <2> QED
    BY <2>1, <2>3, <2>4
<1>4. ~Linked(t)
  BY <1>1, NotLinked DEF Linked, OwnerPC
<1>5. \A u \in Task : usage[u] \in Int
  BY <1>1
<1> QED
  BY <1>3, <1>4, <1>5 DEF Refs

(* A task that exits drops the reference it was created with. *)
LEMMA RefsExit ==
  ASSUME Base, Refs, NEW t \in Task, do_exit(t)
  PROVE  Refs'
<1>1. /\ Moves(t) /\ pc[t] = "idle" /\ pc'[t] = "dead" /\ usage \in [Task -> Int]
      /\ UNCHANGED <<wait_list, tsk>> /\ usage' = [usage EXCEPT ![t] = @ - 1]
  BY MoveFacts DEF Base, Types, do_exit, locals
<1>2. ASSUME NEW u \in Task
      PROVE  /\ Linked(u)' <=> Linked(u)
             /\ BeingWoken(u)' <=> BeingWoken(u)
             /\ pc'[u] = "dead" <=> pc[u] = "dead" \/ u = t
             /\ usage'[u] = IF u = t THEN usage[u] - 1 ELSE usage[u]
  <2>1. \A v \in Task : pc'[v] \in WakerPC <=> pc[v] \in WakerPC
    BY <1>1 DEF Moves, WakerPC
  <2> QED
    BY <1>1, <2>1 DEF Moves, Linked, BeingWoken
<1> QED
  BY <1>1, <1>2 DEF Refs

(* Every step keeps the references exact. *)
LEMMA RefsNext == Base /\ Listed /\ Refs /\ [Next]_vars => Refs'
<1> SUFFICES ASSUME Base, Listed, Refs, [Next]_vars PROVE Refs'
  OBVIOUS
<1> USE DEF WakerPC, waiters, tasks, locals
<1>0. /\ flags \in [Task -> {"read", "write"}] /\ after \in {"idle", "read", "wait"}
      /\ wait_list \in Seq(Task)
  BY DEF Base, Types, Flags
<1>1. CASE UNCHANGED vars
  BY <1>1 DEF vars, Refs, Linked, BeingWoken
<1>2. ASSUME NEW t \in Task, Acquire(t) PROVE Refs'
  <2>1. UNCHANGED <<wait_list, usage, tsk>>
    BY <1>2 DEF Acquire, down_read, down_write, down_read_trylock, down_write_trylock
  <2> QED
    BY <1>2, <2>1, MoveFacts, RefsMove DEF Acquire
<1>3. ASSUME NEW t \in Task, wait_check(t) PROVE Refs'
  <2>1. Moves(t) /\ pc[t] = "wait" /\ pc'[t] \in {"read", "write", "schedule"}
    BY <1>0, <1>3, MoveFacts
  <2> QED
    BY <1>3, <2>1, RefsMove DEF wait_check
<1>4. ASSUME NEW t \in Task, schedule_return(t) PROVE Refs'
  BY <1>4, MoveFacts, RefsMove DEF schedule_return
<1>5. ASSUME NEW t \in Task, spurious_wakeup(t) PROVE Refs'
  BY <1>5 DEF spurious_wakeup, Refs, Linked, BeingWoken
<1>6. ASSUME NEW t \in Task, do_exit(t) PROVE Refs'
  BY <1>6, RefsExit
<1>7. ASSUME NEW t \in Task, up_read(t) PROVE Refs'
  BY <1>7, MoveFacts, RefsMove DEF up_read
<1>8. ASSUME NEW t \in Task, up_write(t) PROVE Refs'
  BY <1>8, MoveFacts, RefsMove DEF up_write
<1>9. ASSUME NEW t \in Task, downgrade_write(t) PROVE Refs'
  BY <1>9, MoveFacts, RefsMove DEF downgrade_write
<1>10. ASSUME NEW t \in Task, down_failed(t) PROVE Refs'
  BY <1>10, RefsAppend
<1>11. ASSUME NEW t \in Task, rwsem_wake(t) PROVE Refs'
  BY <1>11, ContendFacts, RefsMove DEF rwsem_wake
<1>12. ASSUME NEW t \in Task, rwsem_downgrade_wake(t) PROVE Refs'
  BY <1>12, ContendFacts, RefsMove DEF rwsem_downgrade_wake
<1>13. ASSUME NEW t \in Task, do_wake_busy(t) PROVE Refs'
  BY <1>13, ContendFacts, RefsMove DEF do_wake_busy
<1>14. ASSUME NEW t \in Task, do_wake_readers(t) PROVE Refs'
  BY <1>14, ContendFacts, RefsMove DEF do_wake_readers
<1>15. ASSUME NEW t \in Task, do_wake_undo(t) PROVE Refs'
  BY <1>0, <1>15, ContendFacts, RefsMove DEF do_wake_undo
<1>16. ASSUME NEW t \in Task, readers_only(t) PROVE Refs'
  BY <1>16, ContendFacts, RefsMove DEF readers_only
<1>17. ASSUME NEW t \in Task, readers_done(t) PROVE Refs'
  BY <1>0, <1>17, ContendFacts, RefsMove DEF readers_done
<1>18. ASSUME NEW t \in Task, do_wake_writer(t) PROVE Refs'
  <2>1. wait_list # <<>>
    BY <1>18, ContendFacts DEF Base, Path, Deciding
  <2> QED
    BY <1>18, <2>1, ContendFacts, RefsPop DEF do_wake_writer, OwnerPC
<1>19. ASSUME NEW t \in Task, readers_loop(t) PROVE Refs'
  <2>1. wait_list # <<>>
    <3>1. loop > 0 /\ loop <= Len(wait_list) /\ loop \in Nat
      BY <1>19 DEF readers_loop, Base, Path, Types
    <3> QED
      BY <1>0, <3>1
  <2> QED
    BY <1>19, <2>1, ContendFacts, RefsPop DEF readers_loop, OwnerPC
<1>20. ASSUME NEW t \in Task, wake_reader(t) PROVE Refs'
  BY <1>20, ContendFacts, RefsPut DEF wake_reader
<1>21. ASSUME NEW t \in Task, wake_writer(t) PROVE Refs'
  BY <1>0, <1>21, ContendFacts, RefsPut DEF wake_writer
<1> QED
  BY <1>1, <1>2, <1>3, <1>4, <1>5, <1>6, <1>7, <1>8, <1>9, <1>10, <1>11, <1>12,
     <1>13, <1>14, <1>15, <1>16, <1>17, <1>18, <1>19, <1>20, <1>21
  DEF Next, Contend
-----------------------------------------------------------------------------
(* The inductive invariant, and the properties it implies. *)
IInv == Base /\ Listed /\ Count /\ Refs

(* A reference count that is exact is not negative. *)
LEMMA InvTypeOK == IInv => TypeOK
<1> SUFFICES ASSUME IInv PROVE TypeOK
  OBVIOUS
<1>1. \A t \in Task : usage[t] \in Nat
  BY DEF IInv, Refs
<1> QED
  BY <1>1 DEF IInv, Base, Types, TypeOK

(* Base, Listed and Refs together are what the waker relies on. *)
LEMMA InvAlive == IInv => WakeTargetAlive
<1> SUFFICES ASSUME IInv PROVE WakeTargetAlive
  OBVIOUS
<1>1. ASSUME NEW t \in Task, pc[t] \in WakerPC PROVE usage[tsk] > 0
  <2>1. tsk \in Task /\ BeingWoken(tsk)
    BY <1>1 DEF IInv, Base, Path, BeingWoken, WakerPC
  <2>2. usage[tsk] = (IF pc[tsk] # "dead" THEN 1 ELSE 0)
                     + (IF Linked(tsk) THEN 1 ELSE 0) + 1
    BY <2>1 DEF IInv, Refs
  <2> QED
    BY <2>2
<1>2. DOMAIN wait_list = 1..Len(wait_list)
  BY DEF IInv, Base, Types
<1> QED
  BY <1>1, <1>2 DEF IInv, Listed, Linkage, WakeTargetAlive, WakerPC

(* The invariant holds in every reachable state. *)
THEOREM Invariance == Spec => []IInv
<1>1. Init => IInv
  BY BaseInit, ListedInit, CountInit, RefsInit DEF IInv
<1>2. IInv /\ [Next]_vars => IInv'
  BY BaseNext, ListedNext, CountNext, RefsNext DEF IInv
<1> QED
  BY <1>1, <1>2, PTL DEF Spec

(* Every variable keeps its type; no task_struct is put once too often. *)
THEOREM TypeCorrect == Spec => []TypeOK
BY Invariance, InvTypeOK, PTL

(* A writer is alone and sem->count is exact at every step, although the    *)
(* fast paths change both halves of it without a lock.                      *)
THEOREM MutualExclusion == Spec => []Exclusion
<1>1. IInv => Exclusion
  BY ExclusionIs DEF IInv, Count
<1> QED
  BY <1>1, Invariance, PTL

(* A waker finds the task it wakes allocated, and every linked record       *)
(* belongs to a task that is still waiting.                                 *)
THEOREM NoDeadTarget == Spec => []WakeTargetAlive
BY Invariance, InvAlive, PTL
-----------------------------------------------------------------------------
(* The refinement.  First, what the steps do to the abstract queue: the     *)
(* records of list s behind the first k, with the flags g.                  *)
Record(u, g) == [task |-> u, mode |-> g[u]]

QueueOf(s, k, g) == [i \in 1..(Len(s) - k) |-> Record(s[i + k], g)]

Requests == [task : Task, mode : Flags]

(* A function on 1..n is a sequence of length n. *)
LEMMA FunctionIsSeq ==
  ASSUME NEW S, NEW n \in Nat, NEW q \in [1..n -> S]
  PROVE  q \in Seq(S) /\ Len(q) = n
<1>1. q \in UNION {[1..k -> S] : k \in Nat}
  OBVIOUS
<1>2. q \in Seq(S)
  BY <1>1, SeqDef
<1> QED
  BY <1>2

(* The abstract queue is the list from its k-th record on. *)
LEMMA QueueFacts ==
  ASSUME NEW s \in Seq(Task), NEW g \in [Task -> Flags], NEW k \in Nat, k <= Len(s)
  PROVE  /\ QueueOf(s, k, g) \in Seq(Requests)
         /\ Len(QueueOf(s, k, g)) = Len(s) - k
         /\ \A i \in 1..(Len(s) - k) : /\ i + k \in 1..Len(s) /\ s[i + k] \in Task
                                       /\ QueueOf(s, k, g)[i] = Record(s[i + k], g)
<1> DEFINE n == Len(s)
<1>1. n \in Nat /\ n - k \in Nat /\ \A i \in 1..n : s[i] \in Task
  OBVIOUS
<1>2. \A i \in 1..(n - k) : i + k \in 1..n
  BY <1>1
<1>3. \A i \in 1..(n - k) : s[i + k] \in Task /\ Record(s[i + k], g) \in Requests
  BY <1>1, <1>2 DEF Record, Requests
<1>4. QueueOf(s, k, g) \in [1..(n - k) -> Requests]
  BY <1>3 DEF QueueOf
<1>5. QueueOf(s, k, g) \in Seq(Requests) /\ Len(QueueOf(s, k, g)) = n - k
  BY <1>1, <1>4, FunctionIsSeq
<1> QED
  BY <1>2, <1>3, <1>5 DEF QueueOf

(* Two sequences with the same elements are the same. *)
LEMMA SameSeq ==
  ASSUME NEW S, NEW p \in Seq(S), NEW q \in Seq(S), NEW n \in Nat,
         Len(p) = n, Len(q) = n, \A i \in 1..n : p[i] = q[i]
  PROVE  p = q
OBVIOUS

(* Linking a record appends it to the queue. *)
LEMMA QueueAppend ==
  ASSUME NEW s \in Seq(Task), NEW g \in [Task -> Flags], NEW t \in Task
  PROVE  QueueOf(Append(s, t), 0, g) = Append(QueueOf(s, 0, g), Record(t, g))
<1> DEFINE n == Len(s)
           s2 == Append(s, t)
           Q == QueueOf(s, 0, g)
           Q2 == QueueOf(s2, 0, g)
           r == Record(t, g)
<1>1. /\ n \in Nat /\ s2 \in Seq(Task) /\ Len(s2) = n + 1 /\ s2[n + 1] = t
      /\ \A i \in 1..n : s2[i] = s[i]
  OBVIOUS
<1> HIDE DEF s2
<1>2. Q \in Seq(Requests) /\ Len(Q) = n /\ \A i \in 1..n : Q[i] = Record(s[i], g)
  <2>1. /\ Q \in Seq(Requests) /\ Len(Q) = n - 0
        /\ \A i \in 1..(n - 0) : Q[i] = Record(s[i + 0], g)
    BY <1>1, QueueFacts
  <2> HIDE DEF Q
  <2> QED
    BY <1>1, <2>1
<1>3. /\ Q2 \in Seq(Requests) /\ Len(Q2) = n + 1
      /\ \A i \in 1..(n + 1) : Q2[i] = Record(s2[i], g)
  <2>1. /\ Q2 \in Seq(Requests) /\ Len(Q2) = Len(s2) - 0
        /\ \A i \in 1..(Len(s2) - 0) : Q2[i] = Record(s2[i + 0], g)
    BY <1>1, QueueFacts
  <2> HIDE DEF Q2
  <2> QED
    BY <1>1, <2>1
<1>4. r \in Requests
  BY DEF Record, Requests
<1> HIDE DEF Q, Q2, r
<1>5. /\ Append(Q, r) \in Seq(Requests) /\ Len(Append(Q, r)) = n + 1
      /\ \A i \in 1..n : Append(Q, r)[i] = Q[i]
      /\ Append(Q, r)[n + 1] = r
  BY <1>1, <1>2, <1>4
<1>6. \A i \in 1..(n + 1) : Q2[i] = Append(Q, r)[i]
  <2> HIDE DEF n
  <2> SUFFICES ASSUME NEW i \in 1..(n + 1) PROVE Q2[i] = Append(Q, r)[i]
    OBVIOUS
  <2>0. i = n + 1 \/ i \in 1..n
    BY <1>1
  <2>1. CASE i = n + 1
    BY <1>1, <1>3, <1>5, <2>1 DEF r
  <2>2. CASE i \in 1..n
    BY <1>1, <1>2, <1>3, <1>5, <2>2
  <2> QED
    BY <2>0, <2>1, <2>2
<1>7. Q2 = Append(Q, r)
  BY <1>1, <1>3, <1>5, <1>6, SameSeq
<1> QED
  BY <1>7 DEF Q, Q2, s2, r

(* Granting the first n records takes them off the front of the queue. *)
LEMMA QueueGrant ==
  ASSUME NEW s \in Seq(Task), NEW g \in [Task -> Flags], NEW n \in 1..Len(s)
  PROVE  /\ QueueOf(s, n, g) =
              SubSeq(QueueOf(s, 0, g), n + 1, Len(QueueOf(s, 0, g)))
         /\ Len(QueueOf(s, 0, g)) = Len(s)
         /\ \A i \in 1..Len(s) : QueueOf(s, 0, g)[i] = Record(s[i], g)
<1> DEFINE m == Len(s)
           Q == QueueOf(s, 0, g)
           Q2 == QueueOf(s, n, g)
           Q3 == SubSeq(Q, n + 1, Len(Q))
<1>1. m \in Nat /\ n \in Nat /\ n <= m /\ n >= 1
  OBVIOUS
<1>2. Q \in Seq(Requests) /\ Len(Q) = m /\ \A i \in 1..m : Q[i] = Record(s[i], g)
  <2>1. /\ Q \in Seq(Requests) /\ Len(Q) = m - 0
        /\ \A i \in 1..(m - 0) : Q[i] = Record(s[i + 0], g)
    BY <1>1, QueueFacts
  <2> HIDE DEF Q
  <2> QED
    BY <1>1, <2>1
<1>3. /\ Q2 \in Seq(Requests) /\ Len(Q2) = m - n
      /\ \A i \in 1..(m - n) : Q2[i] = Record(s[i + n], g)
  BY <1>1, QueueFacts
<1> HIDE DEF Q, Q2
<1>4. /\ Q3 \in Seq(Requests) /\ Len(Q3) = m - n
      /\ \A i \in 1..(m - n) : Q3[i] = Q[i + n]
  <2>1. \A i \in (n + 1)..Len(Q) : Q[i] \in Requests
    BY <1>1, <1>2
  <2>2. Q3 \in Seq(Requests) /\ Len(Q3) = IF n + 1 <= Len(Q) THEN Len(Q) - (n + 1) + 1 ELSE 0
    BY <1>1, <1>2, <2>1, SubSeqProperties
  <2>3. \A i \in 1..(Len(Q) - (n + 1) + 1) : Q3[i] = Q[(n + 1) + i - 1]
    BY <1>1, <1>2, <2>1, SubSeqProperties
  <2> HIDE DEF Q3
  <2>4. Len(Q3) = m - n
    BY <1>1, <1>2, <2>2
  <2>5. \A i \in 1..(m - n) : Q3[i] = Q[i + n]
    BY <1>1, <1>2, <2>3
  <2> QED
    BY <2>2, <2>4, <2>5
<1>5. \A i \in 1..(m - n) : Q2[i] = Q3[i]
  <2> SUFFICES ASSUME NEW i \in 1..(m - n) PROVE Q2[i] = Q3[i]
    OBVIOUS
  <2>1. i + n \in 1..m
    BY <1>1
  <2> QED
    BY <1>2, <1>3, <1>4, <2>1
<1>6. Q2 = Q3
  <2> HIDE DEF Q3
  <2>1. m - n \in Nat
    BY <1>1
  <2> QED
    BY <1>3, <1>4, <1>5, <2>1, SameSeq
<1> QED
  BY <1>2, <1>6 DEF Q, Q2, Q3

(* Releasing a granted record leaves the queue as it is. *)
LEMMA QueueShift ==
  ASSUME NEW s \in Seq(Task), NEW g \in [Task -> Flags], NEW k \in 1..Len(s)
  PROVE  QueueOf(Tail(s), k - 1, g) = QueueOf(s, k, g)
<1> DEFINE n == Len(s)
           s2 == Tail(s)
<1>1. n \in Nat /\ k \in Nat /\ k >= 1 /\ k <= n
  OBVIOUS
<1>2. Len(s2) = n - 1 /\ \A i \in 1..(n - 1) : s2[i] = s[i + 1]
  BY <1>1
<1> HIDE DEF s2
<1>3. Len(s2) - (k - 1) = n - k
  BY <1>1, <1>2
<1>4. ASSUME NEW i \in 1..(n - k) PROVE s2[i + (k - 1)] = s[i + k]
  <2>1. i + (k - 1) \in 1..(n - 1) /\ (i + (k - 1)) + 1 = i + k
    BY <1>1
  <2> QED
    BY <1>2, <2>1
<1> QED
  BY <1>3, <1>4 DEF QueueOf, s2

(* The abstract queue, in these words. *)
LEMMA QueueIs ==
  /\ Queue = QueueOf(wait_list, loop, flags)
  /\ Queue' = QueueOf(wait_list', loop', flags')
BY DEF Queue, QueueOf, Record

(* What the lemmas about the queue need to know. *)
LEMMA QueueTypes ==
  ASSUME IInv
  PROVE  /\ Base /\ Listed /\ Count
         /\ wait_list \in Seq(Task) /\ flags \in [Task -> Flags] /\ Len(wait_list) \in Nat
         /\ loop \in Nat /\ loop <= Len(wait_list)
<1>1. loop <= Len(wait_list)
  BY DEF IInv, Base, Path
<1> QED
  BY <1>1 DEF IInv, Base, Types

(* A task whose record is not linked is not in the queue. *)
LEMMA NotQueued ==
  ASSUME IInv, NEW t \in Task, \A i \in 1..Len(wait_list) : wait_list[i] # t
  PROVE  t \notin Abstract!Queued
<1>1. /\ Len(Queue) = Len(wait_list) - loop /\ Queue \in Seq(Requests)
      /\ \A i \in 1..(Len(wait_list) - loop) :
           i + loop \in 1..Len(wait_list) /\ Queue[i].task = wait_list[i + loop]
  <2>1. /\ Len(Queue) = Len(wait_list) - loop /\ Queue \in Seq(Requests)
        /\ \A i \in 1..(Len(wait_list) - loop) :
             /\ i + loop \in 1..Len(wait_list)
             /\ Queue[i] = Record(wait_list[i + loop], flags)
    BY QueueIs, QueueTypes, QueueFacts
  <2>2. \A u : Record(u, flags).task = u
    BY DEF Record
  <2> QED
    BY <2>1, <2>2
<1>2. \A i \in DOMAIN Queue : Queue[i].task # t
  BY <1>1
<1> QED
  BY <1>2 DEF Abstract!Queued

(* The queue does not depend on the flags of tasks that are not linked. *)
LEMMA QueueSame ==
  ASSUME IInv, UNCHANGED <<wait_list, loop>>,
         \A i \in 1..Len(wait_list) : flags'[wait_list[i]] = flags[wait_list[i]]
  PROVE  Queue' = Queue
<1>1. \A i \in 1..(Len(wait_list) - loop) : i + loop \in 1..Len(wait_list)
  BY QueueTypes
<1> QED
  BY <1>1 DEF Queue

(* A fast path that succeeds finds nobody queued, and for a writer nobody   *)
(* inside; one that fails is not seen yet.                                  *)
LEMMA SimulateAcquire ==
  ASSUME IInv, IInv', NEW t \in Task, Acquire(t)
  PROVE  Abstract!Next \/ UNCHANGED <<Readers, Writers, Queue>>
<1>1. Base /\ Listed /\ Count /\ Base' /\ Listed'
  BY DEF IInv
<1>2. /\ t \notin Readers \cup Writers
      /\ Readers' = IF pc'[t] = "read" THEN Readers \cup {t} ELSE Readers
      /\ Writers' = IF pc'[t] = "write" THEN Writers \cup {t} ELSE Writers
      /\ pc'[t] = "read" => Waiting = 0
      /\ pc'[t] = "write" => Waiting = 0 /\ Readers \cup Writers = {}
  BY <1>1, CountAcquire
<1>3. pc[t] = "idle" /\ pc'[t] \in {"read", "write", "failed"}
  BY <1>1, MoveFacts DEF Acquire
<1>4. \A i \in 1..Len(wait_list) : wait_list[i] # t
  BY <1>1, <1>3, NotLinked DEF OwnerPC
<1>5. Queue' = Queue
  <2>1. UNCHANGED <<wait_list, loop>> /\ \A u \in Task \ {t} : flags'[u] = flags[u]
    BY <1>1 DEF Acquire, down_read, down_write, down_read_trylock, down_write_trylock,
                waiters, locals, Base, Types
  <2>2. \A i \in 1..Len(wait_list) : wait_list[i] \in Task
    BY QueueTypes
  <2> QED
    BY <1>4, <2>1, <2>2, QueueSame
<1>6. Waiting = 0 => Writers = {} /\ Queue = <<>>
  <2>1. Waiting = 0 => Writers = {} /\ Len(wait_list) = loop
    BY <1>1, NobodyWaits
  <2>2. Len(wait_list) = loop => Len(Queue) = 0 /\ Queue \in Seq(Requests)
    BY QueueIs, QueueTypes, QueueFacts
  <2> QED
    BY <2>1, <2>2
<1>7. t \notin Abstract!Queued
  BY <1>4, NotQueued
<1>8. CASE pc'[t] = "read"
  BY <1>2, <1>5, <1>6, <1>7, <1>8 DEF Abstract!Next, Abstract!AcquireRead, Abstract!Holders
<1>9. CASE pc'[t] = "write"
  BY <1>2, <1>5, <1>6, <1>9 DEF Abstract!Next, Abstract!AcquireWrite, Abstract!Holders
<1>10. CASE pc'[t] = "failed"
  BY <1>2, <1>5, <1>10
<1> QED
  BY <1>3, <1>8, <1>9, <1>10

(* A release or a downgrade is the abstract one; the queue is not touched. *)
LEMMA SimulateRelease ==
  ASSUME IInv, IInv', NEW t \in Task, up_read(t) \/ up_write(t) \/ downgrade_write(t)
  PROVE  Abstract!Next
<1>1. Queue' = Queue
  BY QueueSame DEF up_read, up_write, downgrade_write, waiters, locals
<1>2. /\ up_read(t) => t \in Readers /\ Readers' = Readers \ {t} /\ Writers' = Writers
      /\ up_write(t) => t \in Writers /\ Writers' = Writers \ {t} /\ Readers' = Readers
      /\ downgrade_write(t) => /\ t \in Writers /\ Writers' = Writers \ {t}
                               /\ Readers' = Readers \cup {t}
  BY CountRelease DEF IInv
<1>3. CASE up_read(t)
  BY <1>1, <1>2, <1>3 DEF Abstract!Next, Abstract!ReleaseRead
<1>4. CASE up_write(t)
  BY <1>1, <1>2, <1>4 DEF Abstract!Next, Abstract!ReleaseWrite
<1>5. CASE downgrade_write(t)
  BY <1>1, <1>2, <1>5 DEF Abstract!Next, Abstract!Downgrade
<1> QED
  BY <1>3, <1>4, <1>5

(* Linking the record is the abstract Wait. *)
LEMMA SimulateWait ==
  ASSUME IInv, IInv', NEW t \in Task, down_failed(t)
  PROVE  Abstract!Next
<1>1. /\ Base /\ Listed /\ Count /\ Base' /\ Listed'
      /\ wait_list \in Seq(Task) /\ flags \in [Task -> Flags]
  BY QueueTypes DEF IInv
<1>2. /\ Readers' = Readers /\ Writers' = Writers /\ t \notin Readers \cup Writers
  BY <1>1, CountAppend
<1>3. /\ pc[t] = "failed" /\ wait_list' = Append(wait_list, t) /\ flags' = flags
      /\ loop = 0 /\ loop' = 0
  BY DEF down_failed, IInv, Base, Path
<1>4. \A i \in 1..Len(wait_list) : wait_list[i] # t
  BY <1>1, <1>3, NotLinked DEF OwnerPC
<1>5. t \notin Abstract!Queued
  BY <1>4, NotQueued
<1>6. Queue' = Append(Queue, [task |-> t, mode |-> flags[t]])
  <2>1. /\ Queue = QueueOf(wait_list, 0, flags)
        /\ Queue' = QueueOf(Append(wait_list, t), 0, flags)
    BY <1>3, QueueIs
  <2> QED
    BY <1>1, <2>1, QueueAppend DEF Record
<1>7. flags[t] \in {"read", "write"}
  BY <1>1 DEF Flags
<1>8. Abstract!Wait(t, flags[t])
  BY <1>2, <1>5, <1>6 DEF Abstract!Wait, Abstract!Holders
<1> QED
  BY <1>7, <1>8 DEF Abstract!Next, Abstract!Mode

(* Taking the writer off the front is the abstract GrantWriter. *)
LEMMA SimulateGrantWriter ==
  ASSUME IInv, IInv', NEW t \in Task, do_wake_writer(t)
  PROVE  Abstract!Next
<1>1. /\ Base /\ Listed /\ Count /\ Base' /\ Listed'
      /\ wait_list \in Seq(Task) /\ flags \in [Task -> Flags]
  BY QueueTypes DEF IInv
<1>2. /\ Readers \cup Writers = {} /\ Readers' = {} /\ Writers' = {Head(wait_list)}
      /\ flags[Head(wait_list)] = "write"
  BY <1>1, CountWriter
<1>3. /\ wait_list' = Tail(wait_list) /\ flags' = flags /\ wait_list # <<>>
      /\ loop = 0 /\ loop' = 0
  BY DEF do_wake_writer, IInv, Base, Path, Deciding
<1>4. 1 \in 1..Len(wait_list) /\ Head(wait_list) = wait_list[1]
  BY <1>1, <1>3
<1>5. /\ Len(Queue) = Len(wait_list) /\ Queue \in Seq(Requests)
      /\ Queue[1] = Record(Head(wait_list), flags)
      /\ Queue' = SubSeq(Queue, 2, Len(Queue))
  <2>1. /\ Queue = QueueOf(wait_list, 0, flags)
        /\ Queue' = QueueOf(Tail(wait_list), 1 - 1, flags)
    BY <1>3, QueueIs
  <2>2. QueueOf(Tail(wait_list), 1 - 1, flags) = QueueOf(wait_list, 1, flags)
    BY <1>1, <1>4, QueueShift
  <2>3. /\ QueueOf(wait_list, 1, flags) = SubSeq(Queue, 1 + 1, Len(Queue))
        /\ Len(Queue) = Len(wait_list)
        /\ \A i \in 1..Len(wait_list) : Queue[i] = Record(wait_list[i], flags)
    BY <1>1, <1>4, <2>1, QueueGrant
  <2>4. Queue \in Seq(Requests)
    BY QueueIs, QueueTypes, QueueFacts
  <2>5. SubSeq(Queue, 1 + 1, Len(Queue)) = SubSeq(Queue, 2, Len(Queue))
    OBVIOUS
  <2> QED
    BY <1>4, <2>1, <2>2, <2>3, <2>4, <2>5
<1>6. /\ Queue # <<>> /\ Head(Queue) = Queue[1] /\ Tail(Queue) = SubSeq(Queue, 2, Len(Queue))
  BY <1>4, <1>5
<1>7. Head(Queue).mode = "write" /\ Head(Queue).task = Head(wait_list)
  BY <1>2, <1>5, <1>6 DEF Record
<1>8. Abstract!GrantWriter
  BY <1>2, <1>5, <1>6, <1>7 DEF Abstract!GrantWriter, Abstract!Holders
<1> QED
  BY <1>8 DEF Abstract!Next

(* Adjusting the count for the readers at the front is GrantReaders. *)
LEMMA SimulateGrantReaders ==
  ASSUME IInv, IInv', NEW t \in Task, readers_only(t)
  PROVE  Abstract!Next
<1>1. /\ Base /\ Listed /\ Count /\ Base' /\ Listed' /\ Len(wait_list) \in Nat
      /\ wait_list \in Seq(Task) /\ flags \in [Task -> Flags]
  BY QueueTypes DEF IInv
<1>2. Writers = {} /\ Writers' = {}
  BY <1>1, CountReaders
<1>3. PICK n \in 1..Len(wait_list) :
              /\ loop = 0 /\ loop' = n /\ \A i \in 1..n : flags[wait_list[i]] = "read"
              /\ Readers' = Readers \cup {wait_list[i] : i \in 1..n}
  BY <1>1, CountReaders
<1>4. wait_list' = wait_list /\ flags' = flags
  BY DEF readers_only, waiters
<1>5. /\ Queue' = SubSeq(Queue, n + 1, Len(Queue)) /\ Len(Queue) = Len(wait_list)
      /\ \A i \in 1..Len(wait_list) : Queue[i] = Record(wait_list[i], flags)
  <2>1. Queue = QueueOf(wait_list, 0, flags) /\ Queue' = QueueOf(wait_list, n, flags)
    BY <1>3, <1>4, QueueIs
  <2> QED
    BY <1>1, <2>1, QueueGrant
<1>6. \A i \in 1..n : Queue[i].mode = "read" /\ Queue[i].task = wait_list[i]
  <2>1. \A i \in 1..n : i \in 1..Len(wait_list)
    BY <1>1
  <2>2. \A u : Record(u, flags).task = u /\ Record(u, flags).mode = flags[u]
    BY DEF Record
  <2> QED
    BY <1>3, <1>5, <2>1, <2>2
<1>7. {Queue[i].task : i \in 1..n} = {wait_list[i] : i \in 1..n}
  BY <1>6
<1>8. Readers' = Readers \cup {Queue[i].task : i \in 1..n}
  BY <1>3, <1>7, Zenon
<1>9. Abstract!GrantReaders(n)
  BY <1>2, <1>5, <1>6, <1>8, Zenon DEF Abstract!GrantReaders
<1>10. n \in 1..Len(Queue)
  BY <1>5
<1> QED
  BY <1>9, <1>10 DEF Abstract!Next

(* Every step is a step of the abstract semaphore, or leaves it unchanged. *)
LEMMA SimulateNext ==
  IInv /\ IInv' /\ [Next]_vars => [Abstract!Next]_(Abstract!vars)
<1> SUFFICES ASSUME IInv, IInv', [Next]_vars
             PROVE  Abstract!Next \/ UNCHANGED <<Readers, Writers, Queue>>
  BY DEF Abstract!vars
<1>1. CASE UNCHANGED vars
  BY <1>1 DEF vars, Readers, Writers, Granted, Queue
<1>2. ASSUME NEW t \in Task, Acquire(t)
      PROVE  Abstract!Next \/ UNCHANGED <<Readers, Writers, Queue>>
  BY <1>2, SimulateAcquire
<1>3. ASSUME NEW t \in Task, up_read(t) \/ up_write(t) \/ downgrade_write(t)
      PROVE  Abstract!Next
  BY <1>3, SimulateRelease
<1>4. ASSUME NEW t \in Task, down_failed(t) PROVE Abstract!Next
  BY <1>4, SimulateWait
<1>5. ASSUME NEW t \in Task, do_wake_writer(t) PROVE Abstract!Next
  BY <1>5, SimulateGrantWriter
<1>6. ASSUME NEW t \in Task, readers_only(t) PROVE Abstract!Next
  BY <1>6, SimulateGrantReaders
<1>7. ASSUME NEW t \in Task,
             \/ wait_check(t) \/ schedule_return(t) \/ spurious_wakeup(t) \/ do_exit(t)
             \/ rwsem_wake(t) \/ rwsem_downgrade_wake(t) \/ readers_done(t)
             \/ wake_reader(t) \/ wake_writer(t)
      PROVE  UNCHANGED <<Readers, Writers, Queue>>
  <2>1. UNCHANGED <<wait_list, loop, flags>>
    BY <1>7
    DEF wait_check, schedule_return, spurious_wakeup, do_exit, rwsem_wake,
        rwsem_downgrade_wake, readers_done, wake_reader, wake_writer, waiters, locals
  <2> QED
    BY <1>7, <2>1, CountOther, QueueSame DEF IInv
<1>8. ASSUME NEW t \in Task, do_wake_busy(t) \/ do_wake_readers(t) \/ do_wake_undo(t)
      PROVE  UNCHANGED <<Readers, Writers, Queue>>
  <2>1. UNCHANGED <<wait_list, loop, flags>>
    BY <1>8 DEF do_wake_busy, do_wake_readers, do_wake_undo, waiters, locals
  <2> QED
    BY <1>8, <2>1, CountAttempt, QueueSame DEF IInv
<1>9. ASSUME NEW t \in Task, readers_loop(t)
      PROVE  UNCHANGED <<Readers, Writers, Queue>>
  <2>1. /\ wait_list' = Tail(wait_list) /\ loop' = loop - 1 /\ flags' = flags /\ loop > 0
    BY <1>9 DEF readers_loop
  <2>2. /\ wait_list \in Seq(Task) /\ flags \in [Task -> Flags] /\ loop \in 1..Len(wait_list)
    BY <2>1, QueueTypes
  <2>3. Queue' = Queue
    BY <2>1, <2>2, QueueIs, QueueShift
  <2> QED
    BY <1>9, <2>3, CountLoop DEF IInv
<1> QED
  BY <1>1, <1>2, <1>3, <1>4, <1>5, <1>6, <1>7, <1>8, <1>9 DEF Next, Contend

(* The initial state maps to the initial state. *)
LEMMA SimulateInit == Init => Abstract!Init
<1> SUFFICES ASSUME Init PROVE Readers = {} /\ Writers = {} /\ Queue = <<>>
  BY DEF Abstract!Init
<1>1. \A u \in Task : pc[u] = "idle" /\ ~Granted(u)
  BY DEF Init, Granted, OwnerPC
<1>2. Readers = {} /\ Writers = {}
  BY <1>1 DEF Readers, Writers, OwnerPC
<1>3. wait_list \in Seq(Task) /\ flags \in [Task -> Flags] /\ Len(wait_list) = 0 /\ loop = 0
  BY DEF Init, Flags
<1>4. Len(Queue) = 0 /\ Queue \in Seq(Requests)
  <2>1. loop \in Nat /\ loop <= Len(wait_list)
    BY <1>3
  <2>2. Len(Queue) = Len(wait_list) - loop /\ Queue \in Seq(Requests)
    BY <1>3, <2>1, QueueIs, QueueFacts
  <2> QED
    BY <1>3, <2>2
<1> QED
  BY <1>2, <1>4

(* lib/rwsem.c with the i386 fast paths implements the read/write semaphore *)
(* of RwSem: nobody overtakes a queued task, and readers are let in only    *)
(* from the front.                                                          *)
THEOREM Refinement == Spec => RefinesRwSem
<1>1. Init => Abstract!Init
  BY SimulateInit
<1>2. IInv /\ IInv' /\ [Next]_vars => [Abstract!Next]_(Abstract!vars)
  BY SimulateNext
<1> QED
  BY <1>1, <1>2, Invariance, PTL DEF Spec, RefinesRwSem, Abstract!Spec
=============================================================================
