------------------------ MODULE RwSemSpinlockProofs ------------------------
(***************************************************************************)
(* Proofs about the spinlock based read/write semaphore, for any finite    *)
(* set of tasks.  The inductive invariant is built in layers, each of      *)
(* which is preserved given the ones before it:                            *)
(*                                                                         *)
(*   Base    types, who may be inside the wake-up path (only the owner of  *)
(*           wait_lock), and that the path never meets an empty list;      *)
(*   Listed  every linked record is on the stack of a task that still      *)
(*           waits for it, and no task is linked twice;                    *)
(*   Count   what sem->activity says about the holders in each phase of    *)
(*           the wake-up path, and who is at the front of the list;        *)
(*   Refs    each task_struct has exactly the references in use.           *)
(*                                                                         *)
(* The last part shows that the semaphore implements RwSem: Granted tells  *)
(* who holds it, wait_list who is queued, and every step is one step of    *)
(* RwSem or none.                                                          *)
(***************************************************************************)
EXTENDS RwSemSpinlock, FiniteSetTheorems, SequenceTheorems, TLAPS

(* The types the steps keep by themselves; the bounds of TypeOK follow from *)
(* Count and Refs.                                                          *)
Types ==
  /\ activity \in Int
  /\ wait_list \in Seq(Task)
  /\ wait_lock \in Task \cup {NoTask}
  /\ waiter \in [Task -> Task \cup {NoTask}]
  /\ flags \in [Task -> Flags]
  /\ state \in [Task -> State]
  /\ usage \in [Task -> Int]
  /\ pc \in [Task -> PC]
  /\ tsk \in Task \cup {NoTask}
  /\ woken \in Nat
  /\ after \in {"idle", "read"}

(* The wake-up path is run by the owner of wait_lock and nobody else. *)
Owner == \A t \in Task : pc[t] \in WakePC <=> wait_lock = t

(* Its entry points find somebody to wake, its last steps somebody to put. *)
SomebodyToWake ==
  \A t \in Task :
    /\ pc[t] \in {"wake_one_writer", "do_wake"} => wait_list # <<>>
    /\ pc[t] \in {"wake_writer", "wake_reader"} => tsk \in Task
    /\ pc[t] \in {"wake_one_writer", "wake_writer"} => after = "idle"

Base == Types /\ Owner /\ SomebodyToWake

(* init_rwsem leaves no owner of wait_lock and nobody in the wake-up path. *)
LEMMA BaseInit == Init => Base
BY TaskAssumption
DEF Init, Base, Types, Owner, SomebodyToWake, Flags, State, PC, WakePC

(* Every step keeps Base: one case for each action. *)
LEMMA BaseNext == Base /\ [Next]_vars => Base'
<1> SUFFICES ASSUME Base, [Next]_vars PROVE Base'
  OBVIOUS
<1> USE TaskAssumption DEF Base, Types, Owner, SomebodyToWake, Flags, State,
        PC, WakePC, Goto, sem, waiters, tasks, locals
<1>1. CASE UNCHANGED vars
  BY <1>1 DEF vars
<1>2. ASSUME NEW t \in Task, Acquire(t) PROVE Base'
  <2>1. CASE GrantRead(t) /\ pc[t] = "idle" /\ wait_lock = NoTask
    BY <2>1 DEF GrantRead
  <2>2. CASE GrantWrite(t) /\ pc[t] = "idle" /\ wait_lock = NoTask
    BY <2>2 DEF GrantWrite
  <2>3. ASSUME NEW f \in Flags, Enqueue(t, f), pc[t] = "idle", wait_lock = NoTask
        PROVE Base'
    BY <2>3 DEF Enqueue
  <2> QED
    BY <1>2, <2>1, <2>2, <2>3
    DEF Acquire, down_read, down_write, down_read_trylock, down_write_trylock
<1>3. ASSUME NEW t \in Task, wait_check(t) PROVE Base'
  <2>1. CASE waiter[t] = NoTask
    <3>1. /\ pc' = [pc EXCEPT ![t] = flags[t]]
          /\ state' = [state EXCEPT ![t] = "running"]
          /\ flags[t] \in {"read", "write"} /\ pc[t] = "wait"
          /\ UNCHANGED <<sem, waiters, usage, locals>>
      BY <1>3, <2>1 DEF wait_check
    <3> QED
      BY <3>1
  <2>2. CASE waiter[t] # NoTask
    BY <1>3, <2>2, SMTT(60) DEF wait_check
  <2> QED
    BY <2>1, <2>2
<1>4. ASSUME NEW t \in Task, schedule_return(t) PROVE Base'
  BY <1>4 DEF schedule_return
<1>5. ASSUME NEW t \in Task, up_read(t) PROVE Base'
  BY <1>5 DEF up_read, StartWake
<1>6. ASSUME NEW t \in Task, up_write(t) PROVE Base'
  BY <1>6 DEF up_write, StartWake
<1>7. ASSUME NEW t \in Task, downgrade_write(t) PROVE Base'
  BY <1>7 DEF downgrade_write, StartWake
<1>8. ASSUME NEW t \in Task, wake_one_writer(t) PROVE Base'
  BY <1>8 DEF wake_one_writer, GrantFront
<1>9. ASSUME NEW t \in Task, do_wake_writer(t) PROVE Base'
  BY <1>9 DEF do_wake_writer, GrantFront
<1>10. ASSUME NEW t \in Task, do_wake_out(t) PROVE Base'
  BY <1>10 DEF do_wake_out, Unlock
<1>11. ASSUME NEW t \in Task, do_wake_readers(t) PROVE Base'
  BY <1>11 DEF do_wake_readers
<1>12. ASSUME NEW t \in Task, readers_loop(t) PROVE Base'
  BY <1>12 DEF readers_loop, GrantFront, ReaderAtFront
<1>13. ASSUME NEW t \in Task, readers_done(t) PROVE Base'
  BY <1>13 DEF readers_done, Unlock
<1>14. ASSUME NEW t \in Task, wake_reader(t) PROVE Base'
  BY <1>14 DEF wake_reader, WakeAndPut
<1>15. ASSUME NEW t \in Task, wake_writer(t) PROVE Base'
  BY <1>15 DEF wake_writer, WakeAndPut, Unlock
<1>16. ASSUME NEW t \in Task, spurious_wakeup(t) PROVE Base'
  BY <1>16 DEF spurious_wakeup
<1>17. ASSUME NEW t \in Task, do_exit(t) PROVE Base'
  BY <1>17 DEF do_exit
<1> QED
  BY <1>1, <1>2, <1>3, <1>4, <1>5, <1>6, <1>7, <1>8, <1>9, <1>10, <1>11, <1>12,
     <1>13, <1>14, <1>15, <1>16, <1>17
  DEF Next, Wakeup
-----------------------------------------------------------------------------
(* The records on sem->wait_list. *)
Listed ==
  /\ \A i \in 1..Len(wait_list) :
       /\ pc[wait_list[i]] \in {"wait", "schedule"}
       /\ waiter[wait_list[i]] = wait_list[i]
  /\ \A i, j \in 1..Len(wait_list) : wait_list[i] = wait_list[j] => i = j

(* Nobody is linked at the start. *)
LEMMA ListedInit == Init => Listed
BY DEF Init, Listed

(* Taking the first record off the list keeps the others as they are. *)
LEMMA ListedGrant ==
  ASSUME Base, Listed, wait_list # <<>>, GrantFront,
         NEW t \in Task, pc[t] \in WakePC,
         NEW l \in PC, Goto(t, l)
  PROVE  Listed'
<1> DEFINE n == Len(wait_list)
<1> USE TaskAssumption DEF Base, Types, PC, WakePC
<1>1. /\ n \in Nat /\ n >= 1 /\ Len(wait_list') = n - 1
      /\ \A i \in 1..(n - 1) : wait_list'[i] = wait_list[i + 1]
      /\ Head(wait_list) = wait_list[1]
  BY DEF GrantFront
<1>2. ASSUME NEW i \in 1..(n - 1)
      PROVE  /\ wait_list'[i] \in Task /\ wait_list'[i] # wait_list[1]
             /\ wait_list'[i] # t
             /\ waiter'[wait_list'[i]] = wait_list'[i]
             /\ pc'[wait_list'[i]] \in {"wait", "schedule"}
  BY <1>1 DEF Listed, GrantFront, Goto
<1>3. ASSUME NEW i \in 1..(n - 1), NEW j \in 1..(n - 1),
             wait_list'[i] = wait_list'[j]
      PROVE  i = j
  <2>1. /\ i + 1 \in 1..n /\ j + 1 \in 1..n
        /\ wait_list[i + 1] = wait_list[j + 1]
    BY <1>1, <1>3
  <2>2. i + 1 = j + 1
    BY <2>1 DEF Listed
  <2> QED
    BY <2>2
<1> QED
  BY <1>1, <1>2, <1>3 DEF Listed

(* A task that moves on without touching the list: it stays in the wait     *)
(* loop, or it was not linked.                                              *)
LEMMA ListedMove ==
  ASSUME Base, Listed, NEW t \in Task, NEW l \in PC, Goto(t, l),
         UNCHANGED <<wait_list, waiter>>,
         \/ l \in {"wait", "schedule"}
         \/ pc[t] \notin {"wait", "schedule"}
         \/ waiter[t] = NoTask
  PROVE  Listed'
<1>1. ASSUME NEW i \in 1..Len(wait_list)
      PROVE  /\ wait_list[i] \in Task
             /\ pc'[wait_list[i]] \in {"wait", "schedule"}
  BY TaskAssumption DEF Base, Types, Listed, Goto
<1> QED
  BY <1>1 DEF Listed

(* Records are linked by their owner, and unlinked before it may leave. *)
LEMMA ListedNext == Base /\ Listed /\ [Next]_vars => Listed'
<1> SUFFICES ASSUME Base, Listed, [Next]_vars PROVE Listed'
  OBVIOUS
<1> USE DEF Flags, PC, WakePC, sem, waiters, tasks, locals
<1>0. flags \in [Task -> Flags] /\ after \in {"idle", "read"}
  BY DEF Base, Types
<1>1. CASE UNCHANGED vars
  BY <1>1 DEF vars, Listed
<1>2. ASSUME NEW t \in Task, Acquire(t) PROVE Listed'
  <2>1. CASE GrantRead(t) /\ pc[t] = "idle"
    BY <2>1, ListedMove DEF GrantRead
  <2>2. CASE GrantWrite(t) /\ pc[t] = "idle"
    BY <2>2, ListedMove DEF GrantWrite
  <2>3. ASSUME NEW f \in Flags, Enqueue(t, f), pc[t] = "idle" PROVE Listed'
    <3>1. /\ Len(wait_list') = Len(wait_list) + 1
          /\ wait_list'[Len(wait_list) + 1] = t
          /\ \A i \in 1..Len(wait_list) : wait_list'[i] = wait_list[i]
                                          /\ wait_list[i] # t
      BY <2>3 DEF Enqueue, Listed, Base, Types
    <3> QED
      BY <2>3, <3>1 DEF Enqueue, Goto, Listed, Base, Types
  <2> QED
    BY <1>2, <2>1, <2>2, <2>3
    DEF Acquire, down_read, down_write, down_read_trylock, down_write_trylock
<1>3. ASSUME NEW t \in Task, wait_check(t) PROVE Listed'
  <2>1. CASE waiter[t] = NoTask
    BY <1>0, <1>3, <2>1, ListedMove DEF wait_check
  <2>2. CASE waiter[t] # NoTask
    BY <1>3, <2>2, ListedMove DEF wait_check
  <2> QED
    BY <2>1, <2>2
<1>4. ASSUME NEW t \in Task, schedule_return(t) PROVE Listed'
  BY <1>4, ListedMove DEF schedule_return
<1>5. ASSUME NEW t \in Task, spurious_wakeup(t) PROVE Listed'
  BY <1>5 DEF spurious_wakeup, Listed
<1>6. ASSUME NEW t \in Task, do_exit(t) PROVE Listed'
  BY <1>6, ListedMove DEF do_exit
<1>7. ASSUME NEW t \in Task, up_read(t) PROVE Listed'
  BY <1>7, ListedMove DEF up_read, StartWake
<1>8. ASSUME NEW t \in Task, up_write(t) PROVE Listed'
  BY <1>8, ListedMove DEF up_write, StartWake
<1>9. ASSUME NEW t \in Task, downgrade_write(t) PROVE Listed'
  BY <1>9, ListedMove DEF downgrade_write, StartWake
<1>10. ASSUME NEW t \in Task,
              wake_one_writer(t) \/ do_wake_writer(t) \/ readers_loop(t)
       PROVE  Listed'
  BY <1>10, ListedGrant
  DEF wake_one_writer, do_wake_writer, readers_loop, ReaderAtFront, Base,
      SomebodyToWake
<1>11. ASSUME NEW t \in Task, do_wake_out(t) PROVE Listed'
  BY <1>0, <1>11, ListedMove DEF do_wake_out, Unlock
<1>12. ASSUME NEW t \in Task, readers_done(t) PROVE Listed'
  BY <1>0, <1>12, ListedMove DEF readers_done, Unlock
<1>13. ASSUME NEW t \in Task, wake_writer(t) PROVE Listed'
  BY <1>0, <1>13, ListedMove DEF wake_writer, WakeAndPut, Unlock
<1>14. ASSUME NEW t \in Task, do_wake_readers(t) PROVE Listed'
  BY <1>14, ListedMove DEF do_wake_readers
<1>15. ASSUME NEW t \in Task, wake_reader(t) PROVE Listed'
  BY <1>15, ListedMove DEF wake_reader, WakeAndPut
<1> QED
  BY <1>1, <1>2, <1>3, <1>4, <1>5, <1>6, <1>7, <1>8, <1>9, <1>10, <1>11, <1>12,
     <1>13, <1>14, <1>15
  DEF Next, Wakeup
-----------------------------------------------------------------------------
(* What each phase of the wake-up path knows of the holders. *)
Phases ==
  \A t \in Task :
    /\ pc[t] = "wake_one_writer" =>
         /\ Readers = {} /\ Writers = {} /\ activity = 0
         /\ flags[Head(wait_list)] = "write"
    /\ pc[t] = "do_wake" =>
         /\ Writers = {} /\ activity = Cardinality(Readers)
         /\ after = "idle" => Readers = {}
    /\ pc[t] = "wake_writer" => Writers # {} /\ activity = -1
    /\ pc[t] = "readers" =>
         /\ Writers = {} /\ activity \in Nat
         /\ activity + woken = Cardinality(Readers)
    /\ pc[t] = "wake_reader" =>
         /\ Writers = {} /\ activity \in Nat
         /\ activity + woken + 1 = Cardinality(Readers)

(* While readers hold the semaphore a writer is at the front of the list. *)
WriterFirst ==
  wait_lock = NoTask /\ Writers = {} /\ wait_list # <<>> =>
    flags[Head(wait_list)] = "write"

Count == Exclusion /\ WriterFirst /\ Phases

(* The holders are finitely many, at most all tasks. *)
LEMMA CountSubset ==
  ASSUME NEW S \in SUBSET Task
  PROVE  /\ IsFiniteSet(S) /\ Cardinality(S) \in Nat
         /\ Cardinality(S) <= Cardinality(Task) /\ Cardinality(Task) \in Nat
         /\ Cardinality(S) = 0 <=> S = {}
BY TaskAssumption, FS_Subset, FS_CardinalityType, FS_EmptySet

(* One holder more. *)
LEMMA CountAdd ==
  ASSUME NEW S \in SUBSET Task, NEW x, x \notin S
  PROVE  Cardinality(S \cup {x}) = Cardinality(S) + 1
BY CountSubset, FS_AddElement

(* One holder less. *)
LEMMA CountRemove ==
  ASSUME NEW S \in SUBSET Task, NEW x \in S
  PROVE  Cardinality(S \ {x}) = Cardinality(S) - 1
BY CountSubset, FS_RemoveElement

(* An unlocked semaphore has no holders. *)
LEMMA CountInit == Init => Count
<1> SUFFICES ASSUME Init PROVE Count
  OBVIOUS
<1>1. Readers = {} /\ Writers = {}
  BY DEF Init, Readers, Writers, Granted, WakePC
<1>2. Cardinality(Readers) = 0
  BY <1>1, FS_EmptySet
<1> QED
  BY <1>1, <1>2 DEF Init, Count, Exclusion, WriterFirst, Phases

(* The holders are tasks, and sem->activity tells them apart. *)
LEMMA CountFacts ==
  ASSUME Base, Count
  PROVE  /\ Readers \in SUBSET Task /\ Writers \in SUBSET Task
         /\ Cardinality(Readers) \in Nat
         /\ Cardinality(Readers) = 0 <=> Readers = {}
         /\ wait_lock = NoTask => /\ activity >= 0 <=> Writers = {}
                                  /\ activity = 0 => Readers = {}
<1>1. Readers \in SUBSET Task /\ Writers \in SUBSET Task
  BY DEF Readers, Writers
<1>2. Cardinality(Readers) \in Nat /\ (Cardinality(Readers) = 0 <=> Readers = {})
  BY <1>1, CountSubset
<1> QED
  BY <1>1, <1>2 DEF Count, Exclusion

(* A step that changes neither the holders nor what is said of them. *)
LEMMA CountSame ==
  ASSUME Count, Readers' = Readers, Writers' = Writers,
         UNCHANGED <<activity, wait_list, wait_lock, woken, after>>,
         WriterFirst',
         \A t \in Task : pc'[t] \in WakePC \/ pc[t] \in WakePC => pc'[t] = pc[t],
         \A t \in Task : pc[t] = "wake_one_writer" =>
            flags'[Head(wait_list)] = flags[Head(wait_list)]
  PROVE  Count'
BY DEF Count, Exclusion, Phases, WakePC

(* The first record on the list belongs to a waiter that holds nothing. *)
LEMMA Front ==
  ASSUME Base, Listed, wait_list # <<>>
  PROVE  /\ Head(wait_list) = wait_list[1] /\ Len(wait_list) >= 1
         /\ Head(wait_list) \in Task
         /\ pc[Head(wait_list)] \in {"wait", "schedule"}
         /\ waiter[Head(wait_list)] # NoTask
         /\ Head(wait_list) \notin Readers /\ Head(wait_list) \notin Writers
<1>1. Head(wait_list) = wait_list[1] /\ Len(wait_list) \in Nat /\ Len(wait_list) >= 1
  BY DEF Base, Types
<1>2. wait_list[1] \in Task
  BY <1>1 DEF Base, Types
<1>3. pc[wait_list[1]] \in {"wait", "schedule"} /\ waiter[wait_list[1]] = wait_list[1]
  BY <1>1 DEF Listed
<1> QED
  BY <1>1, <1>2, <1>3, TaskAssumption DEF Readers, Writers, Granted, WakePC

(* Only the owner of wait_lock is in the wake-up path. *)
LEMMA Alone ==
  ASSUME Base
  PROVE  /\ wait_lock = NoTask => \A u \in Task : pc[u] \notin WakePC
         /\ \A t, u \in Task : pc[t] \in WakePC /\ u # t => pc[u] \notin WakePC
BY TaskAssumption DEF Base, Owner

(* What each step does to the holders: the fast paths ... *)
LEMMA AcquireEffect ==
  ASSUME Base, NEW t \in Task, pc[t] = "idle", wait_lock = NoTask
  PROVE  /\ t \notin Readers /\ t \notin Writers
         /\ GrantRead(t) => Readers' = Readers \cup {t} /\ Writers' = Writers
         /\ GrantWrite(t) => Readers' = Readers /\ Writers' = Writers \cup {t}
         /\ \A f \in Flags : Enqueue(t, f) => Readers' = Readers /\ Writers' = Writers
<1> USE TaskAssumption DEF Readers, Writers, Granted, Goto, waiters, tasks, locals
<1>0. /\ \A u \in Task : pc[u] \notin WakePC
      /\ pc \in [Task -> PC] /\ flags \in [Task -> Flags]
      /\ waiter \in [Task -> Task \cup {NoTask}]
  BY Alone DEF Base, Types
<1>1. ASSUME GrantRead(t) PROVE Readers' = Readers \cup {t} /\ Writers' = Writers
  BY <1>0, <1>1 DEF GrantRead, WakePC
<1>2. ASSUME GrantWrite(t) PROVE Readers' = Readers /\ Writers' = Writers \cup {t}
  BY <1>0, <1>2 DEF GrantWrite, WakePC
<1>3. ASSUME NEW f \in Flags, Enqueue(t, f)
      PROVE  Readers' = Readers /\ Writers' = Writers
  BY <1>0, <1>3 DEF Enqueue, WakePC
<1> QED
  BY <1>0, <1>1, <1>2, <1>3

(* ... the releases ... *)
LEMMA ReleaseEffect ==
  ASSUME Base, NEW t \in Task, wait_lock = NoTask
  PROVE  /\ up_read(t) => /\ t \in Readers
                          /\ Readers' = Readers \ {t} /\ Writers' = Writers
         /\ up_write(t) => /\ t \in Writers
                           /\ Readers' = Readers /\ Writers' = Writers \ {t}
         /\ downgrade_write(t) => /\ t \in Writers
                                  /\ Readers' = Readers \cup {t}
                                  /\ Writers' = Writers \ {t}
<1> USE DEF StartWake, Goto, Readers, Writers, Granted, WakePC, waiters, tasks
<1>0. pc \in [Task -> PC] /\ \A u \in Task : pc[u] \notin WakePC
  BY Alone DEF Base, Types
<1>1. ASSUME up_read(t)
      PROVE  t \in Readers /\ Readers' = Readers \ {t} /\ Writers' = Writers
  BY <1>0, <1>1 DEF up_read
<1>2. ASSUME up_write(t)
      PROVE  t \in Writers /\ Readers' = Readers /\ Writers' = Writers \ {t}
  BY <1>0, <1>2 DEF up_write
<1>3. ASSUME downgrade_write(t)
      PROVE  /\ t \in Writers
             /\ Readers' = Readers \cup {t} /\ Writers' = Writers \ {t}
  BY <1>0, <1>3 DEF downgrade_write
<1> QED
  BY <1>1, <1>2, <1>3

(* ... the grant of the record at the front ... *)
LEMMA GrantEffect ==
  ASSUME Base, Listed, wait_list # <<>>, GrantFront, UNCHANGED <<flags, after>>,
         NEW t \in Task, pc[t] \in WakePC, NEW l \in WakePC, Goto(t, l)
  PROVE  LET h == Head(wait_list) IN
         /\ flags[h] = "read" => Readers' = Readers \cup {h} /\ Writers' = Writers
         /\ flags[h] = "write" => Readers' = Readers /\ Writers' = Writers \cup {h}
<1> DEFINE h == Head(wait_list)
<1>1. /\ pc \in [Task -> PC] /\ waiter \in [Task -> Task \cup {NoTask}]
      /\ flags \in [Task -> Flags]
  BY DEF Base, Types
<1>2. h \in Task /\ pc[h] \in {"wait", "schedule"} /\ h # t
  BY Front DEF WakePC
<1>3. ASSUME NEW u \in Task
      PROVE  /\ Granted(u)' <=> Granted(u) \/ u = h
             /\ pc'[u] \in WakePC <=> pc[u] \in WakePC
             /\ pc'[u] = "read" <=> pc[u] = "read"
             /\ pc'[u] = "write" <=> pc[u] = "write"
  BY <1>1, <1>2 DEF GrantFront, Goto, Granted, WakePC
<1>4. pc[h] \notin WakePC \cup {"read", "write"}
  BY <1>2 DEF WakePC
<1> QED
  BY <1>2, <1>3, <1>4 DEF Readers, Writers

(* ... and all the others, which change nobody's hold. *)
LEMMA MoveEffect ==
  ASSUME Base, NEW t \in Task,
         \/ do_wake_out(t) \/ do_wake_readers(t) \/ readers_done(t)
         \/ wake_reader(t) \/ wake_writer(t) \/ wait_check(t)
         \/ schedule_return(t) \/ spurious_wakeup(t) \/ do_exit(t)
  PROVE  Readers' = Readers /\ Writers' = Writers
<1> USE DEF Goto, Unlock, Readers, Writers, Granted, WakePC, sem, waiters, tasks, locals
<1>0. /\ pc \in [Task -> PC] /\ flags \in [Task -> Flags] /\ after \in {"idle", "read"}
      /\ pc[t] = "wake_writer" => after = "idle"
  BY DEF Base, Types, SomebodyToWake
<1>1. CASE do_wake_out(t)
  BY <1>0, <1>1 DEF do_wake_out
<1>2. CASE do_wake_readers(t)
  BY <1>0, <1>2 DEF do_wake_readers
<1>3. CASE readers_done(t)
  BY <1>0, <1>3 DEF readers_done
<1>4. CASE wake_reader(t)
  BY <1>0, <1>4 DEF wake_reader
<1>5. CASE wake_writer(t)
  BY <1>0, <1>5 DEF wake_writer
<1>6. CASE wait_check(t)
  <2>1. CASE waiter[t] = NoTask
    <3>1. /\ pc' = [pc EXCEPT ![t] = flags[t]] /\ flags[t] \in {"read", "write"}
          /\ pc[t] = "wait" /\ UNCHANGED <<waiter, flags, after>>
      BY <1>0, <1>6, <2>1 DEF wait_check, Flags
    <3> QED
      BY <1>0, <2>1, <3>1
  <2>2. CASE waiter[t] # NoTask
    BY <1>0, <1>6, <2>2 DEF wait_check
  <2> QED
    BY <2>1, <2>2
<1>7. CASE schedule_return(t) \/ spurious_wakeup(t) \/ do_exit(t)
  BY <1>0, <1>7 DEF schedule_return, spurious_wakeup, do_exit
<1> QED
  BY <1>1, <1>2, <1>3, <1>4, <1>5, <1>6, <1>7

(* The fast paths count the task they let in; the slow paths let nobody in, *)
(* and a reader is first on the list only behind a writer that holds it.    *)
LEMMA CountAcquire ==
  ASSUME Base, Listed, Count, NEW t \in Task, pc[t] = "idle", wait_lock = NoTask
  PROVE  /\ GrantRead(t) => Count'
         /\ GrantWrite(t) => Count'
         /\ ~ReadFree /\ Enqueue(t, "read") => Count'
         /\ ~WriteFree /\ Enqueue(t, "write") => Count'
<1> USE TaskAssumption DEF Base, Types, Flags, PC, WakePC, waiters, tasks, locals
<1>0. /\ \A u \in Task : pc[u] \notin WakePC
      /\ t \notin Readers /\ t \notin Writers
  BY Alone, AcquireEffect
<1>1. ASSUME GrantRead(t) PROVE Count'
  <2>1. Readers' = Readers \cup {t} /\ Writers' = Writers
    BY <1>1, AcquireEffect
  <2>2. Writers = {} /\ activity = Cardinality(Readers)
    BY <1>1, CountFacts DEF GrantRead, ReadFree, Count, Exclusion
  <2>3. Cardinality(Readers') = Cardinality(Readers) + 1
    BY <1>0, <2>1, CountFacts, CountAdd
  <2>4. \A u \in Task : pc'[u] \notin WakePC
    BY <1>0, <1>1 DEF GrantRead, Goto
  <2> QED
    BY <1>1, <2>1, <2>2, <2>3, <2>4
    DEF GrantRead, ReadFree, Count, Exclusion, WriterFirst, Phases
<1>2. ASSUME GrantWrite(t) PROVE Count'
  <2>1. Writers = {} /\ Readers = {}
    BY <1>2, CountFacts DEF GrantWrite, WriteFree
  <2>2. Writers' = {t} /\ Readers' = {}
    BY <1>2, <2>1, AcquireEffect
  <2>3. \A u \in Task : pc'[u] \notin WakePC
    BY <1>0, <1>2 DEF GrantWrite, Goto
  <2> QED
    BY <1>2, <2>2, <2>3
    DEF GrantWrite, WriteFree, Count, Exclusion, WriterFirst, Phases
<1>3. ASSUME NEW f \in Flags, Enqueue(t, f),
             f = "read" => ~ReadFree
      PROVE  Count'
  <2>1. Readers' = Readers /\ Writers' = Writers
    BY <1>3, AcquireEffect
  <2>2. \A u \in Task : pc'[u] \notin WakePC
    BY <1>0, <1>3 DEF Enqueue, Goto
  <2>3. WriterFirst'
    <3>1. CASE wait_list = <<>>
      <4>1. Writers = {} => f = "write"
        BY <1>3, <3>1, CountFacts DEF ReadFree
      <4>2. Head(wait_list') = t /\ flags'[t] = f
        BY <1>3, <3>1 DEF Enqueue
      <4> QED
        BY <2>1, <4>1, <4>2 DEF WriterFirst
    <3>2. CASE wait_list # <<>>
      <4>0. Head(wait_list') = wait_list'[1] /\ wait_list'[1] = wait_list[1]
        BY <1>3, <3>2 DEF Enqueue
      <4>1. Head(wait_list') = Head(wait_list) /\ Head(wait_list) \in Task
            /\ Head(wait_list) # t
        BY <3>2, <4>0, Front
      <4>2. flags'[Head(wait_list)] = flags[Head(wait_list)]
        BY <1>3, <4>1 DEF Enqueue
      <4> QED
        BY <2>1, <3>2, <4>1, <4>2 DEF WriterFirst, Count
    <3> QED
      BY <3>1, <3>2
  <2> QED
    BY <1>3, <2>1, <2>2, <2>3 DEF Enqueue, Count, Exclusion, Phases
<1> QED
  BY <1>1, <1>2, <1>3

(* A release counts its task out; only the last reader, or a writer, goes   *)
(* on to the wake-up path, where what it has established is remembered.     *)
LEMMA CountRelease ==
  ASSUME Base, Listed, Count, NEW t \in Task, wait_lock = NoTask
  PROVE  /\ up_read(t) => Count'
         /\ up_write(t) => Count'
         /\ downgrade_write(t) => Count'
<1> USE TaskAssumption DEF waiters, tasks
<1>0. /\ \A u \in Task : pc[u] \notin WakePC
      /\ pc \in [Task -> PC]
  BY Alone DEF Base, Types
<1>1. ASSUME up_read(t) PROVE Count'
  <2>1. /\ Readers' = Readers \ {t} /\ Writers' = Writers
        /\ t \in Readers
    BY <1>1, ReleaseEffect
  <2>2. Writers = {} /\ activity = Cardinality(Readers)
    BY <2>1, CountFacts DEF Count, Exclusion
  <2>3. /\ Cardinality(Readers') = Cardinality(Readers) - 1
        /\ activity' = Cardinality(Readers')
    BY <1>1, <2>1, <2>2, CountFacts, CountRemove DEF up_read
  <2>4. activity' = 0 => Readers' = {}
    BY <2>1, <2>3, CountFacts, CountSubset
  <2>5. CASE activity - 1 = 0 /\ wait_list # <<>>
    <3>1. /\ wait_lock' = t /\ activity' = 0
          /\ \A u \in Task : pc'[u] \in WakePC => pc'[u] = "wake_one_writer"
          /\ UNCHANGED <<wait_list, flags>>
      BY <1>0, <1>1, <2>5 DEF up_read, StartWake, Goto
    <3>2. flags[Head(wait_list)] = "write"
      BY <2>2, <2>5 DEF Count, WriterFirst
    <3> QED
      BY <2>1, <2>2, <2>4, <3>1, <3>2
      DEF Count, Exclusion, WriterFirst, Phases, WakePC
  <2>6. CASE ~(activity - 1 = 0 /\ wait_list # <<>>)
    <3>1. /\ \A u \in Task : pc'[u] \notin WakePC
          /\ UNCHANGED <<wait_list, wait_lock, flags>>
      BY <1>0, <1>1, <2>6 DEF up_read, Goto, WakePC
    <3> QED
      BY <2>1, <2>2, <2>3, <3>1
      DEF Count, Exclusion, WriterFirst, Phases, WakePC
  <2> QED
    BY <2>5, <2>6
<1>2. ASSUME up_write(t) PROVE Count'
  <2>1. t \in Writers
    BY <1>2, ReleaseEffect
  <2>2. Writers = {t} /\ Readers = {}
    BY <2>1 DEF Count, Exclusion
  <2>3. Writers' = {} /\ Readers' = {}
    BY <1>2, <2>2, ReleaseEffect
  <2>4. Cardinality({}) = 0
    BY FS_EmptySet
  <2>5. activity' = 0 /\ UNCHANGED <<wait_list, flags>>
    BY <1>2 DEF up_write
  <2>6. CASE wait_list # <<>>
    <3>1. /\ wait_lock' = t
          /\ \A u \in Task : pc'[u] \in WakePC => pc'[u] = "do_wake"
      BY <1>0, <1>2, <2>6 DEF up_write, StartWake, Goto
    <3> QED
      BY <2>3, <2>4, <2>5, <3>1
      DEF Count, Exclusion, WriterFirst, Phases, WakePC
  <2>7. CASE wait_list = <<>>
    <3>1. \A u \in Task : pc'[u] \notin WakePC
      BY <1>0, <1>2, <2>7 DEF up_write, Goto, WakePC
    <3> QED
      BY <2>3, <2>4, <2>5, <2>7, <3>1
      DEF Count, Exclusion, WriterFirst, Phases, WakePC
  <2> QED
    BY <2>6, <2>7
<1>3. ASSUME downgrade_write(t) PROVE Count'
  <2>1. t \in Writers
    BY <1>3, ReleaseEffect
  <2>2. Writers = {t} /\ Readers = {}
    BY <2>1 DEF Count, Exclusion
  <2>3. Writers' = {} /\ Readers' = {t}
    BY <1>3, <2>2, ReleaseEffect
  <2>4. Cardinality({t}) = 1
    BY FS_Singleton
  <2>5. activity' = 1 /\ UNCHANGED <<wait_list, flags>>
    BY <1>3 DEF downgrade_write
  <2>6. CASE wait_list # <<>>
    <3>1. /\ wait_lock' = t /\ after' = "read"
          /\ \A u \in Task : pc'[u] \in WakePC => pc'[u] = "do_wake"
      BY <1>0, <1>3, <2>6 DEF downgrade_write, StartWake, Goto
    <3> QED
      BY <2>3, <2>4, <2>5, <3>1
      DEF Count, Exclusion, WriterFirst, Phases, WakePC
  <2>7. CASE wait_list = <<>>
    <3>1. \A u \in Task : pc'[u] \notin WakePC
      BY <1>0, <1>3, <2>7 DEF downgrade_write, Goto, WakePC
    <3> QED
      BY <2>3, <2>4, <2>5, <2>7, <3>1
      DEF Count, Exclusion, WriterFirst, Phases, WakePC
  <2> QED
    BY <2>6, <2>7
<1> QED
  BY <1>1, <1>2, <1>3

(* The wake-up path: a record granted at the front joins the holders, and   *)
(* the count catches up before wait_lock is released.                       *)
LEMMA CountWake ==
  ASSUME Base, Listed, Count, NEW t \in Task
  PROVE  /\ wake_one_writer(t) => Count'
         /\ do_wake_writer(t) => Count'
         /\ do_wake_out(t) => Count'
         /\ do_wake_readers(t) => Count'
         /\ readers_loop(t) => Count'
         /\ readers_done(t) => Count'
         /\ wake_reader(t) => Count'
         /\ wake_writer(t) => Count'
<1> USE TaskAssumption DEF waiters, tasks, locals, sem
<1>0. /\ pc \in [Task -> PC] /\ flags \in [Task -> Flags] /\ after \in {"idle", "read"}
      /\ waiter \in [Task -> Task \cup {NoTask}] /\ woken \in Nat /\ activity \in Int
      /\ pc[t] \in WakePC =>
           wait_lock = t /\ \A u \in Task \ {t} : pc[u] \notin WakePC
      /\ pc[t] \in {"wake_one_writer", "do_wake"} => wait_list # <<>>
      /\ pc[t] \in {"wake_one_writer", "wake_writer"} => after = "idle"
  BY Alone DEF Base, Types, Owner, SomebodyToWake
<1>1. ASSUME wake_one_writer(t) \/ do_wake_writer(t) PROVE Count'
  <2> DEFINE h == Head(wait_list)
  <2>1. /\ pc[t] \in {"wake_one_writer", "do_wake"} /\ after = "idle"
        /\ Readers = {} /\ Writers = {} /\ flags[h] = "write"
        /\ activity' = -1 /\ GrantFront /\ Goto(t, "wake_writer")
        /\ UNCHANGED <<wait_lock, flags, after>>
    BY <1>0, <1>1 DEF wake_one_writer, do_wake_writer, Count, Phases
  <2>2. wait_list # <<>>
    BY <1>0, <2>1
  <2>3. Writers' = {h} /\ Readers' = {}
    BY <2>1, <2>2, GrantEffect DEF WakePC
  <2>4. /\ wait_lock' # NoTask
        /\ \A u \in Task : pc'[u] \in WakePC => pc'[u] = "wake_writer"
    BY <1>0, <2>1 DEF Goto, WakePC
  <2> QED
    BY <2>1, <2>3, <2>4 DEF Count, Exclusion, WriterFirst, Phases, WakePC
<1>2. ASSUME do_wake_out(t) PROVE Count'
  <2>1. Readers' = Readers /\ Writers' = Writers
    BY <1>2, MoveEffect
  <2>2. /\ Writers = {} /\ activity = Cardinality(Readers)
        /\ flags[Head(wait_list)] = "write" /\ UNCHANGED <<wait_list, flags, activity>>
    BY <1>2 DEF do_wake_out, Count, Phases
  <2>3. \A u \in Task : pc'[u] \notin WakePC
    BY <1>0, <1>2 DEF do_wake_out, Unlock, Goto, WakePC
  <2> QED
    BY <2>1, <2>2, <2>3 DEF Count, Exclusion, WriterFirst, Phases, WakePC
<1>3. ASSUME do_wake_readers(t) PROVE Count'
  <2>1. Readers' = Readers /\ Writers' = Writers
    BY <1>3, MoveEffect
  <2>2. /\ Writers = {} /\ activity = Cardinality(Readers)
        /\ activity' = activity /\ woken' = 0
    BY <1>3 DEF do_wake_readers, Count, Phases
  <2>3. /\ wait_lock' # NoTask
        /\ \A u \in Task : pc'[u] \in WakePC => pc'[u] = "readers"
    BY <1>0, <1>3 DEF do_wake_readers, Goto, WakePC
  <2>4. Cardinality(Readers) \in Nat
    BY CountFacts
  <2> QED
    BY <2>1, <2>2, <2>3, <2>4 DEF Count, Exclusion, WriterFirst, Phases, WakePC
<1>4. ASSUME readers_loop(t) PROVE Count'
  <2> DEFINE h == Head(wait_list)
  <2>1. wait_list # <<>> /\ h \notin Readers /\ flags[h] = "read"
    BY <1>4, Front DEF readers_loop, ReaderAtFront
  <2>2. Readers' = Readers \cup {h} /\ Writers' = Writers
    BY <1>4, <2>1, GrantEffect DEF readers_loop, WakePC
  <2>3. Cardinality(Readers') = Cardinality(Readers) + 1
    BY <2>1, <2>2, CountFacts, CountAdd
  <2>4. /\ Writers = {} /\ activity \in Nat /\ activity + woken = Cardinality(Readers)
        /\ activity' = activity /\ woken' = woken
    BY <1>4 DEF readers_loop, Count, Phases
  <2>5. /\ wait_lock' # NoTask
        /\ \A u \in Task : pc'[u] \in WakePC => pc'[u] = "wake_reader"
    BY <1>0, <1>4 DEF readers_loop, Goto, WakePC
  <2> QED
    BY <1>0, <2>2, <2>3, <2>4, <2>5 DEF Count, Exclusion, WriterFirst, Phases, WakePC
<1>5. ASSUME readers_done(t) PROVE Count'
  <2>1. Readers' = Readers /\ Writers' = Writers
    BY <1>5, MoveEffect
  <2>2. /\ Writers = {} /\ activity' = Cardinality(Readers)
        /\ UNCHANGED <<wait_list, flags>>
    BY <1>5 DEF readers_done, Count, Phases
  <2>3. wait_list # <<>> => flags[Head(wait_list)] = "write"
    BY <1>0, <1>5, Front DEF readers_done, ReaderAtFront, Flags
  <2>4. \A u \in Task : pc'[u] \notin WakePC
    BY <1>0, <1>5 DEF readers_done, Unlock, Goto, WakePC
  <2> QED
    BY <2>1, <2>2, <2>3, <2>4 DEF Count, Exclusion, WriterFirst, Phases, WakePC
<1>6. ASSUME wake_reader(t) PROVE Count'
  <2>1. Readers' = Readers /\ Writers' = Writers
    BY <1>6, MoveEffect
  <2>2. /\ Writers = {} /\ activity \in Nat
        /\ activity + woken + 1 = Cardinality(Readers)
        /\ activity' = activity /\ woken' = woken + 1
    BY <1>6 DEF wake_reader, Count, Phases
  <2>3. /\ wait_lock' # NoTask
        /\ \A u \in Task : pc'[u] \in WakePC => pc'[u] = "readers"
    BY <1>0, <1>6 DEF wake_reader, Goto, WakePC
  <2> QED
    BY <1>0, <2>1, <2>2, <2>3 DEF Count, Exclusion, WriterFirst, Phases, WakePC
<1>7. ASSUME wake_writer(t) PROVE Count'
  <2>1. Readers' = Readers /\ Writers' = Writers
    BY <1>7, MoveEffect
  <2>2. Writers # {} /\ activity' = -1
    BY <1>7 DEF wake_writer, Count, Phases
  <2>3. \A u \in Task : pc'[u] \notin WakePC
    BY <1>0, <1>7 DEF wake_writer, Unlock, Goto, WakePC
  <2> QED
    BY <2>1, <2>2, <2>3 DEF Count, Exclusion, WriterFirst, Phases, WakePC
<1> QED
  BY <1>1, <1>2, <1>3, <1>4, <1>5, <1>6, <1>7

(* The wait loop and the environment change nobody's hold. *)
LEMMA CountMove ==
  ASSUME Base, Listed, Count, NEW t \in Task,
         \/ wait_check(t) \/ schedule_return(t)
         \/ spurious_wakeup(t) \/ do_exit(t)
  PROVE  Count'
<1> USE DEF sem, waiters, locals
<1>0. /\ pc \in [Task -> PC] /\ flags \in [Task -> Flags]
      /\ UNCHANGED <<activity, wait_list, wait_lock, waiter, flags, woken, after>>
  BY DEF Base, Types, wait_check, schedule_return, spurious_wakeup, do_exit
<1>1. Readers' = Readers /\ Writers' = Writers
  BY MoveEffect
<1>2. \A u \in Task : pc'[u] \in WakePC \/ pc[u] \in WakePC => pc'[u] = pc[u]
  BY <1>0
  DEF wait_check, schedule_return, spurious_wakeup, do_exit, Goto, WakePC, Flags
<1> QED
  BY <1>0, <1>1, <1>2, CountSame DEF Count, WriterFirst

(* Every step keeps the count exact and the writer first. *)
LEMMA CountNext == Base /\ Listed /\ Count /\ [Next]_vars => Count'
<1> SUFFICES ASSUME Base, Listed, Count, [Next]_vars PROVE Count'
  OBVIOUS
<1>1. CASE UNCHANGED vars
  <2>1. Readers' = Readers /\ Writers' = Writers
    BY <1>1 DEF vars, Readers, Writers, Granted
  <2> QED
    BY <1>1, <2>1 DEF vars, Count, Exclusion, WriterFirst, Phases
<1>2. ASSUME NEW t \in Task, Acquire(t) PROVE Count'
  BY <1>2, CountAcquire
  DEF Acquire, down_read, down_write, down_read_trylock, down_write_trylock
<1>3. ASSUME NEW t \in Task, up_read(t) \/ up_write(t) \/ downgrade_write(t)
      PROVE  Count'
  <2>1. wait_lock = NoTask
    BY <1>3 DEF up_read, up_write, downgrade_write
  <2> QED
    BY <1>3, <2>1, CountRelease
<1>4. ASSUME NEW t \in Task, Wakeup(t) PROVE Count'
  BY <1>4, CountWake DEF Wakeup
<1>5. ASSUME NEW t \in Task,
             wait_check(t) \/ schedule_return(t) \/ spurious_wakeup(t) \/ do_exit(t)
      PROVE  Count'
  BY <1>5, CountMove
<1> QED
  BY <1>1, <1>2, <1>3, <1>4, <1>5 DEF Next
-----------------------------------------------------------------------------
(* The holders of references to a task, besides the task itself. *)
Linked(t) == \E i \in 1..Len(wait_list) : wait_list[i] = t

WakerPC == {"wake_reader", "wake_writer"}

BeingWoken(t) == tsk = t /\ \E u \in Task : pc[u] \in WakerPC

(* One reference for the task's life, one for its record on the list or, a  *)
(* moment later, for the waker that is about to wake it.                    *)
Refs ==
  \A t \in Task :
    usage[t] = (IF pc[t] # "dead" THEN 1 ELSE 0)
               + (IF Linked(t) THEN 1 ELSE 0)
               + (IF BeingWoken(t) THEN 1 ELSE 0)

(* Every task starts with the reference for its life. *)
LEMMA RefsInit == Init => Refs
<1> SUFFICES ASSUME Init, NEW t \in Task
             PROVE  usage[t] = 1 /\ pc[t] # "dead" /\ ~Linked(t) /\ ~BeingWoken(t)
  BY DEF Refs
<1> QED
  BY DEF Init, Linked, BeingWoken, WakerPC

(* A task that moves without taking or dropping a reference. *)
LEMMA RefsMove ==
  ASSUME Base, Refs, NEW t \in Task, NEW l \in PC \ (WakerPC \cup {"dead"}),
         Goto(t, l), pc[t] \notin WakerPC \cup {"dead"},
         UNCHANGED <<wait_list, usage, tsk>>
  PROVE  Refs'
<1>1. pc \in [Task -> PC]
  BY DEF Base, Types
<1>2. ASSUME NEW u \in Task
      PROVE  /\ Linked(u)' <=> Linked(u)
             /\ BeingWoken(u)' <=> BeingWoken(u)
             /\ pc'[u] = "dead" <=> pc[u] = "dead"
  <2>1. \A v \in Task : pc'[v] \in WakerPC <=> pc[v] \in WakerPC
    BY <1>1 DEF Goto
  <2> QED
    BY <1>1, <2>1 DEF Goto, Linked, BeingWoken
<1> QED
  BY <1>2 DEF Refs

(* The record's reference passes from the list to the waker. *)
LEMMA RefsGrant ==
  ASSUME Base, Listed, Refs, wait_list # <<>>, GrantFront,
         NEW t \in Task, pc[t] \in WakePC \ WakerPC,
         NEW l \in WakerPC, Goto(t, l), UNCHANGED usage
  PROVE  Refs'
<1> DEFINE n == Len(wait_list)
           h == Head(wait_list)
<1>1. /\ n \in Nat /\ n >= 1 /\ Len(wait_list') = n - 1
      /\ \A i \in 1..(n - 1) : wait_list'[i] = wait_list[i + 1]
      /\ pc \in [Task -> PC]
  BY DEF GrantFront, Base, Types
<1>2. h = wait_list[1] /\ h \in Task /\ pc[h] # "dead" /\ tsk' = h
  BY Front DEF GrantFront
<1>3. \A v \in Task : pc[v] \notin WakerPC
  BY Alone DEF WakerPC, WakePC
<1>4. pc'[t] \in WakerPC
  BY <1>1 DEF Goto
<1>5. ASSUME NEW u \in Task
      PROVE  /\ Linked(u)' <=> Linked(u) /\ u # h
             /\ BeingWoken(u)' <=> u = h
             /\ ~BeingWoken(u)
             /\ pc'[u] = "dead" <=> pc[u] = "dead"
  <2>1. Linked(u)' => Linked(u) /\ u # h
    <3> SUFFICES ASSUME NEW i \in 1..(n - 1), wait_list'[i] = u
                 PROVE  Linked(u) /\ u # h
      BY <1>1 DEF Linked
    <3>1. i + 1 \in 1..n /\ wait_list[i + 1] = u /\ i + 1 # 1 /\ 1 \in 1..n
      BY <1>1
    <3> QED
      BY <1>2, <3>1 DEF Linked, Listed
  <2>2. Linked(u) /\ u # h => Linked(u)'
    <3> SUFFICES ASSUME NEW i \in 1..n, wait_list[i] = u, u # h
                 PROVE  Linked(u)'
      BY DEF Linked
    <3>1. i - 1 \in 1..(n - 1) /\ wait_list'[i - 1] = u
      BY <1>1, <1>2
    <3> QED
      BY <1>1, <3>1 DEF Linked
  <2>3. BeingWoken(u)' <=> u = h
    BY <1>2, <1>4 DEF BeingWoken
  <2>4. ~BeingWoken(u)
    BY <1>3 DEF BeingWoken
  <2>5. pc'[u] = "dead" <=> pc[u] = "dead"
    BY <1>1 DEF Goto, WakerPC, WakePC
  <2> QED
    BY <2>1, <2>2, <2>3, <2>4, <2>5
<1>6. Linked(h)
  BY <1>1, <1>2 DEF Linked
<1> QED
  BY <1>2, <1>5, <1>6 DEF Refs

(* put_task_struct drops the waker's reference. *)
LEMMA RefsPut ==
  ASSUME Base, Refs, NEW t \in Task, pc[t] \in WakerPC,
         NEW l \in {"idle", "read", "readers"}, Goto(t, l), WakeAndPut,
         UNCHANGED <<wait_list, tsk>>
  PROVE  Refs'
<1>1. pc \in [Task -> PC] /\ usage \in [Task -> Int] /\ tsk \in Task
  BY DEF Base, Types, SomebodyToWake, WakerPC
<1>2. \A v \in Task : pc'[v] \notin WakerPC
  BY <1>1, Alone DEF Goto, WakerPC, WakePC
<1>3. ASSUME NEW u \in Task
      PROVE  /\ Linked(u)' <=> Linked(u)
             /\ BeingWoken(u) <=> u = tsk
             /\ ~BeingWoken(u)'
             /\ pc'[u] = "dead" <=> pc[u] = "dead"
             /\ usage'[u] = IF u = tsk THEN usage[u] - 1 ELSE usage[u]
  <2>1. Linked(u)' <=> Linked(u)
    BY DEF Linked
  <2>2. (BeingWoken(u) <=> u = tsk) /\ ~BeingWoken(u)'
    BY <1>2 DEF BeingWoken
  <2>3. /\ pc'[u] = "dead" <=> pc[u] = "dead"
        /\ usage'[u] = IF u = tsk THEN usage[u] - 1 ELSE usage[u]
    BY <1>1 DEF Goto, WakerPC, WakeAndPut
  <2> QED
    BY <2>1, <2>2, <2>3
<1> QED
  BY <1>1, <1>3 DEF Refs

(* A task that queues itself takes the reference its waker will drop. *)
LEMMA RefsEnqueue ==
  ASSUME Base, Listed, Refs, NEW t \in Task, NEW f \in Flags, pc[t] = "idle",
         Enqueue(t, f)
  PROVE  Refs'
<1>1. /\ pc \in [Task -> PC] /\ usage \in [Task -> Int] /\ wait_list \in Seq(Task)
      /\ tsk' = tsk
  BY DEF Base, Types, Enqueue, locals
<1>2. /\ Len(wait_list) \in Nat /\ Len(wait_list') = Len(wait_list) + 1
      /\ wait_list'[Len(wait_list) + 1] = t
      /\ \A i \in 1..Len(wait_list) : wait_list'[i] = wait_list[i]
  BY <1>1 DEF Enqueue
<1>3. ASSUME NEW u \in Task
      PROVE  /\ Linked(u)' <=> Linked(u) \/ u = t
             /\ BeingWoken(u)' <=> BeingWoken(u)
             /\ pc'[u] = "dead" <=> pc[u] = "dead"
             /\ usage'[u] = IF u = t THEN usage[u] + 1 ELSE usage[u]
  <2>1. Linked(u)' <=> Linked(u) \/ u = t
    BY <1>2 DEF Linked
  <2>2. \A v \in Task : pc'[v] \in WakerPC <=> pc[v] \in WakerPC
    BY <1>1 DEF Enqueue, Goto, WakerPC
  <2>3. BeingWoken(u)' <=> BeingWoken(u)
    BY <1>1, <2>2 DEF BeingWoken
  <2>4. /\ pc'[u] = "dead" <=> pc[u] = "dead"
        /\ usage'[u] = IF u = t THEN usage[u] + 1 ELSE usage[u]
    BY <1>1 DEF Enqueue, Goto
  <2> QED
    BY <2>1, <2>3, <2>4
<1>4. ~Linked(t)
  BY DEF Linked, Listed
<1> QED
  BY <1>1, <1>3, <1>4 DEF Refs

(* A task that exits drops the reference it was created with. *)
LEMMA RefsExit ==
  ASSUME Base, Refs, NEW t \in Task, do_exit(t)
  PROVE  Refs'
<1>1. /\ pc \in [Task -> PC] /\ usage \in [Task -> Int]
      /\ UNCHANGED <<wait_list, tsk>>
  BY DEF Base, Types, do_exit, sem, locals
<1>2. ASSUME NEW u \in Task
      PROVE  /\ Linked(u)' <=> Linked(u)
             /\ BeingWoken(u)' <=> BeingWoken(u)
             /\ pc'[u] = "dead" <=> pc[u] = "dead" \/ u = t
             /\ usage'[u] = IF u = t THEN usage[u] - 1 ELSE usage[u]
  <2>1. \A v \in Task : pc'[v] \in WakerPC <=> pc[v] \in WakerPC
    BY <1>1 DEF do_exit, Goto, WakerPC
  <2> QED
    BY <1>1, <2>1 DEF do_exit, Goto, Linked, BeingWoken
<1>3. pc[t] = "idle"
  BY DEF do_exit
<1> QED
  BY <1>1, <1>2, <1>3 DEF Refs

(* Every step keeps the references exact. *)
LEMMA RefsNext == Base /\ Listed /\ Refs /\ [Next]_vars => Refs'
<1> SUFFICES ASSUME Base, Listed, Refs, [Next]_vars PROVE Refs'
  OBVIOUS
<1> USE DEF Flags, PC, WakePC, WakerPC, sem, waiters, tasks, locals
<1>0. /\ flags \in [Task -> Flags] /\ after \in {"idle", "read"}
      /\ pc \in [Task -> PC]
  BY DEF Base, Types
<1>1. CASE UNCHANGED vars
  BY <1>1 DEF vars, Refs, Linked, BeingWoken
<1>2. ASSUME NEW t \in Task, Acquire(t) PROVE Refs'
  <2>1. CASE GrantRead(t) /\ pc[t] = "idle"
    BY <2>1, RefsMove DEF GrantRead
  <2>2. CASE GrantWrite(t) /\ pc[t] = "idle"
    BY <2>2, RefsMove DEF GrantWrite
  <2>3. ASSUME NEW f \in Flags, Enqueue(t, f), pc[t] = "idle" PROVE Refs'
    BY <2>3, RefsEnqueue
  <2> QED
    BY <1>2, <2>1, <2>2, <2>3
    DEF Acquire, down_read, down_write, down_read_trylock, down_write_trylock
<1>3. ASSUME NEW t \in Task, wait_check(t) PROVE Refs'
  <2>1. CASE waiter[t] = NoTask
    BY <1>0, <1>3, <2>1, RefsMove DEF wait_check
  <2>2. CASE waiter[t] # NoTask
    BY <1>3, <2>2, RefsMove DEF wait_check
  <2> QED
    BY <2>1, <2>2
<1>4. ASSUME NEW t \in Task, schedule_return(t) PROVE Refs'
  BY <1>4, RefsMove DEF schedule_return
<1>5. ASSUME NEW t \in Task, spurious_wakeup(t) PROVE Refs'
  BY <1>5 DEF spurious_wakeup, Refs, Linked, BeingWoken
<1>6. ASSUME NEW t \in Task, do_exit(t) PROVE Refs'
  BY <1>6, RefsExit
<1>7. ASSUME NEW t \in Task, up_read(t) PROVE Refs'
  BY <1>7, RefsMove DEF up_read, StartWake
<1>8. ASSUME NEW t \in Task, up_write(t) PROVE Refs'
  BY <1>8, RefsMove DEF up_write, StartWake
<1>9. ASSUME NEW t \in Task, downgrade_write(t) PROVE Refs'
  BY <1>9, RefsMove DEF downgrade_write, StartWake
<1>10. ASSUME NEW t \in Task,
              wake_one_writer(t) \/ do_wake_writer(t) \/ readers_loop(t)
       PROVE  Refs'
  BY <1>10, RefsGrant
  DEF wake_one_writer, do_wake_writer, readers_loop, ReaderAtFront, Base,
      SomebodyToWake
<1>11. ASSUME NEW t \in Task, do_wake_out(t) PROVE Refs'
  BY <1>0, <1>11, RefsMove DEF do_wake_out, Unlock
<1>12. ASSUME NEW t \in Task, readers_done(t) PROVE Refs'
  BY <1>0, <1>12, RefsMove DEF readers_done, Unlock
<1>13. ASSUME NEW t \in Task, wake_writer(t) PROVE Refs'
  BY <1>0, <1>13, RefsPut DEF wake_writer, Unlock
<1>14. ASSUME NEW t \in Task, do_wake_readers(t) PROVE Refs'
  BY <1>14, RefsMove DEF do_wake_readers
<1>15. ASSUME NEW t \in Task, wake_reader(t) PROVE Refs'
  BY <1>15, RefsPut DEF wake_reader
<1> QED
  BY <1>1, <1>2, <1>3, <1>4, <1>5, <1>6, <1>7, <1>8, <1>9, <1>10, <1>11, <1>12,
     <1>13, <1>14, <1>15
  DEF Next, Wakeup
-----------------------------------------------------------------------------
(* The inductive invariant, and the properties it implies. *)
IInv == Base /\ Listed /\ Count /\ Refs

(* IInv is inductive. *)
LEMMA Inductive == Spec => []IInv
<1>1. Init => IInv
  BY BaseInit, ListedInit, CountInit, RefsInit DEF IInv
<1>2. IInv /\ [Next]_vars => IInv'
  BY BaseNext, ListedNext, CountNext, RefsNext DEF IInv
<1> QED
  BY <1>1, <1>2, PTL DEF Spec

(* The bounds on sem->activity and on the reference counts. *)
LEMMA IInvTypeOK == IInv => TypeOK
<1> SUFFICES ASSUME IInv PROVE TypeOK
  OBVIOUS
<1>1. /\ Cardinality(Readers) \in Nat /\ Cardinality(Task) \in Nat
      /\ Cardinality(Readers) <= Cardinality(Task)
  BY CountSubset, CountFacts DEF IInv
<1>2. activity \in -1..Cardinality(Task)
  <2>1. CASE wait_lock = NoTask
    BY <1>1, <2>1 DEF IInv, Count, Exclusion
  <2>2. CASE wait_lock # NoTask
    <3>1. PICK t \in Task : pc[t] \in WakePC
      BY <2>2 DEF IInv, Base, Types, Owner
    <3>2. woken \in Nat /\ activity \in Int
      BY DEF IInv, Base, Types
    <3> QED
      BY <1>1, <3>1, <3>2 DEF IInv, Count, Phases, WakePC
  <2> QED
    BY <2>1, <2>2
<1>3. usage \in [Task -> Nat]
  <2>1. \A t \in Task : usage[t] \in Nat
    BY DEF IInv, Refs
  <2> QED
    BY <2>1 DEF IInv, Base, Types
<1> QED
  BY <1>2, <1>3 DEF IInv, Base, Types, TypeOK

(* Who is about to be woken has the waker's reference. *)
LEMMA IInvWakeTargetAlive == IInv => WakeTargetAlive
<1> SUFFICES ASSUME IInv PROVE WakeTargetAlive
  OBVIOUS
<1>1. ASSUME NEW t \in Task, pc[t] \in {"wake_reader", "wake_writer"}
      PROVE  usage[tsk] > 0
  <2>1. tsk \in Task
    BY <1>1 DEF IInv, Base, SomebodyToWake
  <2>2. BeingWoken(tsk)
    BY <1>1 DEF BeingWoken, WakerPC
  <2> QED
    BY <2>1, <2>2 DEF IInv, Refs
<1>2. DOMAIN wait_list = 1..Len(wait_list)
  BY DEF IInv, Base, Types
<1> QED
  BY <1>1, <1>2 DEF IInv, Listed, WakeTargetAlive

(* What the last reader established when it left. *)
LEMMA IInvLastReaderWakesWriter == IInv => LastReaderWakesWriter
BY DEF IInv, Base, SomebodyToWake, Count, Phases, LastReaderWakesWriter

(* The values of the variables stay in their types: sem->activity never     *)
(* leaves -1..#tasks and no reference count of lib/rwsem-spinlock.c's       *)
(* waiters goes below zero.                                                 *)
THEOREM TypesHold == Spec => []TypeOK
BY Inductive, IInvTypeOK, PTL

(* Writers exclude everybody, and sem->activity agrees with who is inside   *)
(* whenever wait_lock is free, for any number of tasks.                     *)
THEOREM ExclusionHolds == Spec => []Exclusion
<1>1. IInv => Exclusion
  BY DEF IInv, Count
<1> QED
  BY <1>1, Inductive, PTL

(* __rwsem_wake_one_writer, which does not look at waiter->flags, always    *)
(* finds a writer at the front of the list.                                 *)
THEOREM LastReaderWakesWriterHolds == Spec => []LastReaderWakesWriter
BY Inductive, IInvLastReaderWakesWriter, PTL

(* The task that __rwsem_do_wake and __rwsem_wake_one_writer wake is        *)
(* referenced, and the list runs only through stack frames still in use.    *)
THEOREM WakeTargetAliveHolds == Spec => []WakeTargetAlive
BY Inductive, IInvWakeTargetAlive, PTL
-----------------------------------------------------------------------------
(* The refinement.  First, what the steps do to the abstract queue. *)
Record(t, f) == [task |-> t, mode |-> f]

QueueOf(s, g) == [i \in DOMAIN s |-> Record(s[i], g[s[i]])]

(* A function on 1..n is a sequence of length n. *)
LEMMA FunctionIsSeq ==
  ASSUME NEW S, NEW n \in Nat, NEW q \in [1..n -> S]
  PROVE  q \in Seq(S) /\ Len(q) = n
<1>1. q \in UNION {[1..k -> S] : k \in Nat}
  OBVIOUS
<1>2. q \in Seq(S)
  BY <1>1, SeqDef
<1> QED
  BY <1>2

(* The abstract queue is the list, record by record. *)
LEMMA QueueFacts ==
  ASSUME NEW s \in Seq(Task), NEW g \in [Task -> Flags]
  PROVE  /\ QueueOf(s, g) \in Seq([task : Task, mode : Flags])
         /\ Len(QueueOf(s, g)) = Len(s)
         /\ \A i \in 1..Len(s) : /\ s[i] \in Task
                                 /\ QueueOf(s, g)[i] = Record(s[i], g[s[i]])
         /\ QueueOf(s, g) = <<>> <=> s = <<>>
<1>1. DOMAIN s = 1..Len(s) /\ Len(s) \in Nat /\ \A i \in 1..Len(s) : s[i] \in Task
  OBVIOUS
<1>2. QueueOf(s, g) = [i \in 1..Len(s) |-> Record(s[i], g[s[i]])]
  BY <1>1 DEF QueueOf
<1>3. \A i \in 1..Len(s) : Record(s[i], g[s[i]]) \in [task : Task, mode : Flags]
  BY <1>1 DEF Record
<1>4. QueueOf(s, g) \in [1..Len(s) -> [task : Task, mode : Flags]]
  BY <1>2, <1>3
<1>5. QueueOf(s, g) \in Seq([task : Task, mode : Flags]) /\ Len(QueueOf(s, g)) = Len(s)
  BY <1>1, <1>4, FunctionIsSeq, ZenonT(60)
<1>6. QueueOf(s, g) = <<>> <=> s = <<>>
  BY <1>1, <1>5
<1> QED
  BY <1>1, <1>2, <1>5, <1>6

(* A queueing task, not linked yet, is appended. *)
LEMMA QueueAppend ==
  ASSUME NEW s \in Seq(Task), NEW g \in [Task -> Flags], NEW t \in Task,
         NEW f \in Flags, \A i \in 1..Len(s) : s[i] # t
  PROVE  QueueOf(Append(s, t), [g EXCEPT ![t] = f]) =
           Append(QueueOf(s, g), Record(t, f))
<1> DEFINE n == Len(s)
           s2 == Append(s, t)
           g2 == [g EXCEPT ![t] = f]
           Q == QueueOf(s, g)
           Q2 == QueueOf(s2, g2)
           R == [task : Task, mode : Flags]
<1>1. /\ n \in Nat /\ s2 \in Seq(Task) /\ Len(s2) = n + 1 /\ s2[n + 1] = t
      /\ \A i \in 1..n : s2[i] = s[i] /\ s[i] \in Task
      /\ g2 \in [Task -> Flags] /\ g2[t] = f
      /\ \A u \in Task : u # t => g2[u] = g[u]
  OBVIOUS
<1> HIDE DEF s2, g2
<1>2. /\ Q \in Seq(R) /\ Len(Q) = n
      /\ \A i \in 1..n : Q[i] = Record(s[i], g[s[i]])
  BY QueueFacts
<1>3. /\ Q2 \in Seq(R) /\ Len(Q2) = n + 1
      /\ \A i \in 1..(n + 1) : Q2[i] = Record(s2[i], g2[s2[i]])
  <2>1. /\ Q2 \in Seq(R) /\ Len(Q2) = Len(s2)
        /\ \A i \in 1..Len(s2) : Q2[i] = Record(s2[i], g2[s2[i]])
    BY <1>1, QueueFacts, ZenonT(60)
  <2> QED
    BY <1>1, <2>1
<1> HIDE DEF Q, Q2
<1>4. \A i \in 1..n : Q2[i] = Q[i]
  BY <1>1, <1>2, <1>3
<1>5. Q2[n + 1] = Record(t, f) /\ Record(t, f) \in R
  BY <1>1, <1>3 DEF Record
<1>6. /\ Append(Q, Record(t, f)) \in Seq(R) /\ Len(Append(Q, Record(t, f))) = n + 1
      /\ \A i \in 1..n : Append(Q, Record(t, f))[i] = Q[i]
      /\ Append(Q, Record(t, f))[n + 1] = Record(t, f)
  BY <1>1, <1>2, <1>5
<1> HIDE DEF R
<1>7. Q2 = Append(Q, Record(t, f))
  BY <1>1, <1>3, <1>4, <1>5, <1>6
<1> QED
  BY <1>7 DEF Q, Q2, s2, g2

(* Granting the first record takes it off the queue. *)
LEMMA QueueTail ==
  ASSUME NEW s \in Seq(Task), NEW g \in [Task -> Flags], s # <<>>
  PROVE  LET Q == QueueOf(s, g) IN
         /\ Q # <<>> /\ Head(Q) = Record(Head(s), g[Head(s)])
         /\ Q[1] = Head(Q) /\ 1 \in 1..Len(Q)
         /\ QueueOf(Tail(s), g) = Tail(Q)
         /\ Tail(Q) = SubSeq(Q, 2, Len(Q))
<1> DEFINE n == Len(s)
           Q == QueueOf(s, g)
           Q2 == QueueOf(Tail(s), g)
           R == [task : Task, mode : Flags]
<1>1. /\ n \in Nat /\ n >= 1 /\ Tail(s) \in Seq(Task) /\ Len(Tail(s)) = n - 1
      /\ \A i \in 1..(n - 1) : Tail(s)[i] = s[i + 1]
      /\ Head(s) = s[1]
  OBVIOUS
<1>2. /\ Q \in Seq(R) /\ Len(Q) = n /\ Q # <<>>
      /\ \A i \in 1..n : Q[i] = Record(s[i], g[s[i]])
  BY QueueFacts
<1>3. /\ Q2 \in Seq(R) /\ Len(Q2) = n - 1
      /\ \A i \in 1..(n - 1) : Q2[i] = Record(Tail(s)[i], g[Tail(s)[i]])
  BY <1>1, QueueFacts
<1> HIDE DEF Q, Q2, R
<1>4. Head(Q) = Q[1] /\ 1 \in 1..Len(Q) /\ Q[1] = Record(Head(s), g[Head(s)])
  BY <1>1, <1>2
<1>5. /\ Tail(Q) \in Seq(R) /\ Len(Tail(Q)) = n - 1
      /\ \A i \in 1..(n - 1) : Tail(Q)[i] = Q[i + 1]
  BY <1>1, <1>2
<1>6. \A i \in 1..(n - 1) : Q2[i] = Q[i + 1]
  BY <1>1, <1>2, <1>3
<1>7. Q2 = Tail(Q)
  BY <1>1, <1>3, <1>5, <1>6
<1>8. Tail(Q) = SubSeq(Q, 2, Len(Q))
  BY <1>1, <1>2
<1> QED
  BY <1>2, <1>4, <1>7, <1>8 DEF Q, Q2

(* An unlocked semaphore maps to an unlocked one. *)
LEMMA SimulateInit == Init => Abstract!Init
<1> SUFFICES ASSUME Init PROVE Readers = {} /\ Writers = {} /\ Queue = <<>>
  BY DEF Abstract!Init
<1>1. Readers = {} /\ Writers = {}
  BY DEF Init, Readers, Writers, Granted, WakePC
<1>2. wait_list \in Seq(Task) /\ flags \in [Task -> Flags] /\ wait_list = <<>>
  BY DEF Init, Flags
<1>3. QueueOf(wait_list, flags) = <<>>
  BY <1>2, QueueFacts
<1> QED
  BY <1>1, <1>3 DEF Queue, QueueOf, Record

(* The abstract state after each kind of step. *)
LEMMA SimulateAcquire ==
  ASSUME IInv, NEW t \in Task, Acquire(t)
  PROVE  Abstract!Next
<1>0. /\ Base /\ Listed /\ Count /\ pc[t] = "idle" /\ wait_lock = NoTask
      /\ wait_list \in Seq(Task) /\ flags \in [Task -> Flags]
  BY DEF IInv, Base, Types, Acquire, down_read, down_write, down_read_trylock,
         down_write_trylock
<1>1. /\ Queue = QueueOf(wait_list, flags) /\ Queue' = QueueOf(wait_list', flags')
      /\ Queue = <<>> <=> wait_list = <<>>
  BY <1>0, QueueFacts DEF Queue, QueueOf, Record
<1>2. \A i \in 1..Len(wait_list) : wait_list[i] # t
  BY <1>0 DEF Listed
<1>3. t \notin Abstract!Holders \cup Abstract!Queued
  <2>1. \A i \in DOMAIN Queue : Queue[i].task # t
    BY <1>0, <1>2 DEF Queue
  <2> QED
    BY <1>0, <2>1, AcquireEffect DEF Abstract!Holders, Abstract!Queued
<1>4. ASSUME GrantRead(t) PROVE Abstract!Next
  <2>1. /\ Writers = {} /\ Queue = <<>>
        /\ Readers' = Readers \cup {t} /\ Writers' = Writers /\ Queue' = Queue
    BY <1>0, <1>1, <1>4, CountFacts, AcquireEffect DEF GrantRead, ReadFree, waiters
  <2>2. Abstract!AcquireRead(t)
    BY <1>3, <2>1 DEF Abstract!AcquireRead
  <2> QED
    BY <2>2 DEF Abstract!Next
<1>5. ASSUME GrantWrite(t) PROVE Abstract!Next
  <2>1. /\ Writers = {} /\ Readers = {} /\ Queue = <<>>
        /\ Readers' = Readers /\ Writers' = Writers \cup {t} /\ Queue' = Queue
    BY <1>0, <1>1, <1>5, CountFacts, AcquireEffect DEF GrantWrite, WriteFree, waiters
  <2>2. Abstract!AcquireWrite(t)
    BY <2>1 DEF Abstract!AcquireWrite, Abstract!Holders
  <2> QED
    BY <2>2 DEF Abstract!Next
<1>6. ASSUME NEW f \in Flags, Enqueue(t, f) PROVE Abstract!Next
  <2>1. Queue' = Append(Queue, Record(t, f))
    <3>1. wait_list' = Append(wait_list, t) /\ flags' = [flags EXCEPT ![t] = f]
      BY <1>6 DEF Enqueue
    <3> QED
      BY <1>0, <1>1, <1>2, <3>1, QueueAppend
  <2>2. Readers' = Readers /\ Writers' = Writers
    BY <1>0, <1>6, AcquireEffect
  <2>3. Abstract!Wait(t, f)
    BY <1>3, <2>1, <2>2 DEF Abstract!Wait, Record
  <2> QED
    BY <2>3 DEF Abstract!Next, Abstract!Mode, Flags
<1> QED
  BY <1>4, <1>5, <1>6
  DEF Acquire, down_read, down_write, down_read_trylock, down_write_trylock, Flags

(* A release or a downgrade is the abstract one; the queue is not touched. *)
LEMMA SimulateRelease ==
  ASSUME IInv, NEW t \in Task, up_read(t) \/ up_write(t) \/ downgrade_write(t)
  PROVE  Abstract!Next
<1>0. Base /\ wait_lock = NoTask
  BY DEF IInv, up_read, up_write, downgrade_write
<1>1. Queue' = Queue
  BY DEF up_read, up_write, downgrade_write, waiters, Queue
<1>2. CASE up_read(t)
  BY <1>0, <1>1, <1>2, ReleaseEffect DEF Abstract!Next, Abstract!ReleaseRead
<1>3. CASE up_write(t)
  BY <1>0, <1>1, <1>3, ReleaseEffect DEF Abstract!Next, Abstract!ReleaseWrite
<1>4. CASE downgrade_write(t)
  BY <1>0, <1>1, <1>4, ReleaseEffect DEF Abstract!Next, Abstract!Downgrade
<1> QED
  BY <1>2, <1>3, <1>4

(* Taking the front waiter off the list grants one abstract request: the   *)
(* writer, or a run of readers of length one.                              *)
LEMMA SimulateGrant ==
  ASSUME IInv, NEW t \in Task,
         wake_one_writer(t) \/ do_wake_writer(t) \/ readers_loop(t)
  PROVE  Abstract!Next
<1> DEFINE h == Head(wait_list)
<1>0. /\ Base /\ Listed /\ wait_list \in Seq(Task) /\ flags \in [Task -> Flags]
      /\ wait_list # <<>> /\ GrantFront /\ UNCHANGED <<flags, after>>
      /\ pc[t] \in WakePC
      /\ Goto(t, "wake_writer") \/ Goto(t, "wake_reader")
  BY DEF IInv, Base, Types, SomebodyToWake, wake_one_writer, do_wake_writer,
         readers_loop, ReaderAtFront, WakePC
<1>1. Queue = QueueOf(wait_list, flags) /\ Queue' = QueueOf(Tail(wait_list), flags)
  BY <1>0 DEF Queue, QueueOf, Record, GrantFront
<1>2. /\ Queue # <<>> /\ Head(Queue) = Record(h, flags[h])
      /\ Queue[1] = Head(Queue) /\ 1 \in 1..Len(Queue)
      /\ Queue' = Tail(Queue) /\ Tail(Queue) = SubSeq(Queue, 2, Len(Queue))
  BY <1>0, <1>1, QueueTail
<1>3. /\ flags[h] = "read" => Readers' = Readers \cup {h} /\ Writers' = Writers
      /\ flags[h] = "write" => Readers' = Readers /\ Writers' = Writers \cup {h}
  BY <1>0, GrantEffect DEF WakePC
<1>4. CASE wake_one_writer(t) \/ do_wake_writer(t)
  <2>1. flags[h] = "write" /\ Readers = {} /\ Writers = {}
    BY <1>4 DEF wake_one_writer, do_wake_writer, IInv, Count, Phases
  <2>2. Abstract!GrantWriter
    BY <1>2, <1>3, <2>1 DEF Abstract!GrantWriter, Abstract!Holders, Record
  <2> QED
    BY <2>2 DEF Abstract!Next
<1>5. CASE readers_loop(t)
  <2>1. flags[h] = "read" /\ Writers = {}
    BY <1>5 DEF readers_loop, ReaderAtFront, IInv, Count, Phases
  <2>2. {Queue[i].task : i \in 1..1} = {h} /\ \A i \in 1..1 : Queue[i].mode = "read"
    BY <1>2, <2>1 DEF Record
  <2>3. Readers' = Readers \cup {Queue[i].task : i \in 1..1} /\ Writers' = Writers
    <3>1. Readers' = Readers \cup {h} /\ Writers' = Writers
      BY <1>3, <2>1
    <3> HIDE DEF h
    <3> QED
      BY <2>2, <3>1, Zenon
  <2>4. Queue' = SubSeq(Queue, 1 + 1, Len(Queue))
    <3>1. 1 + 1 = 2
      OBVIOUS
    <3> QED
      BY <1>2, <3>1, Zenon
  <2>5. Abstract!GrantReaders(1)
    BY <2>1, <2>2, <2>3, <2>4, Zenon DEF Abstract!GrantReaders
  <2> QED
    BY <1>2, <2>5 DEF Abstract!Next
<1> QED
  BY <1>4, <1>5

(* Every step is a step of the abstract semaphore, or leaves it unchanged. *)
LEMMA SimulateNext == IInv /\ [Next]_vars => [Abstract!Next]_(Abstract!vars)
<1> SUFFICES ASSUME IInv, [Next]_vars
             PROVE  Abstract!Next \/ UNCHANGED <<Readers, Writers, Queue>>
  BY DEF Abstract!vars
<1>1. CASE UNCHANGED vars
  BY <1>1 DEF vars, Readers, Writers, Granted, Queue
<1>2. ASSUME NEW t \in Task, Acquire(t) PROVE Abstract!Next
  BY <1>2, SimulateAcquire
<1>3. ASSUME NEW t \in Task, up_read(t) \/ up_write(t) \/ downgrade_write(t)
      PROVE  Abstract!Next
  BY <1>3, SimulateRelease
<1>4. ASSUME NEW t \in Task,
             wake_one_writer(t) \/ do_wake_writer(t) \/ readers_loop(t)
      PROVE  Abstract!Next
  BY <1>4, SimulateGrant
<1>5. ASSUME NEW t \in Task,
             \/ do_wake_out(t) \/ do_wake_readers(t) \/ readers_done(t)
             \/ wake_reader(t) \/ wake_writer(t) \/ wait_check(t)
             \/ schedule_return(t) \/ spurious_wakeup(t) \/ do_exit(t)
      PROVE  UNCHANGED <<Readers, Writers, Queue>>
  <2>1. UNCHANGED <<wait_list, flags>>
    BY <1>5
    DEF do_wake_out, do_wake_readers, readers_done, wake_reader, wake_writer,
        wait_check, schedule_return, spurious_wakeup, do_exit, sem, waiters
  <2> QED
    BY <1>5, <2>1, MoveEffect DEF IInv, Queue
<1> QED
  BY <1>1, <1>2, <1>3, <1>4, <1>5 DEF Next, Wakeup

(* lib/rwsem-spinlock.c implements the read/write semaphore of RwSem, for   *)
(* any finite set of tasks.                                                 *)
THEOREM Refinement == Spec => RefinesRwSem
<1>1. Init => Abstract!Init
  BY SimulateInit
<1>2. IInv /\ [Next]_vars => [Abstract!Next]_(Abstract!vars)
  BY SimulateNext
<1> QED
  BY <1>1, <1>2, Inductive, PTL DEF Spec, RefinesRwSem, Abstract!Spec
=============================================================================
