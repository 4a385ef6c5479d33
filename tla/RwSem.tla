------------------------------- MODULE RwSem -------------------------------
(***************************************************************************)
(* What a kernel read/write semaphore promises its callers, independent of *)
(* how it is built (include/linux/rwsem.h declares the interface;          *)
(* lib/rwsem-spinlock.c and lib/rwsem.c are the two implementations):      *)
(*                                                                         *)
(*   - at most one writer, and never a writer beside a reader;             *)
(*   - nobody overtakes a task that has been queued: a task gets the       *)
(*     semaphore on arrival only when no ungranted task is queued, and the *)
(*     queue is granted from its front, a run of readers at a time;        *)
(*   - a downgrade keeps the lock: no other writer gets in between.        *)
(***************************************************************************)
EXTENDS Integers, Sequences

CONSTANT Task

VARIABLES
  readers,   \* tasks that hold the semaphore for reading
  writers,   \* tasks that hold it for writing
  queue      \* ungranted requests in arrival order: [task, mode] records

vars == <<readers, writers, queue>>

Mode == {"read", "write"}

Request == [task : Task, mode : Mode]

Holders == readers \cup writers

Queued == {queue[i].task : i \in DOMAIN queue}

Init ==
  /\ readers = {}
  /\ writers = {}
  /\ queue = <<>>

AcquireRead(t) ==
  /\ t \notin Holders \cup Queued
  /\ writers = {} /\ queue = <<>>
  /\ readers' = readers \cup {t}
  /\ UNCHANGED <<writers, queue>>

AcquireWrite(t) ==
  /\ Holders = {} /\ queue = <<>>
  /\ writers' = {t}
  /\ UNCHANGED <<readers, queue>>

Wait(t, m) ==
  /\ t \notin Holders \cup Queued
  /\ queue' = Append(queue, [task |-> t, mode |-> m])
  /\ UNCHANGED <<readers, writers>>

GrantWriter ==
  /\ queue # <<>> /\ Head(queue).mode = "write"
  /\ Holders = {}
  /\ writers' = {Head(queue).task}
  /\ queue' = Tail(queue)
  /\ UNCHANGED readers

(* The first n requests, all readers, are granted together. *)
GrantReaders(n) ==
  /\ writers = {}
  /\ \A i \in 1..n : queue[i].mode = "read"
  /\ readers' = readers \cup {queue[i].task : i \in 1..n}
  /\ queue' = SubSeq(queue, n + 1, Len(queue))
  /\ UNCHANGED writers

ReleaseRead(t) ==
  /\ t \in readers
  /\ readers' = readers \ {t}
  /\ UNCHANGED <<writers, queue>>

ReleaseWrite(t) ==
  /\ t \in writers
  /\ writers' = writers \ {t}
  /\ UNCHANGED <<readers, queue>>

Downgrade(t) ==
  /\ t \in writers
  /\ writers' = writers \ {t}
  /\ readers' = readers \cup {t}
  /\ UNCHANGED queue

Next ==
  \/ \E t \in Task : \/ AcquireRead(t) \/ AcquireWrite(t)
                     \/ \E m \in Mode : Wait(t, m)
                     \/ ReleaseRead(t) \/ ReleaseWrite(t) \/ Downgrade(t)
  \/ GrantWriter
  \/ \E n \in 1..Len(queue) : GrantReaders(n)

Spec == Init /\ [][Next]_vars
=============================================================================
