------------------------------ MODULE Workqueue ------------------------------
(***************************************************************************)
(* Work queues, kernel/workqueue.c, with the part of kernel/kthread.c that *)
(* stops their threads: one list and one worker thread per CPU, delayed    *)
(* works on timers, flushers that wait for sequence numbers, and CPUs that *)
(* go down and come up.                                                    *)
(*                                                                         *)
(* A region under cwq->lock is one step.  The worker is cut wherever it    *)
(* looks at the list, its own state or kthread_should_stop() unlocked, and *)
(* between taking a work off the list, clearing its pending bit, running   *)
(* it and counting it.                                                     *)
(***************************************************************************)
EXTENDS Integers, Sequences, FiniteSets

CONSTANTS
  NR_CPUS,
  Work,         \* work_struct structures
  Flushing,     \* those whose function flushes its own work queue
  NFlush,       \* how many tasks flush the queue from outside, once each
  MaxSubmit,    \* bound: how many times works are queued in all
  MaxDepth,     \* bound: how many works a worker is inside of at once
  MaxHotplug    \* bound: how many times a CPU goes down or comes up

ASSUME WorkqueueAssumption ==
  /\ NR_CPUS \in Nat \ {0} /\ Flushing \subseteq Work /\ NFlush \in Nat
  /\ MaxSubmit \in Nat /\ MaxDepth \in Nat \ {0} /\ MaxHotplug \in Nat

CPU == 0..(NR_CPUS - 1)
NoCPU == -1

(* Who calls flush_workqueue(): a task, or the work at depth d of the       *)
(* worker's stack on CPU c; and who may own cpucontrol besides.             *)
Outside == {<<"task", i, 0>> : i \in 1..NFlush}
Inside == {<<"work", c, d>> : c \in CPU, d \in 1..MaxDepth}
Flusher == Outside \cup Inside
Hotplug == <<"hotplug", 0, 0>>
Nobody == <<"nobody", 0, 0>>

VARIABLES
  single,       \* is_single_threaded(wq): only CPU 0's area is used
  pending,      \* work->pending
  timer,        \* work->timer is pending
  adding,       \* work -> CPU about to link it: pending won, or timer fired
  wq_data,      \* work->wq_data: a CPU's cwq, or NoCPU
  worklist,     \* cwq->worklist: linked works with their sequence numbers
  insert_sequence, remove_sequence,
  thread,       \* cwq->thread is not NULL
  wpc,          \* where the worker thread is
  wstate,       \* its task state
  waiting,      \* it is on cwq->more_work
  stack,        \* works it is inside of: nested run_workqueue() calls
  fl,           \* each flusher's progress through the CPUs
  cpucontrol,   \* owner of the hotplug semaphore
  online,       \* cpu_online_map
  hp,           \* cpu_down(): its phase, its CPU, and hotplug events so far
  submits       \* works queued so far

items == <<pending, timer, adding, wq_data>>
seqs == <<insert_sequence, remove_sequence>>
worker == <<wpc, wstate, waiting>>
plug == <<single, thread, online, hp>>
vars == <<items, worklist, seqs, worker, stack, fl, cpucontrol, plug, submits>>

(* An entry keeps the number it was inserted under, and whether its         *)
(* function has flushed the queue it runs on.                               *)
Entry == [work : Work, seq : Nat, flushed : BOOLEAN]

TypeOK ==
  /\ single \in BOOLEAN
  /\ pending \in [Work -> BOOLEAN] /\ timer \in [Work -> BOOLEAN]
  /\ adding \in [Work -> CPU \cup {NoCPU}]
  /\ wq_data \in [Work -> CPU \cup {NoCPU}]
  /\ worklist \in [CPU -> Seq(Entry)] /\ stack \in [CPU -> Seq(Entry)]
  /\ insert_sequence \in [CPU -> Nat] /\ remove_sequence \in [CPU -> Nat]
  /\ \A c \in CPU : remove_sequence[c] <= insert_sequence[c]
  /\ thread \in [CPU -> BOOLEAN]
  /\ wpc \in [CPU -> {"loop", "check", "sleep", "awake", "taken", "run", "exited"}]
  /\ wstate \in [CPU -> {"running", "interruptible"}]
  /\ waiting \in [CPU -> BOOLEAN]
  /\ fl \in [Flusher -> [pc : {"idle", "want", "visit", "wait", "done"},
                         todo : SUBSET CPU, cpu : CPU, needed : Nat]]
  /\ cpucontrol \in Flusher \cup {Hotplug, Nobody}
  /\ online \in SUBSET CPU
  /\ hp \in [phase : {"none", "dead", "stopping"}, cpu : CPU, n : 0..MaxHotplug]
  /\ submits \in 0..MaxSubmit

Init ==
  /\ single \in BOOLEAN
  /\ pending = [w \in Work |-> FALSE] /\ timer = [w \in Work |-> FALSE]
  /\ adding = [w \in Work |-> NoCPU] /\ wq_data = [w \in Work |-> NoCPU]
  /\ worklist = [c \in CPU |-> <<>>] /\ stack = [c \in CPU |-> <<>>]
  /\ insert_sequence = [c \in CPU |-> 0] /\ remove_sequence = [c \in CPU |-> 0]
  /\ thread = [c \in CPU |-> single => c = 0]
  /\ wpc = [c \in CPU |-> IF single /\ c # 0 THEN "exited" ELSE "loop"]
  /\ wstate = [c \in CPU |-> "interruptible"]
  /\ waiting = [c \in CPU |-> FALSE]
  /\ fl = [p \in Flusher |-> [pc |-> "idle", todo |-> {}, cpu |-> 0, needed |-> 0]]
  /\ cpucontrol = Nobody
  /\ online = CPU
  /\ hp = [phase |-> "none", cpu |-> 0, n |-> 0]
  /\ submits = 0

-----------------------------------------------------------------------------
(* Queueing. *)

(* Whose area a work submitted on CPU c goes to. *)
Area(c) == IF single THEN 0 ELSE c

(* test_and_set_bit(0, &work->pending), with preemption off on CPU c *)
queue_work(c, w) ==
  /\ c \in online /\ submits < MaxSubmit /\ ~pending[w]
  /\ pending' = [pending EXCEPT ![w] = TRUE]
  /\ adding' = [adding EXCEPT ![w] = Area(c)]
  /\ submits' = submits + 1
  /\ UNCHANGED <<timer, wq_data, worklist, seqs, worker, stack, fl, cpucontrol, plug>>

(* wq_data holds the work queue, and no CPU's area, until the timer runs.   *)
queue_delayed_work(w) ==
  /\ submits < MaxSubmit /\ ~pending[w]
  /\ pending' = [pending EXCEPT ![w] = TRUE]
  /\ wq_data' = [wq_data EXCEPT ![w] = NoCPU]
  /\ timer' = [timer EXCEPT ![w] = TRUE]
  /\ submits' = submits + 1
  /\ UNCHANGED <<adding, worklist, seqs, worker, stack, fl, cpucontrol, plug>>

(* The timer runs delayed_work_timer_fn() on some CPU. *)
timer_expires(w, c) ==
  /\ timer[w] /\ c \in online
  /\ timer' = [timer EXCEPT ![w] = FALSE]
  /\ adding' = [adding EXCEPT ![w] = Area(c)]
  /\ UNCHANGED <<pending, wq_data, worklist, seqs, worker, stack, fl, cpucontrol,
                 plug, submits>>

(* Mutant: the result of del_timer_sync() is ignored. *)
cancel_delayed_work_always(w) ==
  /\ pending[w]
  /\ timer' = [timer EXCEPT ![w] = FALSE]
  /\ pending' = [pending EXCEPT ![w] = FALSE]
  /\ UNCHANGED <<adding, wq_data, worklist, seqs, worker, stack, fl, cpucontrol,
                 plug, submits>>

(* A timer that has fired already leaves the work alone. *)
cancel_delayed_work(w) ==
  /\ timer[w]
  /\ timer' = [timer EXCEPT ![w] = FALSE]
  /\ pending' = [pending EXCEPT ![w] = FALSE]
  /\ UNCHANGED <<adding, wq_data, worklist, seqs, worker, stack, fl, cpucontrol,
                 plug, submits>>

(* wake_up(&cwq->more_work) *)
WakeWorker(c) ==
  wstate' = IF waiting[c] THEN [wstate EXCEPT ![c] = "running"] ELSE wstate

(* __queue_work() *)
link_work(w) ==
  LET c == adding[w] IN
  /\ c # NoCPU
  /\ wq_data' = [wq_data EXCEPT ![w] = c]
  /\ insert_sequence' = [insert_sequence EXCEPT ![c] = @ + 1]
  /\ worklist' = [worklist EXCEPT ![c] =
       Append(@, [work |-> w, seq |-> insert_sequence'[c], flushed |-> FALSE])]
  /\ WakeWorker(c)
  /\ adding' = [adding EXCEPT ![w] = NoCPU]
  /\ UNCHANGED <<pending, timer, remove_sequence, wpc, waiting, stack, fl,
                 cpucontrol, plug, submits>>

-----------------------------------------------------------------------------
(* worker_thread() *)

WGoto(c, l) == wpc' = [wpc EXCEPT ![c] = l]

SetState(c, s) == wstate' = [wstate EXCEPT ![c] = s]

should_stop(c) == hp.phase = "stopping" /\ hp.cpu = c

worker_loop(c) ==
  /\ wpc[c] = "loop" /\ ~should_stop(c)
  /\ waiting' = [waiting EXCEPT ![c] = TRUE]
  /\ WGoto(c, "check")
  /\ UNCHANGED <<items, worklist, seqs, wstate, stack, fl, cpucontrol, plug, submits>>

(* ... and kthread() completes kthread_stop_info.done *)
worker_exit(c) ==
  /\ wpc[c] = "loop" /\ should_stop(c)
  /\ SetState(c, "running")
  /\ WGoto(c, "exited")
  /\ UNCHANGED <<items, worklist, seqs, waiting, stack, fl, cpucontrol, plug, submits>>

(* Mutant: the state is set after the look at the list. *)
worker_check_late_state(c) ==
  /\ wpc[c] = "check"
  /\ IF worklist[c] = <<>>
     THEN WGoto(c, "sleep") /\ SetState(c, "interruptible")
     ELSE WGoto(c, "awake") /\ SetState(c, "running")
  /\ UNCHANGED <<items, worklist, seqs, waiting, stack, fl, cpucontrol, plug, submits>>

worker_check(c) ==
  /\ wpc[c] = "check"
  /\ IF worklist[c] = <<>>
     THEN WGoto(c, "sleep") /\ UNCHANGED wstate
     ELSE WGoto(c, "awake") /\ SetState(c, "running")
  /\ UNCHANGED <<items, worklist, seqs, waiting, stack, fl, cpucontrol, plug, submits>>

(* schedule() returns at once when a wakeup came first. *)
worker_wakes(c) ==
  /\ wpc[c] = "sleep" /\ wstate[c] = "running"
  /\ WGoto(c, "awake")
  /\ UNCHANGED <<items, worklist, seqs, wstate, waiting, stack, fl, cpucontrol,
                 plug, submits>>

(* run_workqueue(): take the first work off the list. *)
Dequeue(c, frames) ==
  /\ Len(frames) < MaxDepth
  /\ worklist' = [worklist EXCEPT ![c] = Tail(@)]
  /\ stack' = [stack EXCEPT ![c] = Append(frames, Head(worklist[c]))]
  /\ WGoto(c, "taken")

worker_awake(c) ==
  /\ wpc[c] = "awake"
  /\ waiting' = [waiting EXCEPT ![c] = FALSE]
  /\ \/ /\ worklist[c] # <<>>
        /\ Dequeue(c, stack[c])
        /\ UNCHANGED wstate
     \/ /\ worklist[c] = <<>>
        /\ SetState(c, "interruptible")
        /\ WGoto(c, "loop")
        /\ UNCHANGED <<worklist, stack>>
  /\ UNCHANGED <<items, seqs, fl, cpucontrol, plug, submits>>

Depth(c) == Len(stack[c])
Top(c) == stack[c][Depth(c)]
Me(c) == <<"work", c, Depth(c)>>

clear_pending(c) ==
  /\ wpc[c] = "taken"
  /\ pending' = [pending EXCEPT ![Top(c).work] = FALSE]
  /\ WGoto(c, "run")
  /\ UNCHANGED <<timer, adding, wq_data, worklist, seqs, wstate, waiting, stack,
                 fl, cpucontrol, plug, submits>>

(* f(data) has returned: count the work, and take the next or return from   *)
(* run_workqueue(), to the flush that called it or to worker_thread().      *)
work_done(c) ==
  LET outer == SubSeq(stack[c], 1, Depth(c) - 1) IN
  /\ wpc[c] = "run" /\ fl[Me(c)].pc = "idle"
  /\ remove_sequence' = [remove_sequence EXCEPT ![c] = @ + 1]
  /\ \/ /\ worklist[c] # <<>>
        /\ Dequeue(c, outer)
        /\ UNCHANGED wstate
     \/ /\ worklist[c] = <<>>
        /\ stack' = [stack EXCEPT ![c] = outer]
        /\ IF outer = <<>>
           THEN SetState(c, "interruptible") /\ WGoto(c, "loop")
           ELSE UNCHANGED <<wstate, wpc>>
        /\ UNCHANGED worklist
  /\ UNCHANGED <<items, insert_sequence, waiting, fl, cpucontrol, plug, submits>>

-----------------------------------------------------------------------------
(* flush_workqueue() *)

Flush(p, r) == fl' = [fl EXCEPT ![p] = r]

(* The caller has control of its CPU: a task always, a work when it is the  *)
(* innermost one and its function is running.                               *)
Runs(p) ==
  p \in Outside \/ (wpc[p[2]] = "run" /\ Depth(p[2]) = p[3])

flush_workqueue(p) ==
  /\ p \in Outside /\ fl[p].pc = "idle"
  /\ Flush(p, [fl[p] EXCEPT !.pc = "want"])
  /\ UNCHANGED <<items, worklist, seqs, worker, stack, cpucontrol, plug, submits>>

(* A work flushes the queue it is running from, once. *)
flush_own_queue(c) ==
  /\ wpc[c] = "run" /\ Top(c).work \in Flushing
  /\ ~Top(c).flushed /\ fl[Me(c)].pc = "idle"
  /\ Flush(Me(c), [fl[Me(c)] EXCEPT !.pc = "want"])
  /\ stack' = [stack EXCEPT ![c][Depth(c)].flushed = TRUE]
  /\ UNCHANGED <<items, worklist, seqs, worker, cpucontrol, plug, submits>>

(* lock_cpu_hotplug(): down(&cpucontrol), unless single-threaded *)
flush_lock(p) ==
  /\ fl[p].pc = "want" /\ Runs(p)
  /\ single \/ cpucontrol = Nobody
  /\ cpucontrol' = IF single THEN cpucontrol ELSE p
  /\ Flush(p, [pc |-> "visit", todo |-> IF single THEN {0} ELSE online,
               cpu |-> 0, needed |-> 0])
  /\ UNCHANGED <<items, worklist, seqs, worker, stack, plug, submits>>

NextCPU(s) == CHOOSE c \in s : \A d \in s : c <= d

(* flush_cpu_workqueue() of another thread's queue: sample the sequence.    *)
flush_sample(p) ==
  LET c == NextCPU(fl[p].todo) IN
  /\ fl[p].pc = "visit" /\ Runs(p) /\ fl[p].todo # {}
  /\ p \in Outside \/ p[2] # c \/ ~thread[c]
  /\ Flush(p, [pc |-> "wait", todo |-> fl[p].todo \ {c}, cpu |-> c,
               needed |-> insert_sequence[c]])
  /\ UNCHANGED <<items, worklist, seqs, worker, stack, cpucontrol, plug, submits>>

(* Mutant: off by one in the wait for the sequence. *)
flush_waited_off_by_one(p) ==
  /\ fl[p].pc = "wait"
  /\ fl[p].needed - remove_sequence[fl[p].cpu] <= 1
  /\ Flush(p, [fl[p] EXCEPT !.pc = "visit"])
  /\ UNCHANGED <<items, worklist, seqs, worker, stack, cpucontrol, plug, submits>>

flush_waited(p) ==
  /\ fl[p].pc = "wait"
  /\ fl[p].needed - remove_sequence[fl[p].cpu] <= 0
  /\ Flush(p, [fl[p] EXCEPT !.pc = "visit"])
  /\ UNCHANGED <<items, worklist, seqs, worker, stack, cpucontrol, plug, submits>>

(* ... and of one's own: run_workqueue() by hand. *)
flush_run(c) ==
  LET p == Me(c) IN
  /\ wpc[c] = "run" /\ fl[p].pc = "visit" /\ fl[p].todo # {}
  /\ NextCPU(fl[p].todo) = c /\ thread[c]
  /\ Flush(p, [fl[p] EXCEPT !.todo = @ \ {c}])
  /\ \/ worklist[c] # <<>> /\ Dequeue(c, stack[c])
     \/ worklist[c] = <<>> /\ UNCHANGED <<worklist, stack, wpc>>
  /\ UNCHANGED <<items, seqs, wstate, waiting, cpucontrol, plug, submits>>

flush_return(p) ==
  /\ fl[p].pc = "visit" /\ Runs(p) /\ fl[p].todo = {}
  /\ Flush(p, [fl[p] EXCEPT !.pc = IF p \in Outside THEN "done" ELSE "idle"])
  /\ cpucontrol' = IF single THEN cpucontrol ELSE Nobody
  /\ UNCHANGED <<items, worklist, seqs, worker, stack, plug, submits>>

-----------------------------------------------------------------------------
(* CPU hotplug: workqueue_cpu_callback(), which single-threaded queues are  *)
(* not subject to.                                                          *)

(* cpu_down() up to CPU_DEAD.  stop_machine waits for the sections of       *)
(* queue_work() and of timers that run with preemption off.                 *)
cpu_down(c) ==
  /\ ~single /\ hp.n < MaxHotplug /\ c \in online /\ online # {c}
  /\ cpucontrol = Nobody
  /\ \A w \in Work : adding[w] = NoCPU
  /\ cpucontrol' = Hotplug
  /\ online' = online \ {c}
  /\ hp' = [phase |-> "dead", cpu |-> c, n |-> hp.n + 1]
  /\ UNCHANGED <<items, worklist, seqs, worker, stack, fl, single, thread, submits>>

(* cleanup_workqueue_thread(): kthread_stop() up to its wait *)
cleanup_workqueue_thread ==
  /\ hp.phase = "dead"
  /\ thread' = [thread EXCEPT ![hp.cpu] = FALSE]
  /\ hp' = [hp EXCEPT !.phase = "stopping"]
  /\ SetState(hp.cpu, "running")
  /\ UNCHANGED <<items, worklist, seqs, wpc, waiting, stack, fl, cpucontrol,
                 single, online, submits>>

(* Mutant: the dead CPU's works are left on its list. *)
take_over_work_skipped(d) ==
  /\ hp.phase = "stopping" /\ wpc[hp.cpu] = "exited" /\ d \in online
  /\ hp' = [hp EXCEPT !.phase = "none"]
  /\ cpucontrol' = Nobody
  /\ UNCHANGED <<items, worklist, seqs, worker, stack, fl, single, thread, online,
                 submits>>

(* take_over_work(): __queue_work() each work on the CPU this runs on *)
take_over_work(d) ==
  LET old == worklist[hp.cpu]
      new == [i \in 1..Len(old) |->
                [old[i] EXCEPT !.seq = insert_sequence[d] + i]]
      moved == {old[i].work : i \in 1..Len(old)}
  IN
  /\ hp.phase = "stopping" /\ wpc[hp.cpu] = "exited" /\ d \in online
  /\ worklist' = [[worklist EXCEPT ![hp.cpu] = <<>>] EXCEPT ![d] = @ \o new]
  /\ insert_sequence' = [insert_sequence EXCEPT ![d] = @ + Len(old)]
  /\ wq_data' = [w \in Work |-> IF w \in moved THEN d ELSE wq_data[w]]
  /\ IF old # <<>> THEN WakeWorker(d) ELSE UNCHANGED wstate
  /\ hp' = [hp EXCEPT !.phase = "none"]
  /\ cpucontrol' = Nobody
  /\ UNCHANGED <<pending, timer, adding, remove_sequence, wpc, waiting, stack, fl,
                 single, thread, online, submits>>

(* Mutant: the thread of a CPU that returns inherits remove_sequence. *)
create_workqueue_thread_no_reset(c) ==
  /\ insert_sequence' = [insert_sequence EXCEPT ![c] = 0]
  /\ worklist' = [worklist EXCEPT ![c] = <<>>]
  /\ waiting' = [waiting EXCEPT ![c] = FALSE]
  /\ thread' = [thread EXCEPT ![c] = TRUE]
  /\ UNCHANGED remove_sequence

create_workqueue_thread(c) ==
  /\ insert_sequence' = [insert_sequence EXCEPT ![c] = 0]
  /\ remove_sequence' = [remove_sequence EXCEPT ![c] = 0]
  /\ worklist' = [worklist EXCEPT ![c] = <<>>]
  /\ waiting' = [waiting EXCEPT ![c] = FALSE]
  /\ thread' = [thread EXCEPT ![c] = TRUE]

(* CPU_UP_PREPARE and CPU_ONLINE: the thread is created, then woken *)
cpu_up(c) ==
  /\ hp.n < MaxHotplug /\ c \notin online /\ cpucontrol = Nobody
  /\ online' = online \cup {c}
  /\ hp' = [hp EXCEPT !.n = @ + 1]
  /\ create_workqueue_thread(c)
  /\ SetState(c, "interruptible")
  /\ WGoto(c, "loop")
  /\ UNCHANGED <<items, stack, fl, cpucontrol, single, submits>>

-----------------------------------------------------------------------------
Submit ==
  \E w \in Work : \/ \E c \in CPU : queue_work(c, w)
                  \/ queue_delayed_work(w) \/ cancel_delayed_work(w)

Deliver(w) == link_work(w) \/ \E c \in CPU : timer_expires(w, c)

Worker(c) == \/ worker_loop(c) \/ worker_exit(c) \/ worker_check(c)
             \/ worker_wakes(c) \/ worker_awake(c) \/ clear_pending(c)
             \/ flush_run(c)

Flushes(p) == flush_lock(p) \/ flush_sample(p) \/ flush_waited(p) \/ flush_return(p)

Down == cleanup_workqueue_thread \/ \E d \in CPU : take_over_work(d)

Next ==
  \/ Submit
  \/ \E w \in Work : Deliver(w)
  \/ \E c \in CPU : \/ Worker(c) \/ work_done(c) \/ flush_own_queue(c)
                    \/ cpu_down(c) \/ cpu_up(c)
  \/ \E p \in Flusher : flush_workqueue(p) \/ Flushes(p)
  \/ Down

Spec == Init /\ [][Next]_vars

(* Timers fire, runnable threads run, work functions return.  cpucontrol is *)
(* taken a bounded number of times, so weak fairness is enough to get it.   *)
Fairness ==
  /\ \A w \in Work : WF_vars(Deliver(w))
  /\ \A c \in CPU : WF_vars(Worker(c)) /\ WF_vars(work_done(c))
  /\ \A p \in Flusher : WF_vars(Flushes(p))
  /\ WF_vars(Down)

FairSpec == Spec /\ Fairness
-----------------------------------------------------------------------------
(* Properties. *)

Linked(w) == {c \in CPU : \E i \in DOMAIN worklist[c] : worklist[c][i].work = w}

(* The pending bit is what keeps a work_struct from being in two places: a  *)
(* work about to be linked is on no list and on no timer (the BUG_ONs of    *)
(* queue_work() and queue_delayed_work()), a linked one is linked once, and *)
(* the worker that took it off the list finds its own cwq in work->wq_data  *)
(* (the BUG_ON of run_workqueue()), re-queueing, timers, cancelling and     *)
(* take-over by another CPU notwithstanding.                                *)
PendingGuardsWork ==
  /\ \A w \in Work :
       /\ adding[w] # NoCPU => pending[w] /\ ~timer[w] /\ Linked(w) = {}
       /\ timer[w] => pending[w] /\ Linked(w) = {}
       /\ \A c, d \in Linked(w) : c = d /\ wq_data[w] = c /\ pending[w]
  /\ \A c \in CPU :
       /\ wpc[c] = "taken" =>
            /\ wq_data[Top(c).work] = c /\ pending[Top(c).work]
            /\ Linked(Top(c).work) = {}
       /\ \A i, j \in DOMAIN worklist[c] :
            worklist[c][i].work = worklist[c][j].work => i = j

Unfinished(c) == {worklist[c][i] : i \in DOMAIN worklist[c]} \cup
                 {stack[c][i] : i \in DOMAIN stack[c]}

(* A flusher waits until remove_sequence reaches the insert_sequence it     *)
(* sampled, and takes that to mean that every work queued before has run to *)
(* completion.  It does, except for a work that flushed the queue it runs   *)
(* from: the works it ran by hand are counted before itself.                *)
FlushWaitsForQueued ==
  \A p \in Flusher : fl[p].pc = "visit" =>
    \A e \in Unfinished(fl[p].cpu) : e.seq > fl[p].needed \/ e.flushed

(* No work is left behind on a CPU that is down, once cpu_down() is over.   *)
NoWorkOnDeadCPU ==
  hp.phase = "none" =>
    \A c \in CPU \ online : worklist[c] = <<>> /\ stack[c] = <<>>

(* A work waits for cpucontrol inside the flush of its own queue. *)
OwnFlushBlocked == \E p \in Inside : fl[p].pc = "want" /\ cpucontrol # Nobody

(* A queued or delayed work is run (or cancelled), and kthread_stop() ends: *)
(* no wakeup is lost between the worker's look at the list, its look at     *)
(* kthread_should_stop() and schedule().  Nothing but a work that waits for *)
(* cpucontrol in the flush of its own queue can stop this.                  *)
EveryWorkRuns ==
  /\ \A w \in Work : pending[w] ~> (~pending[w] \/ []OwnFlushBlocked)
  /\ hp.phase = "dead" ~> (hp.phase = "none" \/ []OwnFlushBlocked)

(* workqueue.c:232, when a work flushes its own queue: "So simply run it by *)
(* hand rather than deadlocking."  The flush returns.                       *)
OwnFlushReturns ==
  \A p \in Inside : fl[p].pc = "want" ~> fl[p].pc = "idle"
=============================================================================
