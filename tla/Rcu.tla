--------------------------------- MODULE Rcu ---------------------------------
(***************************************************************************)
(* Read-copy update, kernel/rcupdate.c: callbacks queued with call_rcu()   *)
(* are invoked by a per-CPU tasklet once every CPU has passed a quiescent  *)
(* state.  The model is of the plain flavour (rcu_ctrlblk, rcu_data).      *)
(*                                                                         *)
(* rcu_state.lock guards the writes to the control block, but cur,         *)
(* completed and next_pending are read without it, so the tasklet is cut   *)
(* at every access to them, and rcu_start_batch() at every store.  CPUs    *)
(* come up and go down (rcu_cpu_notify), which is how SMP machines boot.   *)
(***************************************************************************)
EXTENDS Integers, Sequences, FiniteSets

CONSTANTS
  CPU,         \* processors that may be present
  BootCPU,     \* the one that runs rcu_init()
  NoCPU,
  Callback,    \* rcu_head structures, each queued once
  maxbatch,    \* callbacks the tasklet invokes in one run
  MaxHotplug   \* bound: how many times a CPU comes up or goes down

ASSUME RcuAssumption ==
  /\ BootCPU \in CPU /\ NoCPU \notin CPU /\ IsFiniteSet(CPU)
  /\ maxbatch \in Nat \ {0} /\ MaxHotplug \in Nat

VARIABLES
  rcp,        \* rcu_ctrlblk
  rsp,        \* rcu_state: the owner of the lock, and the cpumask
  after,      \* where rcu_start_batch() returns to, for the lock's owner
  rdp,        \* rcu_data of each CPU
  pc, count,  \* rcu_process_callbacks() on each CPU; rcu_do_batch()'s count
  sched,      \* rcu_tasklet is scheduled
  ctx,        \* what each CPU runs below its tasklets
  online,     \* cpu_online_map
  hp,         \* cpu_up() or cpu_down(): its phase, the CPU it is about, the
              \* CPU it runs on, and how many have run
  life,       \* of each callback: fresh, queued, invoked
  blockers,   \* read-side sections running at call_rcu() and still not over
  unseen      \* read-side sections the grace period did not know of (below)

core == <<rcp, rsp, after>>
cpus == <<ctx, online, hp>>
ghosts == <<life, blockers, unseen>>
vars == <<core, rdp, pc, count, sched, cpus, ghosts>>

Data == [quiescbatch : Int, passed_quiesc : BOOLEAN, qs_pending : BOOLEAN,
         batch : Int, nxtlist : Seq(Callback), curlist : Seq(Callback),
         donelist : Seq(Callback)]

Owned == {"clear", "cur"}   \* inside rcu_start_batch(), lock held
PC == {"out", "next", "pending", "start", "check_qs",
       "quiet", "do_batch"} \cup Owned

TypeOK ==
  /\ rcp \in [cur : Int, completed : Int, next_pending : BOOLEAN]
  /\ rsp \in [lock : CPU \cup {NoCPU}, cpumask : SUBSET CPU]
  /\ after \in {"check_qs", "do_batch", "out"}
  /\ rdp \in [CPU -> Data]
  /\ pc \in [CPU -> PC] /\ count \in [CPU -> 0..maxbatch]
  /\ sched \in [CPU -> BOOLEAN]
  /\ ctx \in [CPU -> {"quiet", "irq", "kernel", "reader"}]
  /\ online \in SUBSET CPU
  /\ hp \in [phase : {"none", "prepared", "dead", "move_cur", "move_nxt"},
             cpu : CPU, on : CPU, n : 0..MaxHotplug]
  /\ life \in [Callback -> {"fresh", "queued", "invoked"}]
  /\ blockers \in [Callback -> SUBSET CPU]
  /\ unseen \in SUBSET CPU

(* rcu_init_percpu_data() *)
FreshData(completed) ==
  [quiescbatch |-> completed, passed_quiesc |-> FALSE, qs_pending |-> FALSE,
   batch |-> 0, nxtlist |-> <<>>, curlist |-> <<>>, donelist |-> <<>>]

Init ==
  /\ rcp = [cur |-> -300, completed |-> -300, next_pending |-> FALSE]
  /\ rsp = [lock |-> NoCPU, cpumask |-> {}]
  /\ after = "out"
  /\ rdp = [c \in CPU |-> FreshData(-300)]
  /\ pc = [c \in CPU |-> "out"] /\ count = [c \in CPU |-> 0]
  /\ sched = [c \in CPU |-> FALSE]
  /\ ctx = [c \in CPU |-> "kernel"]
  /\ online = {BootCPU}
  /\ hp = [phase |-> "none", cpu |-> BootCPU, on |-> BootCPU, n |-> 0]
  /\ life = [b \in Callback |-> "fresh"]
  /\ blockers = [b \in Callback |-> {}]
  /\ unseen = {}

-----------------------------------------------------------------------------
(* Read-side sections, updaters and quiescent states. *)

Reading(c) == ctx[c] \in {"reader", "irq"}

(* A CPU that came up since the running rcu_start_batch() read the online   *)
(* map, while cur does not show the new grace period yet.                   *)
CameUpDuringStart(c) ==
  /\ rsp.lock # NoCPU /\ pc[rsp.lock] \in Owned
  /\ c \notin rsp.cpumask

(* The section joins the ones a later grace period may overlook. *)
Begin(c) ==
  unseen' = IF CameUpDuringStart(c) THEN unseen \cup {c} ELSE unseen

End(c) ==
  /\ blockers' = [b \in Callback |-> blockers[b] \ {c}]
  /\ unseen' = unseen \ {c}

(* rcu_read_lock() in process context: preemption is off until the unlock.  *)
rcu_read_lock(c) ==
  /\ c \in online /\ ctx[c] = "kernel" /\ pc[c] = "out"
  /\ ctx' = [ctx EXCEPT ![c] = "reader"]
  /\ Begin(c)
  /\ UNCHANGED <<core, rdp, pc, count, sched, online, hp, life, blockers>>

rcu_read_unlock(c) ==
  /\ ctx[c] = "reader" /\ pc[c] = "out"
  /\ ctx' = [ctx EXCEPT ![c] = "kernel"]
  /\ End(c)
  /\ UNCHANGED <<core, rdp, pc, count, sched, online, hp, life>>

(* An interrupt or softirq handler with a read-side section, on top of user *)
(* mode or the idle loop.  (One on top of kernel code counts as "reader".)  *)
irq_enter(c) ==
  /\ c \in online /\ ctx[c] = "quiet" /\ pc[c] = "out"
  /\ ctx' = [ctx EXCEPT ![c] = "irq"]
  /\ Begin(c)
  /\ UNCHANGED <<core, rdp, pc, count, sched, online, hp, life, blockers>>

irq_exit(c) ==
  /\ ctx[c] = "irq"
  /\ ctx' = [ctx EXCEPT ![c] = "quiet"]
  /\ End(c)
  /\ UNCHANGED <<core, rdp, pc, count, sched, online, hp, life>>

call_rcu(c, b) ==
  /\ c \in online /\ life[b] = "fresh"
  /\ rdp' = [rdp EXCEPT ![c].nxtlist = Append(@, b)]
  /\ life' = [life EXCEPT ![b] = "queued"]
  /\ blockers' = [blockers EXCEPT ![b] = {d \in CPU : Reading(d)}]
  /\ UNCHANGED <<core, pc, count, sched, cpus, unseen>>

(* schedule() switches tasks: rcu_qsctr_inc(). *)
schedule(c) ==
  /\ c \in online /\ ctx[c] = "kernel" /\ pc[c] = "out"
  /\ rdp' = [rdp EXCEPT ![c].passed_quiesc = TRUE]
  /\ UNCHANGED <<core, pc, count, sched, cpus, ghosts>>

(* Return to user mode or the idle loop, and back. *)
to_quiet(c) ==
  /\ c \in online /\ ctx[c] = "kernel" /\ pc[c] = "out"
  /\ ctx' = [ctx EXCEPT ![c] = "quiet"]
  /\ UNCHANGED <<core, rdp, pc, count, sched, online, hp, ghosts>>

to_kernel(c) ==
  /\ ctx[c] = "quiet" /\ pc[c] = "out"
  /\ ctx' = [ctx EXCEPT ![c] = "kernel"]
  /\ UNCHANGED <<core, rdp, pc, count, sched, online, hp, ghosts>>

rcu_batch_before(a, b) == a - b < 0

rcu_pending(c) ==
  \/ rdp[c].curlist # <<>> /\ ~rcu_batch_before(rcp.completed, rdp[c].batch)
  \/ rdp[c].curlist = <<>> /\ rdp[c].nxtlist # <<>>
  \/ rdp[c].donelist # <<>>
  \/ rdp[c].quiescbatch # rcp.cur \/ rdp[c].qs_pending

(* The tick interrupted user mode, or an idle loop with neither a softirq   *)
(* nor another interrupt in between.                                        *)
TickSeesQuiet(c) == ctx[c] = "quiet" /\ pc[c] = "out"

(* update_process_times() -> rcu_check_callbacks() *)
tick(c) ==
  /\ c \in online /\ rcu_pending(c)
  /\ rdp' = IF TickSeesQuiet(c)
            THEN [rdp EXCEPT ![c].passed_quiesc = TRUE] ELSE rdp
  /\ sched' = [sched EXCEPT ![c] = TRUE]
  /\ UNCHANGED <<core, pc, count, cpus, ghosts>>

-----------------------------------------------------------------------------
(* rcu_process_callbacks(), the tasklet. *)

Goto(c, l) == pc' = [pc EXCEPT ![c] = l]

(* A tasklet may interrupt a task in a read-side section, but not another   *)
(* handler.  First it hands a batch whose grace period is over to donelist. *)
tasklet_run(c) ==
  /\ c \in online /\ pc[c] = "out" /\ sched[c] /\ ctx[c] # "irq"
  /\ sched' = [sched EXCEPT ![c] = FALSE]
  /\ rdp' = IF rdp[c].curlist # <<>> /\
               ~rcu_batch_before(rcp.completed, rdp[c].batch)
            THEN [rdp EXCEPT ![c] = [@ EXCEPT
                    !.donelist = rdp[c].donelist \o rdp[c].curlist, !.curlist = <<>>]]
            ELSE rdp
  /\ Goto(c, "next")
  /\ UNCHANGED <<core, count, cpus, ghosts>>

(* The new callbacks become the current batch, numbered by an unlocked read *)
(* of cur.                                                                  *)
process_next(c) ==
  /\ pc[c] = "next"
  /\ \/ /\ rdp[c].nxtlist # <<>> /\ rdp[c].curlist = <<>>
        /\ rdp' = [rdp EXCEPT ![c] = [@ EXCEPT !.curlist = rdp[c].nxtlist,
                                               !.nxtlist = <<>>,
                                               !.batch = rcp.cur + 1]]
        /\ Goto(c, "pending")
     \/ /\ ~(rdp[c].nxtlist # <<>> /\ rdp[c].curlist = <<>>)
        /\ Goto(c, "check_qs")
        /\ UNCHANGED rdp
  /\ UNCHANGED <<core, count, sched, cpus, ghosts>>

process_pending(c) ==
  /\ pc[c] = "pending"
  /\ Goto(c, IF rcp.next_pending THEN "check_qs" ELSE "start")
  /\ UNCHANGED <<core, rdp, count, sched, cpus, ghosts>>

(* rcu_start_batch(), run by CPU c with the lock: the part up to the mask.  *)
(* "ctl" is the control block and "mask" the cpumask as its caller left     *)
(* them; the stores to next_pending and cur are steps of their own.         *)
rcu_start_batch(c, ctl, mask, ret) ==
  /\ rcp' = ctl
  /\ IF ctl.next_pending /\ ctl.completed = ctl.cur
     THEN /\ rsp' = [lock |-> c, cpumask |-> online]
          /\ after' = ret
          /\ Goto(c, "clear")
     ELSE /\ rsp' = [lock |-> NoCPU, cpumask |-> mask]
          /\ Goto(c, ret)
          /\ UNCHANGED after

start_clear(c) ==
  /\ pc[c] = "clear"
  /\ rcp' = [rcp EXCEPT !.next_pending = FALSE]
  /\ Goto(c, "cur")
  /\ UNCHANGED <<rsp, after, rdp, count, sched, cpus, ghosts>>

start_cur(c) ==
  /\ pc[c] = "cur"
  /\ rcp' = [rcp EXCEPT !.cur = @ + 1]
  /\ rsp' = [rsp EXCEPT !.lock = NoCPU]
  /\ Goto(c, after)
  /\ UNCHANGED <<after, rdp, count, sched, cpus, ghosts>>

process_start(c) ==
  /\ pc[c] = "start" /\ rsp.lock = NoCPU
  /\ rcu_start_batch(c, [rcp EXCEPT !.next_pending = TRUE], rsp.cpumask,
                     "check_qs")
  /\ UNCHANGED <<rdp, count, sched, cpus, ghosts>>

(* Mutant: the end of a grace period does not start the pending one. *)
cpu_quiet_no_start(c, q, ret) ==
  LET mask == rsp.cpumask \ {q}
  IN  /\ rsp' = [rsp EXCEPT !.cpumask = mask]
      /\ rcp' = IF mask = {} THEN [rcp EXCEPT !.completed = rcp.cur] ELSE rcp
      /\ Goto(c, ret)
      /\ UNCHANGED after

(* cpu_quiet(): CPU q is done with the grace period; c runs this. *)
cpu_quiet(c, q, ret) ==
  LET mask == rsp.cpumask \ {q}
      ctl  == [rcp EXCEPT !.completed = rcp.cur]
  IN  IF mask = {}
      THEN rcu_start_batch(c, ctl, mask, ret)
      ELSE /\ rsp' = [rsp EXCEPT !.cpumask = mask]
           /\ Goto(c, ret)
           /\ UNCHANGED <<rcp, after>>

(* Mutant: a new grace period does not reset passed_quiesc. *)
rcu_check_quiescent_state_no_reset(c) ==
  /\ pc[c] = "check_qs"
  /\ IF rdp[c].quiescbatch # rcp.cur
     THEN /\ rdp' = [rdp EXCEPT ![c] = [@ EXCEPT !.qs_pending = TRUE,
                                                 !.quiescbatch = rcp.cur]]
          /\ Goto(c, "do_batch")
     ELSE IF rdp[c].qs_pending /\ rdp[c].passed_quiesc
     THEN /\ rdp' = [rdp EXCEPT ![c].qs_pending = FALSE]
          /\ Goto(c, "quiet")
     ELSE UNCHANGED rdp /\ Goto(c, "do_batch")
  /\ UNCHANGED <<core, count, sched, cpus, ghosts>>

rcu_check_quiescent_state(c) ==
  /\ pc[c] = "check_qs"
  /\ \/ /\ rdp[c].quiescbatch # rcp.cur
        /\ rdp' = [rdp EXCEPT ![c] = [@ EXCEPT !.qs_pending = TRUE,
                                               !.passed_quiesc = FALSE,
                                               !.quiescbatch = rcp.cur]]
        /\ Goto(c, "do_batch")
     \/ /\ rdp[c].quiescbatch = rcp.cur
        /\ ~rdp[c].qs_pending \/ ~rdp[c].passed_quiesc
        /\ Goto(c, "do_batch")
        /\ UNCHANGED rdp
     \/ /\ rdp[c].quiescbatch = rcp.cur
        /\ rdp[c].qs_pending /\ rdp[c].passed_quiesc
        /\ rdp' = [rdp EXCEPT ![c].qs_pending = FALSE]
        /\ Goto(c, "quiet")
  /\ UNCHANGED <<core, count, sched, cpus, ghosts>>

(* The rest of it, under the lock. *)
report_quiet(c) ==
  /\ pc[c] = "quiet" /\ rsp.lock = NoCPU
  /\ IF rdp[c].quiescbatch = rcp.cur
     THEN cpu_quiet(c, c, "do_batch")
     ELSE Goto(c, "do_batch") /\ UNCHANGED core
  /\ UNCHANGED <<rdp, count, sched, cpus, ghosts>>

(* Mutant: the tasklet never yields after maxbatch callbacks. *)
do_batch_invoke_unlimited(c) ==
  /\ pc[c] = "do_batch" /\ rdp[c].donelist # <<>>
  /\ rdp' = [rdp EXCEPT ![c].donelist = Tail(@)]
  /\ life' = [life EXCEPT ![Head(rdp[c].donelist)] = "invoked"]
  /\ count' = [count EXCEPT ![c] = @ + 1]
  /\ UNCHANGED <<core, pc, sched, cpus, blockers, unseen>>

(* rcu_do_batch(): one callback, and the end of the tasklet. *)
do_batch_invoke(c) ==
  /\ pc[c] = "do_batch" /\ rdp[c].donelist # <<>> /\ count[c] < maxbatch
  /\ rdp' = [rdp EXCEPT ![c].donelist = Tail(@)]
  /\ life' = [life EXCEPT ![Head(rdp[c].donelist)] = "invoked"]
  /\ count' = [count EXCEPT ![c] = @ + 1]
  /\ UNCHANGED <<core, pc, sched, cpus, blockers, unseen>>

do_batch_end(c) ==
  /\ pc[c] = "do_batch" /\ (rdp[c].donelist = <<>> \/ count[c] = maxbatch)
  /\ sched' = [sched EXCEPT ![c] = @ \/ rdp[c].donelist # <<>>]
  /\ count' = [count EXCEPT ![c] = 0]
  /\ Goto(c, "out")
  /\ UNCHANGED <<core, rdp, cpus, ghosts>>

-----------------------------------------------------------------------------
(* CPU hotplug.  cpu_up() and cpu_down() exclude each other (cpucontrol).   *)

(* CPU_UP_PREPARE: rcu_online_cpu() *)
cpu_up_prepare(c) ==
  /\ hp.phase = "none" /\ hp.n < MaxHotplug /\ c \notin online
  /\ hp' = [hp EXCEPT !.phase = "prepared", !.cpu = c, !.n = @ + 1]
  /\ rdp' = [rdp EXCEPT ![c] = FreshData(rcp.completed)]
  /\ sched' = [sched EXCEPT ![c] = FALSE]
  /\ UNCHANGED <<core, pc, count, ctx, online, ghosts>>

(* __cpu_up(): the new CPU enters the online map and runs. *)
cpu_up_online ==
  /\ hp.phase = "prepared"
  /\ online' = online \cup {hp.cpu}
  /\ hp' = [hp EXCEPT !.phase = "none"]
  /\ UNCHANGED <<core, rdp, pc, count, sched, ctx, ghosts>>

(* take_cpu_down() under stop_machine: every CPU has scheduled its stopper  *)
(* thread, so none is in a read-side section or a tasklet.                  *)
take_cpu_down(c) ==
  /\ hp.phase = "none" /\ hp.n < MaxHotplug
  /\ c \in online /\ online # {c}
  /\ \A d \in online : pc[d] = "out" /\ ~Reading(d)
  /\ \E d \in online \ {c} :
       hp' = [phase |-> "dead", cpu |-> c, on |-> d, n |-> hp.n + 1]
  /\ online' = online \ {c}
  /\ rdp' = [d \in CPU |-> IF d \in online
                           THEN [rdp[d] EXCEPT !.passed_quiesc = TRUE]
                           ELSE rdp[d]]
  /\ ctx' = [d \in CPU |-> "kernel"]
  /\ UNCHANGED <<core, pc, count, sched, ghosts>>

(* The hotplug task gets its CPU between read-side sections and softirqs. *)
HotplugRuns(phase) == hp.phase = phase /\ pc[hp.on] = "out" /\ ~Reading(hp.on)

(* Mutant: the grace period is left waiting for the dead CPU. *)
offline_quiet_skipped ==
  /\ HotplugRuns("dead") /\ rsp.lock = NoCPU
  /\ hp' = [hp EXCEPT !.phase = "move_cur"]
  /\ UNCHANGED <<core, pc, rdp, count, sched, ctx, online, ghosts>>

(* CPU_DEAD: rcu_offline_cpu() on the surviving CPU hp.on.  First a dead    *)
(* CPU counts as quiet ...                                                  *)
offline_quiet ==
  /\ HotplugRuns("dead") /\ rsp.lock = NoCPU
  /\ IF rcp.cur # rcp.completed
     THEN cpu_quiet(hp.on, hp.cpu, "out")
     ELSE UNCHANGED <<core, pc>>
  /\ hp' = [hp EXCEPT !.phase = "move_cur"]
  /\ UNCHANGED <<rdp, count, sched, ctx, online, ghosts>>

(* ... then its callbacks start again on hp.on, all but donelist ...        *)
offline_move_cur ==
  /\ HotplugRuns("move_cur")
  /\ rdp' = [rdp EXCEPT ![hp.on].nxtlist = @ \o rdp[hp.cpu].curlist]
  /\ hp' = [hp EXCEPT !.phase = "move_nxt"]
  /\ UNCHANGED <<core, pc, count, sched, ctx, online, ghosts>>

(* ... and tasklet_kill_immediate() removes its tasklet. *)
offline_move_nxt ==
  /\ HotplugRuns("move_nxt")
  /\ rdp' = [rdp EXCEPT ![hp.on].nxtlist = @ \o rdp[hp.cpu].nxtlist]
  /\ sched' = [sched EXCEPT ![hp.cpu] = FALSE]
  /\ hp' = [hp EXCEPT !.phase = "none"]
  /\ UNCHANGED <<core, pc, count, ctx, online, ghosts>>

-----------------------------------------------------------------------------
Reader(c) == \/ rcu_read_lock(c) \/ rcu_read_unlock(c)
             \/ irq_enter(c) \/ irq_exit(c)

Tasklet(c) ==
  \/ tasklet_run(c) \/ process_next(c) \/ process_pending(c)
  \/ process_start(c) \/ start_clear(c) \/ start_cur(c)
  \/ rcu_check_quiescent_state(c) \/ report_quiet(c)
  \/ do_batch_invoke(c) \/ do_batch_end(c)

Offline == offline_quiet \/ offline_move_cur \/ offline_move_nxt

Next ==
  \/ \E c \in CPU :
       \/ Reader(c) \/ \E b \in Callback : call_rcu(c, b)
       \/ schedule(c) \/ to_quiet(c) \/ to_kernel(c) \/ tick(c)
       \/ Tasklet(c)
       \/ cpu_up_prepare(c) \/ take_cpu_down(c)
  \/ cpu_up_online \/ Offline

Spec == Init /\ [][Next]_vars

(* A quiescent state the core may hear of: a task switch, or a tick that    *)
(* lands in user mode or in the idle loop.                                  *)
Quiescent(c) == schedule(c) \/ (tick(c) /\ TickSeesQuiet(c))

(* The timer ticks, softirqs run, a spinning CPU gets the lock in the end,  *)
(* read-side sections are short, a hotplug operation finishes, and a CPU    *)
(* passes quiescent states again and again.                                 *)
Fairness ==
  /\ \A c \in CPU :
       /\ SF_vars(Tasklet(c)) /\ WF_vars(tick(c))
       /\ SF_vars(rcu_read_unlock(c) \/ irq_exit(c))
       /\ SF_vars(Quiescent(c))
  /\ SF_vars(Offline) /\ WF_vars(cpu_up_online)

FairSpec == Spec /\ Fairness
-----------------------------------------------------------------------------
(* Properties. *)

(* A callback runs only after every read-side section that was running when *)
(* it was queued has ended, whatever the batch numbers, the deferred        *)
(* noticing of grace periods, tasklets that interrupt readers and callbacks *)
(* moved off dead CPUs do.  The sections left out began on a CPU that came  *)
(* up between the two halves of rcu_start_batch().                          *)
GracePeriodCoversReaders ==
  \A b \in Callback : life[b] = "invoked" => blockers[b] \subseteq unseen

(* rcupdate.c:80, with no exception: "invoked some time after a full grace  *)
(* period elapses, in other words after all currently executing RCU         *)
(* read-side critical sections have completed".                             *)
FullGracePeriod ==
  \A b \in Callback : life[b] = "invoked" => blockers[b] = {}

(* A batch number handed to callbacks belongs to a grace period that has    *)
(* started, or that somebody is bound to start: the lockless pair of reads  *)
(* (cur, then next_pending) against the pair of stores (next_pending, then  *)
(* cur) never leaves a batch nobody starts.  A pending batch has a running  *)
(* grace period before it, whose end starts it, and a running grace period  *)
(* waits for somebody.                                                      *)
BatchIsRegistered ==
  /\ \A c \in online :
       rdp[c].curlist # <<>> /\ pc[c] \notin {"pending", "start"} =>
         \/ rdp[c].batch <= rcp.cur
         \/ rdp[c].batch = rcp.cur + 1
            /\ (rcp.next_pending \/ \E d \in CPU : pc[d] \in Owned)
  /\ rcp.next_pending /\ rsp.lock = NoCPU => rcp.cur # rcp.completed
  /\ rcp.cur # rcp.completed => rsp.cpumask # {}
  /\ rcp.cur - rcp.completed \in {0, 1}

Stranded(b) ==
  \E c \in CPU \ online : \E i \in DOMAIN rdp[c].donelist : rdp[c].donelist[i] = b

(* Every grace period ends: a queued callback is invoked, unless its CPU    *)
(* went down with the callback on donelist, already due.                    *)
EveryGracePeriodEnds ==
  \A b \in Callback :
    life[b] = "queued" ~> (life[b] = "invoked" \/ Stranded(b))

(* rcupdate.c:80: "The update function will be invoked some time after a    *)
(* full grace period elapses".  Only the tasklet of an online CPU invokes   *)
(* callbacks, so once a cpu_down() is over every callback still to be       *)
(* invoked is on a list of such a CPU.                                      *)
CallbackReachable ==
  hp.phase = "none" =>
    \A b \in Callback : life[b] = "queued" =>
      \E c \in online : LET r == rdp[c] IN
        \E l \in {r.nxtlist, r.curlist, r.donelist} : \E i \in DOMAIN l : l[i] = b
=============================================================================
