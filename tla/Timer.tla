-------------------------------- MODULE Timer --------------------------------
(***************************************************************************)
(* Kernel timers, kernel/timer.c: the timer wheel of each CPU, the softirq *)
(* that runs expired timers, the tasks and handlers that start, change and *)
(* delete timers from any CPU, del_timer_sync(), and the migration of a    *)
(* dead CPU's timers.                                                      *)
(*                                                                         *)
(* timer->base and base->running_timer are read without locks: the steps   *)
(* are cut between the reads, the locks and the stores.  The order of the  *)
(* timers in one list of the wheel is left open.                           *)
(***************************************************************************)
EXTENDS Integers, FiniteSets

CONSTANTS
  NR_CPUS, Timer, User, NoTimer,
  TVR_BITS, TVN_BITS,   \* width of the first and of every other level
  LEVELS,               \* levels of the wheel, tv1 to tv5 in the code
  INITIAL_JIFFIES,
  Delta,                \* how far ahead timers are set, in jiffies
  MaxLag,               \* how far an online CPU's base falls behind jiffies
  Instance              \* bounds: timers in use, users, CPUs, timer interrupts,
                        \* calls that start and that delete, CPUs that go down

CPU == 0..(NR_CPUS - 1)         \* and the order of their bases' addresses
NULL == -1
Agent == User \cup CPU           \* callers: users, and the handler on each CPU
Nobody == -1
Migrator == -2

(* unsigned long is as wide as the wheel. *)
Word == 2 ^ (TVR_BITS + (LEVELS - 1) * TVN_BITS)
Signed(x) == LET y == x % Word IN IF y < Word \div 2 THEN y ELSE y - Word

ASSUME TimerAssumption ==
  /\ NR_CPUS \in Nat \ {0} /\ TVR_BITS \in Nat \ {0} /\ TVN_BITS \in Nat \ {0}
  /\ LEVELS \in Nat \ {0} /\ INITIAL_JIFFIES \in Nat /\ Delta \subseteq Int
  /\ NoTimer \notin Timer /\ User \cap (-2..(NR_CPUS - 1)) = {}
  (* farther ahead, a base that lags takes a timeout for one in the past *)
  /\ MaxLag \in Nat /\ \A d \in Delta \cup {0} : d + MaxLag < Word \div 2
  (* nor is one in the past by so much that it looks ahead *)
  /\ \A d \in Delta : d > -(Word \div 2)
  /\ \A k \in Instance :
       /\ k.timers \subseteq Timer /\ k.users \subseteq User /\ k.cpus \subseteq CPU
       /\ {k.ticks, k.mods, k.dels, k.down} \subseteq Nat /\ k.down < Cardinality(k.cpus)

(* The list a timer is linked in: one of the wheel, or __run_timers()'s     *)
(* work_list.                                                               *)
NoList == <<0, 0>>
WorkList == <<0, 1>>
Lists == {NoList, WorkList}
         \cup {<<1, i>> : i \in 0..(2 ^ TVR_BITS - 1)}
         \cup {<<l, i>> : l \in 2..LEVELS, i \in 0..(2 ^ TVN_BITS - 1)}

VARIABLES
  inst,           \* the bounds of this behaviour
  periodic,       \* timers whose handler may start them again
  jiffies,
  timer_jiffies, running_timer, base_lock,      \* tvec_base_t of each CPU
  expires, base, timer_lock, entry,             \* struct timer_list
  rpc, fired,     \* where each CPU's timer softirq is, and with which timer
  pc, call,       \* where each user, and each CPU's handler, is in a call
  online, hpc, dead, heir,  \* CPUs; migrate_timers(), from dead to heir
  now,            \* history: jiffies without the wrap
  due,            \* history: when each timer should run, in terms of now
  twice,          \* history: timers announced by two CPUs at once
  nmods, ndels

time == <<inst, jiffies, now>>
wheel == <<expires, base, entry, due>>
softirq == <<timer_jiffies, running_timer, rpc, fired, twice>>
calls == <<pc, call, nmods, ndels>>
plug == <<online, hpc, dead, heir>>
vars == <<periodic, time, wheel, softirq, base_lock, timer_lock, calls, plug>>

(* A call in progress: the timer, the function, the new expires, the bases  *)
(* new_base and old_base, the CPU del_timer_sync() looks at, and ret.       *)
Call == [timer : Timer \cup {NoTimer},
         op : {"none", "mod", "del", "sync", "first", "single"},
         x : 0..(Word - 1), new : CPU \cup {NULL}, old : CPU \cup {NULL},
         cpu : 0..NR_CPUS, ret : {0, 1}]
NoCall == [timer |-> NoTimer, op |-> "none", x |-> 0, new |-> NULL, old |-> NULL,
           cpu |-> 0, ret |-> 0]

Types ==
  /\ inst \in Instance /\ periodic \in SUBSET inst.timers /\ jiffies \in 0..(Word - 1)
  /\ timer_jiffies \in [CPU -> 0..(Word - 1)]
  /\ running_timer \in [CPU -> Timer \cup {NoTimer}]
  /\ base_lock \in [CPU -> Agent \cup {Nobody, Migrator}]
  /\ expires \in [Timer -> 0..(Word - 1)] /\ base \in [Timer -> CPU \cup {NULL}]
  /\ timer_lock \in [Timer -> Agent \cup {Nobody}] /\ entry \in [Timer -> Lists]
  /\ rpc \in [CPU -> {"idle", "run", "fire", "handler"}]
  /\ fired \in [CPU -> Timer \cup {NoTimer}]
  /\ pc \in [Agent -> {"idle", "m_lock", "m_lock1", "m_lock2", "m_do", "d_read",
                       "d_lock", "d_do", "s_look", "s_wait", "s_pending"}]
  /\ call \in [Agent -> Call]
  /\ online \in SUBSET inst.cpus /\ hpc \in {"none", "lock1", "lock2", "move"}
  /\ dead \in CPU \cup {NULL} /\ heir \in CPU \cup {NULL}
  /\ now \in Nat /\ due \in [Timer -> Int] /\ twice \in SUBSET Timer
  /\ nmods \in 0..inst.mods /\ ndels \in 0..inst.dels

TypeOK ==
  /\ Types
  (* no base runs ahead of the time; the base of a CPU that is down stays   *)
  (* behind, until the difference wraps                                     *)
  /\ \A c \in online : Signed(timer_jiffies[c] - jiffies) <= 1

Init ==
  /\ inst \in Instance /\ periodic \in SUBSET inst.timers
  /\ jiffies = INITIAL_JIFFIES % Word /\ now = 0
  /\ timer_jiffies = [c \in CPU |-> jiffies]
  /\ running_timer = [c \in CPU |-> NoTimer] /\ base_lock = [c \in CPU |-> Nobody]
  /\ expires = [t \in Timer |-> 0] /\ base = [t \in Timer |-> NULL]
  /\ timer_lock = [t \in Timer |-> Nobody] /\ entry = [t \in Timer |-> NoList]
  /\ rpc = [c \in CPU |-> "idle"] /\ fired = [c \in CPU |-> NoTimer]
  /\ pc = [a \in Agent |-> "idle"] /\ call = [a \in Agent |-> NoCall]
  /\ online = inst.cpus /\ hpc = "none" /\ dead = NULL /\ heir = NULL
  /\ due = [t \in Timer |-> 0] /\ twice = {} /\ nmods = 0 /\ ndels = 0

-----------------------------------------------------------------------------
(* The wheel. *)

(* CPU c's timer_jiffies in terms of now. *)
Reached(c) == now - Signed(jiffies - timer_jiffies[c])

(* How far ahead the lists of levels 1..l reach. *)
Span(l) == 2 ^ (TVR_BITS + (l - 1) * TVN_BITS)

(* The list of level l that time x belongs to. *)
Index(l, x) ==
  IF l = 1 THEN x % 2 ^ TVR_BITS ELSE (x \div Span(l - 1)) % 2 ^ TVN_BITS

(* Mutant: the level is chosen from the distance to jiffies. *)
Distance_to_jiffies(c, x) == (x - jiffies) % Word

(* unsigned long idx *)
Distance(c, x) == (x - timer_jiffies[c]) % Word

(* internal_add_timer(): the list on CPU c for a timer that expires at x.   *)
(* On 32 bits no timeout is larger than the wheel.                          *)
internal_add_timer(c, x) ==
  LET idx == Distance(c, x)
      fits == {l \in 1..(LEVELS - 1) : idx < Span(l)}
  IN  IF fits # {} THEN LET l == CHOOSE k \in fits : \A j \in fits : k <= j
                        IN  <<l, Index(l, x)>>
      ELSE IF Signed(idx) < 0 THEN <<1, Index(1, timer_jiffies[c])>>
      ELSE <<LEVELS, Index(LEVELS, x)>>

(* cascade() empties a list of level l when all levels below it have come   *)
(* round.                                                                   *)
Cascades(c, l) == \A k \in 1..(l - 1) : Index(k, timer_jiffies[c]) = 0

Cascaded(c) ==
  {<<l, Index(l, timer_jiffies[c])>> : l \in {k \in 2..LEVELS : Cascades(c, k)}}

(* Where timer t is after the cascades on CPU c, which find it at most      *)
(* once, and after list_splice_init() of the current list.                  *)
Spliced(c, t) ==
  LET e == IF base[t] = c /\ entry[t] \in Cascaded(c)
           THEN internal_add_timer(c, expires[t]) ELSE entry[t]
  IN  IF base[t] = c /\ e = <<1, Index(1, timer_jiffies[c])>> THEN WorkList ELSE e

-----------------------------------------------------------------------------
(* The timer interrupt and the softirq of CPU c. *)

Tick ==
  /\ now < inst.ticks /\ \A c \in online : now - Reached(c) < MaxLag
  /\ now' = now + 1 /\ jiffies' = (jiffies + 1) % Word
  /\ UNCHANGED <<inst, periodic, wheel, softirq, base_lock, timer_lock, calls, plug>>

Goto(c, l) == rpc' = [rpc EXCEPT ![c] = l]
Lock(c, a) == base_lock[c] = Nobody /\ base_lock' = [base_lock EXCEPT ![c] = a]
Unlock(S) == base_lock' = [c \in CPU |-> IF c \in S THEN Nobody ELSE base_lock[c]]

(* CPU c executes a user's __mod_timer() or migrate_timers(), interrupts    *)
(* off.                                                                     *)
ModSection == {"m_lock1", "m_lock2", "m_do"}
IrqsOff(c) ==
  \/ hpc # "none" /\ heir = c
  \/ \E u \in User : pc[u] \in ModSection /\ call[u].new = c

(* Mutant: a base may be one jiffy early. *)
Behind_early(c) == Signed(jiffies - timer_jiffies[c]) >= -1

(* time_after_eq(jiffies, base->timer_jiffies) *)
Behind(c) == Signed(jiffies - timer_jiffies[c]) >= 0

(* __run_timers() is called, and locks its base. *)
run_timer_softirq(c) ==
  /\ rpc[c] = "idle" /\ c \in online /\ ~IrqsOff(c)
  /\ Behind(c) /\ Lock(c, c) /\ Goto(c, "run")
  /\ UNCHANGED <<periodic, time, wheel, timer_jiffies, running_timer, fired, twice,
                 timer_lock, calls, plug>>

(* The timers left on CPU c's work_list. *)
Work(c) == {t \in Timer : base[t] = c /\ entry[t] = WorkList}

(* One turn of the outer loop: cascade, ++timer_jiffies, splice. *)
RunLoop(c) ==
  /\ rpc[c] = "run" /\ Work(c) = {} /\ Behind(c)
  /\ entry' = [t \in Timer |-> Spliced(c, t)]
  /\ timer_jiffies' = [timer_jiffies EXCEPT ![c] = (@ + 1) % Word]
  /\ UNCHANGED <<periodic, time, expires, base, due, running_timer, rpc, fired, twice,
                 base_lock, timer_lock, calls, plug>>

(* History: the timers that two bases have announced at once. *)
Announced(c) ==
  LET old == {running_timer[k] : k \in CPU \ {c}}
  IN  twice' = ((twice \cap old) \cup ({running_timer'[c]} \cap (twice \cup old)))
               \ {NoTimer}

RunEnds(c) ==
  /\ rpc[c] = "run" /\ Work(c) = {} /\ ~Behind(c)
  /\ running_timer' = [running_timer EXCEPT ![c] = NoTimer] /\ Announced(c)
  /\ Unlock({c}) /\ Goto(c, "idle")
  /\ UNCHANGED <<periodic, time, wheel, timer_jiffies, fired, timer_lock, calls, plug>>

(* Mutant: the running timer is not announced, as without CONFIG_SMP. *)
set_running_timer_up(c, t) == UNCHANGED running_timer

set_running_timer(c, t) == running_timer' = [running_timer EXCEPT ![c] = t]

(* list_del() and set_running_timer(), ... *)
Expire(c) ==
  /\ rpc[c] = "run"
  /\ \E t \in Work(c) :
       /\ entry' = [entry EXCEPT ![t] = NoList]
       /\ set_running_timer(c, t) /\ Announced(c)
       /\ fired' = [fired EXCEPT ![c] = t]
  /\ Goto(c, "fire")
  /\ UNCHANGED <<periodic, time, expires, base, due, timer_jiffies, base_lock,
                 timer_lock, calls, plug>>

(* ... then timer->base = NULL, unlock, fn(data). *)
Fire(c) ==
  /\ rpc[c] = "fire"
  /\ base' = [base EXCEPT ![fired[c]] = NULL] /\ due' = [due EXCEPT ![fired[c]] = 0]
  /\ Unlock({c}) /\ Goto(c, "handler")
  /\ UNCHANGED <<periodic, time, expires, entry, timer_jiffies, running_timer, fired,
                 twice, timer_lock, calls, plug>>

(* fn returns; __run_timers() locks its base again. *)
HandlerReturns(c) ==
  /\ rpc[c] = "handler" /\ pc[c] = "idle"
  /\ Lock(c, c) /\ Goto(c, "run")
  /\ fired' = [fired EXCEPT ![c] = NoTimer]
  /\ UNCHANGED <<periodic, time, wheel, timer_jiffies, running_timer, twice, timer_lock,
                 calls, plug>>

-----------------------------------------------------------------------------
(* mod_timer() and add_timer_on(), agent a. *)

At(a, l) == pc[a] = l
To(a, l) == pc' = [pc EXCEPT ![a] = l]
Return(a) == To(a, "idle") /\ call' = [call EXCEPT ![a] = NoCall]
Same == UNCHANGED <<periodic, time, softirq, plug>>

(* The callers of functions S on timer t. *)
Callers(t, S) == {u \in User : call[u].timer = t /\ call[u].op \in S}

(* The first test reads timer->expires and timer->base without a lock.  As  *)
(* the callers must, none restarts a timer that del_timer_sync() deletes.   *)
mod_timer(a, t, delta) ==
  /\ At(a, "idle") /\ nmods < inst.mods
  /\ IF a \in User THEN Callers(t, {"sync", "first", "single"}) = {}
                   ELSE rpc[a] = "handler" /\ fired[a] = t /\ t \in periodic
  /\ LET x == (jiffies + delta) % Word
     IN  IF expires[t] = x /\ base[t] # NULL
         THEN UNCHANGED <<pc, call>>
         ELSE /\ To(a, "m_lock")
              /\ call' = [call EXCEPT ![a] = [NoCall EXCEPT !.timer = t, !.op = "mod",
                                                            !.x = x]]
  /\ nmods' = nmods + 1
  /\ UNCHANGED <<wheel, base_lock, timer_lock, ndels>> /\ Same

(* repeat: old_base = timer->base *)
ReadBase(a, new) ==
  LET old == base[call[a].timer]
  IN  /\ call' = [call EXCEPT ![a] = [@ EXCEPT !.new = new, !.old = old]]
      /\ To(a, IF old \in {NULL, new} THEN "m_lock2" ELSE "m_lock1")

(* spin_lock_irqsave(&timer->lock), new_base = &__get_cpu_var(tvec_bases) *)
LockTimer(a) ==
  /\ At(a, "m_lock")
  /\ LET t == call[a].timer
     IN  timer_lock[t] = Nobody /\ timer_lock' = [timer_lock EXCEPT ![t] = a]
  /\ \E c \in online :
       /\ IF a \in User THEN rpc[c] = "idle" /\ ~IrqsOff(c) ELSE c = a
       /\ ReadBase(a, c)
  /\ UNCHANGED <<wheel, base_lock, nmods, ndels>> /\ Same

(* Mutant: the old base is locked first, wherever it is. *)
FirstOf_old(new, old) == old

(* Which of two bases is locked first, by __mod_timer() and by              *)
(* migrate_timers().                                                        *)
FirstOf(new, old) == IF old < new THEN new ELSE old

Other(new, old) == IF FirstOf(new, old) = new THEN old ELSE new

LockFirst(a) ==
  /\ At(a, "m_lock1") /\ Lock(FirstOf(call[a].new, call[a].old), a) /\ To(a, "m_lock2")
  /\ UNCHANGED <<wheel, timer_lock, call, nmods, ndels>> /\ Same

(* Mutant: the base is not compared again under the lock. *)
StillOn_unchecked(t, b) == TRUE

(* timer->base has not changed while the locks were taken. *)
StillOn(t, b) == base[t] = b

(* The last lock, and the test: locked, or everything unlocked and back to  *)
(* repeat.                                                                  *)
LockSecond(a) ==
  /\ At(a, "m_lock2")
  /\ LET new == call[a].new  old == call[a].old
         last == IF old \in {NULL, new} THEN new ELSE Other(new, old)
     IN  IF StillOn(call[a].timer, old)
         THEN Lock(last, a) /\ To(a, "m_do") /\ UNCHANGED call
         ELSE base_lock[last] = Nobody /\ Unlock({new, old}) /\ ReadBase(a, new)
  /\ UNCHANGED <<wheel, timer_lock, nmods, ndels>> /\ Same

(* History: a timer that expires at x should run then, or, when CPU c is    *)
(* past it, in c's next turn.                                               *)
Due(c, x) ==
  LET when == now + Signed(x - jiffies) IN IF when > Reached(c) THEN when ELSE Reached(c)

(* Timer t gets linked on CPU c's wheel, to expire at x. *)
Enqueue(t, c, x) ==
  /\ entry' = [entry EXCEPT ![t] = internal_add_timer(c, x)]
  /\ base' = [base EXCEPT ![t] = c]
  /\ due' = [due EXCEPT ![t] = Due(c, x)]

(* Delete the previous timeout, install the new one, unlock everything. *)
Install(a) ==
  /\ At(a, "m_do")
  /\ LET t == call[a].timer
     IN  /\ Enqueue(t, call[a].new, call[a].x)
         /\ expires' = [expires EXCEPT ![t] = call[a].x]
         /\ timer_lock' = [timer_lock EXCEPT ![t] = Nobody]
  /\ Unlock({call[a].new, call[a].old}) /\ Return(a)
  /\ UNCHANGED <<nmods, ndels>> /\ Same

(* The caller sets timer->expires; the timer must not be pending, nobody    *)
(* else may start it, and the CPU must stay online.                         *)
add_timer_on(a, t, cpu, delta) ==
  /\ At(a, "idle") /\ nmods < inst.mods /\ cpu \in online /\ base_lock[cpu] = Nobody
  /\ base[t] = NULL /\ Callers(t, {"mod", "sync", "first", "single"}) = {}
  /\ t \notin periodic \/ \A c \in CPU : fired[c] # t
  /\ LET x == (jiffies + delta) % Word
     IN  Enqueue(t, cpu, x) /\ expires' = [expires EXCEPT ![t] = x]
  /\ nmods' = nmods + 1
  /\ UNCHANGED <<pc, call, base_lock, timer_lock, ndels>> /\ Same

-----------------------------------------------------------------------------
(* del_timer(), del_timer_sync(), del_singleshot_timer_sync(), user u. *)

(* del_timer() returns r to its caller. *)
Deleted(u, r, k) ==
  CASE k.op = "del" \/ (k.op = "first" /\ r = 1) -> Return(u)
    [] k.op = "first" /\ r = 0 ->
         To(u, "d_read") /\ call' = [call EXCEPT ![u] = [k EXCEPT !.op = "single"]]
    [] OTHER ->
         /\ To(u, "s_look")
         /\ call' = [call EXCEPT ![u] = [k EXCEPT !.ret = IF r = 1 THEN 1 ELSE @,
                                                  !.old = NULL, !.cpu = 0]]

(* repeat: base = timer->base, for call k *)
DelRead(u, k) ==
  LET b == base[k.timer]
  IN  IF b = NULL THEN Deleted(u, 0, k)
      ELSE To(u, "d_lock") /\ call' = [call EXCEPT ![u] = [k EXCEPT !.old = b, !.cpu = 0]]

(* Waiting for the handler, a user must keep others from restarting the     *)
(* timer; a single shot timer does not restart itself.                      *)
del_timer(u, t, op) ==
  /\ At(u, "idle") /\ ndels < inst.dels
  /\ op \in {"sync", "first"} => Callers(t, {"mod"}) = {}
  /\ op = "first" => t \notin periodic
  /\ DelRead(u, [NoCall EXCEPT !.timer = t, !.op = op])
  /\ ndels' = ndels + 1
  /\ UNCHANGED <<wheel, base_lock, timer_lock, nmods>> /\ Same

(* del_singleshot_timer_sync() goes on with del_timer_sync(). *)
DelAgain(u) ==
  /\ At(u, "d_read") /\ DelRead(u, call[u])
  /\ UNCHANGED <<wheel, base_lock, timer_lock, nmods, ndels>> /\ Same

DelLock(u) ==
  /\ At(u, "d_lock")
  /\ LET b == call[u].old
     IN  IF StillOn(call[u].timer, b)
         THEN Lock(b, u) /\ To(u, "d_do") /\ UNCHANGED call
         ELSE base_lock[b] = Nobody /\ DelRead(u, call[u]) /\ UNCHANGED base_lock
  /\ UNCHANGED <<wheel, timer_lock, nmods, ndels>> /\ Same

Delete(u) ==
  /\ At(u, "d_do")
  /\ LET t == call[u].timer
     IN  /\ entry' = [entry EXCEPT ![t] = NoList]
         /\ base' = [base EXCEPT ![t] = NULL] /\ due' = [due EXCEPT ![t] = 0]
  /\ Unlock({call[u].old}) /\ Deleted(u, 1, call[u])
  /\ UNCHANGED <<expires, timer_lock, nmods, ndels>> /\ Same

(* One turn of for_each_online_cpu(). *)
LookAt(u) ==
  /\ At(u, "s_look")
  /\ LET rest == {c \in online : c >= call[u].cpu}
         i == CHOOSE c \in rest : \A k \in rest : c <= k
     IN  IF rest = {} THEN To(u, "s_pending") /\ UNCHANGED call
         ELSE IF running_timer[i] = call[u].timer
              THEN To(u, "s_wait") /\ call' = [call EXCEPT ![u].cpu = i]
         ELSE UNCHANGED pc /\ call' = [call EXCEPT ![u].cpu = i + 1]
  /\ UNCHANGED <<wheel, base_lock, timer_lock, nmods, ndels>> /\ Same

(* while (base->running_timer == timer), and break *)
WaitEnds(u) ==
  /\ At(u, "s_wait") /\ running_timer[call[u].cpu] # call[u].timer
  /\ To(u, "s_pending")
  /\ UNCHANGED <<wheel, base_lock, timer_lock, call, nmods, ndels>> /\ Same

(* if (timer_pending(timer)) goto del_again *)
SyncReturns(u) ==
  /\ At(u, "s_pending")
  /\ IF base[call[u].timer] # NULL
     THEN DelRead(u, call[u])
     ELSE Return(u)
  /\ UNCHANGED <<wheel, base_lock, timer_lock, nmods, ndels>> /\ Same

-----------------------------------------------------------------------------
(* CPU hotplug: CPU_DEAD of CPU d, handled on CPU n. *)

Plugging == UNCHANGED <<periodic, time, softirq, calls>>

(* cpu_down() stops every CPU with interrupts off: no softirq, no holder of *)
(* a spinlock is under way.                                                 *)
cpu_down(d, n) ==
  /\ hpc = "none" /\ Cardinality(inst.cpus \ online) < inst.down
  /\ {d, n} \subseteq online /\ d # n
  /\ \A c \in CPU : rpc[c] = "idle" /\ base_lock[c] = Nobody
  /\ \A u \in User : pc[u] \notin ModSection
  /\ online' = online \ {d} /\ dead' = d /\ heir' = n /\ hpc' = "lock1"
  /\ UNCHANGED <<wheel, base_lock, timer_lock>> /\ Plugging

MigrateLock ==
  /\ \/ hpc = "lock1" /\ Lock(FirstOf(heir, dead), Migrator) /\ hpc' = "lock2"
     \/ hpc = "lock2" /\ Lock(Other(heir, dead), Migrator) /\ hpc' = "move"
  /\ UNCHANGED <<wheel, timer_lock, online, dead, heir>> /\ Plugging

(* Mutant: a timer that is locked is passed over. *)
Left_unlocked(c) ==
  {t \in Timer : base[t] = c /\ entry[t] # NoList /\ timer_lock[t] = Nobody}

(* The timers still in the lists of base c. *)
Left(c) == {t \in Timer : base[t] = c /\ entry[t] # NoList}

(* migrate_timer_list(): spin_trylock(), then the move; on failure both     *)
(* bases are unlocked, and again.                                           *)
migrate_timer_list ==
  /\ hpc = "move"
  /\ \E t \in Left(dead) :
       \/ /\ timer_lock[t] = Nobody
          /\ Enqueue(t, heir, expires[t])
          /\ UNCHANGED <<expires, base_lock, hpc>>
       \/ /\ timer_lock[t] # Nobody
          /\ Unlock({dead, heir}) /\ hpc' = "lock1"
          /\ UNCHANGED wheel
  /\ UNCHANGED <<timer_lock, online, dead, heir>> /\ Plugging

MigrateEnds ==
  /\ hpc = "move" /\ Left(dead) = {}
  /\ Unlock({dead, heir}) /\ hpc' = "none" /\ dead' = NULL /\ heir' = NULL
  /\ UNCHANGED <<wheel, timer_lock, online>> /\ Plugging

-----------------------------------------------------------------------------
Softirq(c) ==
  RunLoop(c) \/ RunEnds(c) \/ Expire(c) \/ Fire(c) \/ HandlerReturns(c)
Modifying(a) == LockTimer(a) \/ LockFirst(a) \/ LockSecond(a) \/ Install(a)
Deleting(u) ==
  DelAgain(u) \/ DelLock(u) \/ Delete(u) \/ LookAt(u) \/ WaitEnds(u) \/ SyncReturns(u)
Migrating == MigrateLock \/ migrate_timer_list \/ MigrateEnds

Next ==
  \/ Tick
  \/ \E c \in CPU : run_timer_softirq(c) \/ Softirq(c)
  \/ \E a \in inst.users \cup CPU, t \in inst.timers, delta \in Delta :
       mod_timer(a, t, delta)
  \/ \E u \in inst.users, t \in inst.timers, cpu \in CPU, delta \in Delta :
       add_timer_on(u, t, cpu, delta)
  \/ \E u \in inst.users, t \in inst.timers, op \in {"del", "sync", "first"} :
       del_timer(u, t, op)
  \/ \E a \in Agent : Modifying(a)
  \/ \E u \in User : Deleting(u)
  \/ \E d, n \in CPU : cpu_down(d, n)
  \/ Migrating

Spec == Init /\ [][Next]_vars

-----------------------------------------------------------------------------
(* A timer runs in the turn of its base for the jiffy it was set to, never  *)
(* before it and never passed over: through the cascades of the wheel, the  *)
(* wrap of jiffies, a base that lags behind, a move to another base by      *)
(* mod_timer() and a migration (internal_add_timer, cascade, __run_timers). *)
RunsOnTime ==
  \A t \in Timer : base[t] # NULL =>
    /\ entry[t] \notin {NoList, WorkList} => due[t] >= Reached(base[t])
    /\ entry[t] = WorkList => due[t] = Reached(base[t]) - 1 /\ due[t] <= now

(* __mod_timer() and del_timer() read timer->base before they have its      *)
(* lock.  When they then unlink the timer, it is linked on that base, whose *)
(* lock they hold; and a timer is linked exactly while it is pending,       *)
(* except in the moment its own softirq takes it off.                       *)
UnlinksWhatItLocked ==
  /\ \A a \in Agent : pc[a] \in {"m_do", "d_do"} =>
       LET t == call[a].timer  b == call[a].old
       IN  /\ base[t] = b
           /\ b # NULL => base_lock[b] = a /\ entry[t] # NoList
  /\ \A t \in Timer : base[t] = NULL => entry[t] = NoList
  /\ \A t \in Timer : base[t] # NULL /\ entry[t] = NoList
                        => rpc[base[t]] = "fire" /\ fired[base[t]] = t

(* When del_timer_sync() or del_singleshot_timer_sync() returns, a timer    *)
(* that does not restart itself, and that two CPUs have not announced at    *)
(* once, is not queued and its handler is on no CPU; and the BUG_ON(ret) of *)
(* the single shot form does not strike.                                    *)
SyncWaitsForHandler ==
  \A u \in User : pc[u] = "s_pending" =>
    LET t == call[u].timer
    IN  /\ base[t] = NULL /\ t \notin periodic \cup twice => \A c \in CPU : fired[c] # t
        /\ call[u].op = "single" => base[t] = NULL /\ call[u].ret = 0

(* Between the CPUs' changes, no timer waits on the wheel of a CPU that is  *)
(* gone, where nothing would ever run it, although callers restarted and    *)
(* deleted timers while migrate_timers() backed off.                        *)
NoTimerOnDeadCPU ==
  hpc = "none" => \A t \in Timer : base[t] \in online \cup {NULL}

(* Of those that hold a lock, one can go on: __mod_timer() takes the        *)
(* timer's lock and then two bases' locks, migrate_timers() two bases' and  *)
(* then the timers', from different CPUs in different directions.           *)
SomeHolderGoesOn ==
  (\E c \in CPU : base_lock[c] # Nobody) \/ (\E t \in Timer : timer_lock[t] # Nobody) =>
    \/ \E c \in CPU : rpc[c] \in {"run", "fire"}
    \/ \E a \in Agent : pc[a] \in ModSection /\ ENABLED Modifying(a)
    \/ \E u \in User : pc[u] = "d_do"
    \/ ENABLED Migrating
=============================================================================
