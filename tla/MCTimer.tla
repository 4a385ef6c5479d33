------------------------------- MODULE MCTimer -------------------------------
(* A small instance of Timer.tla.  The wheel is scaled down to four *)
(* levels of 2 lists, unsigned long to 4 bits; jiffies starts just before its   *)
(* wrap, as INITIAL_JIFFIES does.                                           *)
EXTENDS Timer, TLC

Deltas == {0, 5}

Bounds(timers, users, cpus, ticks, mods, dels, down) ==
  [timers |-> timers, users |-> users, cpus |-> cpus, ticks |-> ticks,
   mods |-> mods, dels |-> dels, down |-> down]

(* A timer and two users, long enough for two cascades and the wrap; the    *)
(* same with a CPU that goes down, and one user; two timers that share a    *)
(* work_list; two users who move two timers between two bases, crosswise;   *)
(* two users who meet a migration on a third CPU.                           *)
Instances ==
  {Bounds({t}, User, 0..1, 5, 2, 1, 0) : t \in Timer} \cup
  {Bounds({t}, {u}, 0..1, 6, 2, 0, 1) : t \in Timer, u \in User} \cup
  {Bounds(Timer, {u}, 0..1, 1, 2, 1, 0) : u \in User} \cup
  {Bounds(Timer, User, 0..1, 0, 4, 0, 0)} \cup
  {Bounds({t}, User, 0..2, 0, 2, 1, 1) : t \in Timer}

Symmetry == Permutations(Timer) \cup Permutations(User)
=============================================================================
