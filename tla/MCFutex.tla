------------------------------- MODULE MCFutex -------------------------------
(* A waiter that sleeps and one that polls, and two wakers that also move   *)
(* waiters in opposite directions and onto the same futex, on two futexes   *)
(* in one bucket or in two.                                                 *)
EXTENDS Futex, TLC

CONSTANTS w1, w2, k1, k2

Call(kind, a, b, wake, requeue) ==
  [kind |-> kind, key1 |-> a, key2 |-> b, nr_wake |-> wake, nr_requeue |-> requeue,
   val |-> 0, stored |-> FALSE]
Store(a, v) == [Call("wake", a, a, 3, 0) EXCEPT !.val = v, !.stored = TRUE]

MCHashing == {<<0, 0>>, <<0, 1>>}
MCWait == w1 :> {<<1, 0>>, <<2, 0>>} @@ w2 :> {<<1, 0>>}
MCRequest ==
  k1 :> {Store(1, 1), Call("requeue", 2, 1, 0, 2)}
  @@ k2 :> {Call("wake", 1, 1, 1, 0), Call("cmp_requeue", 1, 2, 1, 1),
            Call("requeue", 1, 1, 0, 3)}
=============================================================================
