------------------------------- MODULE MCRcu -------------------------------
(* Models for TLC: two CPUs, one of which comes up and may go down again.   *)
(* Two callbacks are the fewest that can belong to different batches; the   *)
(* liveness run follows one.                                                *)
EXTENDS Rcu, TLC

CONSTANTS c1, c2, b1, b2

MCCPU == {c1, c2}
MCCallback == {b1, b2}
MCOneCallback == {b1}

Symmetry == Permutations(MCCallback)
=============================================================================
