----------------------------- MODULE MCWorkqueue -----------------------------
(* Model for TLC: two CPUs, two works, one of which flushes its own queue,  *)
(* and one flusher from outside.                                            *)
EXTENDS Workqueue, TLC

CONSTANTS w1, w2

MCWork == {w1, w2}
MCFlushing == {w1}
=============================================================================
