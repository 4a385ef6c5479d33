-------------------------- MODULE MCRwSemSpinlock --------------------------
(* Model for TLC: three tasks are the fewest with a holder, a queued writer *)
(* and a queued reader behind it, so that every grant pattern occurs.       *)
EXTENDS RwSemSpinlock, TLC

CONSTANTS t1, t2, t3

MCTask == {t1, t2, t3}
=============================================================================
