---------------------------- MODULE MCRwSemXadd ----------------------------
(* Model for TLC: three tasks, and the smallest unit their number allows.   *)
EXTENDS RwSemXadd, TLC

CONSTANTS t1, t2, t3

MCTask == {t1, t2, t3}

MCWaitingUnit == 4
=============================================================================
