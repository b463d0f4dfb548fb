------------------------------ MODULE MCRuntime -----------------------------
EXTENDS Runtime, TLC

CONSTANTS t1, t2, t3

MCTasks == {t1, t2, t3}
=============================================================================
