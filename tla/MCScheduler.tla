---------------------------- MODULE MCScheduler ----------------------------
EXTENDS Scheduler

CONSTANTS t1, t2

MCTasks == {t1, t2}
MCDue == [t \in MCTasks |-> IF t = t1 THEN {1, 2} ELSE {0, 2}]
=============================================================================
