---------------------------- MODULE MCWorkerPool ----------------------------
(* Model-checking instances of the worker pool.                            *)
EXTENDS WorkerPool, TLC

CONSTANTS t1, t2, t3, t4

ThreeTasks == {t1, t2, t3}
FourTasks == {t1, t2, t3, t4}

TaskSymmetry == Permutations(Tasks \ LongRunning)
=============================================================================
