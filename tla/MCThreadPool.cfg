\* Two workers and two callers race over three tasks, stop and destruction at
\* any time.
CONSTANTS
  Workers = {w1, w2}
  Callers = {c1, c2}
  Tasks = {t1, t2, t3}
  NoTask = NoTask
SPECIFICATION FairSpec
\* A destroyed pool has nothing left to do, and a RunSync whose task was
\* dropped waits for ever.
CHECK_DEADLOCK FALSE
INVARIANTS TypeOK TaskInOnePlace CapturedFrameAlive EnoughAwake AsyncSettledAtDeath
PROPERTIES ImplementsExecutor TaskCompletes TakenTaskCompletes DestructorReturns RunSyncReturns
