\* What async_get_result returns, against its documentation.
CONSTANTS
  Workers = {w1, w2}
  Callers = {c1, c2}
  Consumers = {c1}
  Tasks = {t1, t2}
  NoTask = NoTask
  NoCaller = NoCaller
SPECIFICATION WorkerSpec
\* A destroyed Worker has nothing left to do; a stopped one may leave callers waiting.
CHECK_DEADLOCK FALSE
SYMMETRY Symmetry
INVARIANT AsyncResultsInOrder
