\* Two threads, two clients (one collects results), two requests.
CONSTANTS
  Workers = {w1, w2}
  Callers = {c1, c2}
  Consumers = {c1}
  Tasks = {t1, t2}
  NoTask = NoTask
  NoCaller = NoCaller
SPECIFICATION WorkerFairSpec
\* A destroyed Worker has nothing left to do; a stopped one may leave callers waiting.
CHECK_DEADLOCK FALSE
INVARIANTS SyncResultOfOwnInputs AsyncFuturesInOrder NetBeforeTask
PROPERTY AsyncGetReturns
