CONSTANTS
  Callers = {c1, c2}
  Tasks = {t1, t2, t3}
  NoTask = NoTask
  num_threads_ = 1
  max_queue_size_ = 1
  MayStop = TRUE
  EarlyJoin = FALSE
SPECIFICATION Spec
INVARIANTS NoMoreThreads WorkIsNoticed RoomIsNoticed JoinedIsQuiet
PROPERTIES JoinReturns ImplementsPool
