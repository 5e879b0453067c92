SPECIFICATION FairSpec
CONSTANTS
  t1 = t1
  t2 = t2
  Thread = {t1, t2}
  Nobody = nobody
  MaxItems = 3
  MaxPool = 2
  MaxLoad = 1
CHECK_DEADLOCK FALSE
INVARIANTS
  TypeOK
  LeastWhenRead
  RoundRobinEven
PROPERTIES
  ImplementsQueue
  Drains
