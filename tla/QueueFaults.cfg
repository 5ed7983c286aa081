\* One cancellable task, two nodes of one pool process, every fault once.
SPECIFICATION Spec
CONSTANTS
  t1 = t1  t2 = t2  w1 = w1  w2 = w2  n1 = n1  n2 = n2  NoTask = NoTask
  Tasks = {t1}
  Cancellable = {t1}
  Nodes = {n1, n2}
  Workers = {w1, w2}
  NodeOf <- TwoNodes
  MaxFaults <- EveryFault
INVARIANTS TypeOK CompletedIsStored
PROPERTIES Lifecycle CancelHolds SettledStays
\* The system stops when every task is settled.
CHECK_DEADLOCK FALSE
