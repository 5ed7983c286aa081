\* Cancel of a running task, no fault.
SPECIFICATION FairSpec
CONSTANTS
  t1 = t1  t2 = t2  w1 = w1  w2 = w2  n1 = n1  n2 = n2  NoTask = NoTask
  Tasks = {t1}
  Cancellable = {t1}
  Nodes = {n1}
  Workers = {w1}
  NodeOf <- OneNode
  MaxFaults <- NoFaults
PROPERTIES TerminatedEnds
\* The system stops when every task is settled.
CHECK_DEADLOCK FALSE
