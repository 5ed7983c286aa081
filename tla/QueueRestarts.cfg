\* Two tasks of which one may be cancelled, two pool
\* processes of one node that restarts, one redelivery.
SPECIFICATION FairSpec
CONSTANTS
  t1 = t1  t2 = t2  w1 = w1  w2 = w2  n1 = n1  n2 = n2  NoTask = NoTask
  Tasks = {t1, t2}
  Cancellable = {t2}
  Nodes = {n1}
  Workers = {w1, w2}
  NodeOf <- OneNode
  MaxFaults <- Restarts
INVARIANTS NothingLost
PROPERTIES FinalUnlessRaced Settles
\* The system stops when every task is settled.
CHECK_DEADLOCK FALSE
