\* One task under two watching loops, one cancel at a time, one reload.
SPECIFICATION FairSpec
CONSTANTS
  t1 = t1
  w1 = w1  w2 = w2
  None = None
  Tasks = {t1}
  Watches = {w1, w2}
  MaxRounds = 1
  MaxReloads = 1
  MaxCancels = 1
INVARIANTS TypeOK ListFounded ActiveIsWatched
PROPERTIES ListForward WatchEnds
\* Nothing happens any more when every task is final and every loop has ended.
CHECK_DEADLOCK FALSE
