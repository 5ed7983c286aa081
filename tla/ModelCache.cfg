\* The server and one worker node, two models, one fault.
SPECIFICATION FairSpec
CONSTANTS
  m1 = m1  m2 = m2
  server = server  main = main  pool = pool
  request = request  second = second  bootstrap = bootstrap  task = task
  None = None
  Models = {m1, m2}
  RerankModels = {m2}
  Processes = {server, main, pool}
  ParentOf <- TwoParents
  Threads = {request, second, bootstrap, task}
  ProcessOf <- FourThreads
  Preloads = {bootstrap}
  Calls <- BothModels
  Permits = 1
  MaxFaults = 1
INVARIANTS TypeOK DownloadedOnce Served ForkedWarm
PROPERTIES Answered
\* The system rests when every thread has made its calls.
CHECK_DEADLOCK FALSE
