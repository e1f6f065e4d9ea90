SPECIFICATION FairSpec
CONSTANTS
  Workers = {w1, w2}
  Outsiders = {main}
  Queues = {q1, q2}
  Jobs = {j1, j2}
  NoQueue = NoQueue
  NoJob = NoJob
INVARIANTS
  OneResponsible
PROPERTIES
  ImplementsSerialExecutor
  ReservedJobsRun
