SPECIFICATION FairSpec
CONSTANTS
  j1 = j1  f1 = f1
  p1 = p1  p2 = p2  w1 = w1  w2 = w2  w3 = w3
  NoJob = NoJob
  Jobs = {j1}
  Files = {f1}
  FileOf <- OneFile
  Procs = {p1, p2}
  Workers = {w1, w2}
  ProcOf <- TwoProcs
  MaxAttempts = 2
  Budget <- CrashAndDuplicate
CHECK_DEADLOCK FALSE
INVARIANTS NoJobAbandoned AttemptsAccounted
PROPERTIES EveryJobSettles
