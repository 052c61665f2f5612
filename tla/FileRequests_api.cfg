SPECIFICATION FairRequests
CONSTANTS
  c1 = c1  r1 = r1  r2 = r2
  f1 = f1  p1 = p1  w1 = w1
  NoJob = NoJob
  Jobs = {c1, r1, r2}
  Kind <- KindOf
  Files = {f1}
  FileOf <- OneFile
  Procs = {p1}
  Workers = {w1}
  ProcOf <- OneProc
  MaxAttempts = 1
  Budget <- ApiFaults
  MaxDisconnects = 1
CHECK_DEADLOCK FALSE
INVARIANTS OneLiveJob RetryHistoryIsChain NoFileStranded
PROPERTIES PublishedStays FileSettles
