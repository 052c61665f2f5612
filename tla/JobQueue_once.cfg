SPECIFICATION Spec
CONSTANTS
  j1 = j1  f1 = f1
  p1 = p1  p2 = p2  w1 = w1  w2 = w2  w3 = w3
  NoJob = NoJob
  Jobs = {j1}
  Files = {f1}
  FileOf <- OneFile
  Procs = {p1, p2}
  Workers = {w1, w2, w3}
  ProcOf <- ThreeGoroutines
  MaxAttempts = 1
  Budget <- DuplicatesAndDb
CHECK_DEADLOCK FALSE
INVARIANTS SoleConversion
PROPERTIES ConvertedIsFinal ImplementsLifecycle
