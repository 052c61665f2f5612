SPECIFICATION Spec
CONSTANTS
  a = a  b = b  c = c  q1 = q1
  None = None
  Runs = {a, b, c}
  Readers = {q1}
  Size = 2
  Overlap = FALSE
  Budget <- EachOnce
CHECK_DEADLOCK FALSE
INVARIANTS PublishedIsWhole RetryNeverCollides RowsAreOneAttempt AnswersAreOfOneRun
PROPERTIES ImplementsRelease
