SPECIFICATION Spec
CONSTANTS
  Lines = {1, 7, 15}
  Exceptions = {14}
  MaxRequests = 3
  MaxExceptions = 1
INVARIANTS EndsWhatItBegan InServiceIsOwed SpuriousIgnored HandlersNotReentered TablesReadyInTime
PROPERTY RequestsTaken
CHECK_DEADLOCK FALSE
