\* Up to three characters lost or damaged; states with noise = 0 are those of a
\* clean line.
SPECIFICATION Spec
CONSTANTS
  Queries = {read, write}
  Resumes = {cont}
  BufLen = 2
  MaxNoise = 3
  MaxTraffic = 3
INVARIANTS
  TypeOK
  ExecutedOnce
  StoppedUntilTold
  AcknowledgedIsDone
  ReplyAnswersCommand
PROPERTIES
  OnlyWhatIsAsked
  HostIsHeard
\* A signal packet that is lost is not sent again: both sides wait.
CHECK_DEADLOCK FALSE
