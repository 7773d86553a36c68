SPECIFICATION FairProviderSpec
CONSTANTS
  PipeSize = 2
  RequestSizes = {1, 3, 5}
  LineLimit = 4
  Programs <- MCPrograms
INVARIANTS ResponseGenuine VerdictTrue
PROPERTIES HonestAnswered
CHECK_DEADLOCK FALSE
