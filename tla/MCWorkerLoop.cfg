SPECIFICATION FairSpec
CONSTANTS
  Concurrency = 2
  MaxRows = 3
PROPERTIES KeepsClaiming OrphansRecovered StopsInTheEnd
CHECK_DEADLOCK FALSE
