SPECIFICATION FairSpec
CONSTANTS
  Streaming = {s1}
  Direct = {d1}
  MaxQueue = 1
  MaxLog = 4
  MaxBreaks = 2
INVARIANTS DeliversInOrder
PROPERTIES DeliversTheLog EveryStreamEnds
CHECK_DEADLOCK FALSE
