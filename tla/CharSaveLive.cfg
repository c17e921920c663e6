CONSTANTS
  None = None
  FaultKinds = {}
  MaxVersion = 2
  MaxQueue = 2
  MaxFaults = 0
SPECIFICATION FairSpec
PROPERTY
  SaveIsWritten
