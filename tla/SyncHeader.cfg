SPECIFICATION Spec
CONSTANTS
  Jobs <- MCJobs
  RequestLimit = 2
  MaxConcurrent = 2
  MaxPeerTip = 7
CHECK_DEADLOCK FALSE
INVARIANTS TypeOK ExactlyOnce BatchesIntact OkCoversEveryBatch
PROPERTY Terminates
