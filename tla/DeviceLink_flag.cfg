CONSTANTS
    Cap <- MCCap
    FlushBatch <- MCFlushBatch
    BackoffCap <- MCBackoffCap
    MaxScans = 5
    MaxFaults = 2
SPECIFICATION Spec
INVARIANT OnlineMeansLinked
