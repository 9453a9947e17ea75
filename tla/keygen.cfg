SPECIFICATION Spec
CHECK_DEADLOCK FALSE
CONSTANTS
  NumVBuckets = 2
  KeysPerVBucket <- MCKeysPerVBucket
  KeysToGenerate <- MCKeysToGenerate
  MaxKeys = 6
  NULL = NULL
INVARIANT TypeOK
INVARIANT CollectsFirst
INVARIANT ExitStatus
