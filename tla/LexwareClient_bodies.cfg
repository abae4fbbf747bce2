SPECIFICATION Spec
CONSTANTS
  upload = upload
  Calls = {upload}
  Idempotent = {}
  Uploads = {upload}
  MaxRetries = 1
  RetryAfters = {}
  NoRetryAfter = NoRetryAfter
  JitterSteps = 1
INVARIANTS
  FailuresAreClassified
