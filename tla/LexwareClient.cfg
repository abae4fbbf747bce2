SPECIFICATION FairSpec
CONSTANTS
  get = get
  post = post
  upload = upload
  Calls = {get, post, upload}
  Idempotent = {get}
  Uploads = {upload}
  MaxRetries = 1
  RetryAfters <- MCRetryAfters
  NoRetryAfter = NoRetryAfter
  JitterSteps = 1
INVARIANTS
  TypeOK
  AtMostOnce
  RefusalIsFinal
  RetriesSpaced
PROPERTIES
  Settles
  ImplementsRemoteCalls
