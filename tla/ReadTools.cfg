SPECIFICATION RFairSpec
CONSTANTS
  b1 = b1
  b2 = b2
  look = look
  fetch = fetch
  v1 = v1
  v2 = v2
  f = f
  g = g
  Calls = {b1, b2, look, fetch}
  Idempotent = {b1, b2, look, fetch}
  Uploads = {}
  MaxRetries = 1
  RetryAfters = {}
  NoRetryAfter = NoRetryAfter
  JitterSteps = 1
  Batch <- MCBatch
  Lookup = look
  Download = fetch
  FileIndex = 1
  IdOf <- MCIdOf
  Vouchers = {v1, v2}
  Files = {f, g}
  Receipts <- MCReceipts
  MaxChanges = 2
  Answers = {"ok", "notFound"}
INVARIANTS
  RTypeOK
  BatchAccounts
  FileWasAttached
  BatchYields
PROPERTIES
  ToolsEnd
