SPECIFICATION Spec
CONSTANTS
  Environments <- MCEnvironments
  Sizes = {"small", "upload", "huge"}
  FlagArgs = {"absent", "true", "false"}
INVARIANTS
  TypeOK
  FailsClosed
  UploadsBehindGate
  BindingIsDeliberate
  ReadOnlyWins
