SPECIFICATION Spec
CONSTANTS
  Arguments <- MCArguments
INVARIANTS
  CreatesWhatWasAsked
PROPERTIES
  UpdatesTouchOnlyNamed
CHECK_DEADLOCK FALSE
