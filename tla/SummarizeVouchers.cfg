SPECIFICATION Spec
CONSTANTS
  Vouchers <- MCVouchers
  Groups <- MCGroups
  GroupOf <- MCGroupOf
  AmountOf <- MCAmountOf
  Size = 2
  MaxPages = 2
  MaxChanges = 3
INVARIANTS
  ExactWhenQuiet
  DriftBounded
  TruncationIsHonest
