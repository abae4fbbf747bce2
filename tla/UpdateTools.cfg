SPECIFICATION Spec
CONSTANTS
  u1 = u1
  u2 = u2
  Callers = {u1, u2}
  Plain <- MCPlain
  Asks <- MCAsks
  NoVersion = NoVersion
  Blank = Blank
  Absent = Absent
  MaxEdits = 1
SYMMETRY Symmetry
INVARIANTS
  TypeOK
  InvalidIsAskedFor
PROPERTIES
  OneContact
  ExplicitVersionGuards
  ImplementsPatchedResource
