SPECIFICATION Spec
CONSTANTS
  Users = {u1, u2}
  Members = {}
  Admins = {}
  MaxQueue = 1
  Overlap = TRUE
SYMMETRY UserSymmetry
PROPERTIES BlockStays
