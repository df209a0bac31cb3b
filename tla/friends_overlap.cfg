SPECIFICATION Spec
CONSTANTS
  Users = {u1, u2}
  Members = {}
  Admins = {d1}
  MaxQueue = 1
  Overlap = TRUE
SYMMETRY UserSymmetry
ACTION_CONSTRAINT TwoAtOnce
INVARIANTS TypeOK  PresenceOnlyToFriends
