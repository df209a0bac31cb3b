SPECIFICATION Spec
CONSTANTS
  u1 = u1
  u2 = u2
  u3 = u3
  Users = {u1, u2, u3}
  Nobody = Nobody
  Friends <- SomeFriends
  Indices = {0, 1}
  Kinds <- AllKinds
  Updates <- SomeUpdates
  NoSession = NoSession
  MaxSessions = 2
  MaxInvitations = 1
INVARIANTS OfflineLeavesSessions
