SPECIFICATION Spec
CONSTANTS
  Users = {u1, u2}
  Nobody = Nobody
  Keys = {k1, k2}
  MaxRooms = 2
  SlotLimit = 2
  CounterMod = 1
  WidthMod = 3
  RoomFlagBits = {"FULL", "HIDDEN"}
  MemberFlagBits = {"OWNER"}
  CreateRequests <- Placed
  JoinBlockLists <- EmptyList
  MaskRequests = {}
  RoomFlagRequests = {}
  MemberFlagRequests = {}
SYMMETRY UserSymmetry
INVARIANTS RoomsFound
PROPERTIES ImplementsMembership
