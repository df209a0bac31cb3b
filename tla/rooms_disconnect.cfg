SPECIFICATION Spec
CONSTANTS
  Users = {u1, u2}
  Nobody = Nobody
  Keys = {k1}
  MaxRooms = 2
  SlotLimit = 3
  CounterMod = 2
  WidthMod = 4
  RoomFlagBits = {"FULL"}
  MemberFlagBits = {"OWNER"}
  CreateRequests <- Sizes12
  JoinBlockLists <- EmptyList
  MaskRequests = {}
  RoomFlagRequests = {}
  MemberFlagRequests = {}
SYMMETRY UserSymmetry
PROPERTIES DisconnectLeavesRooms
