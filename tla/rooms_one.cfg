SPECIFICATION Spec
CONSTANTS
  Users = {u1, u2, u3}
  Nobody = Nobody
  flags = flags
  masks = masks
  lists = lists
  Keys = {flags, masks, lists}
  MaxRooms = 1
  SlotLimit = 3
  CounterMod = 2
  WidthMod = 4
  RoomFlagBits = {"FULL"}
  MemberFlagBits = {"OWNER"}
  CreateRequests <- AnyRequest
  JoinBlockLists <- ShortLists
  MaskRequests <- AnyMask
  RoomFlagRequests <- ClearRoomFlags
  MemberFlagRequests <- TurnMemberFlags
ACTION_CONSTRAINT InFamily
SYMMETRY UserSymmetry
INVARIANTS TypeOK SeatingSound OwnerSound FullFlagAgrees SlotCountsExact
PROPERTIES OwnershipHandover BlocksHold
