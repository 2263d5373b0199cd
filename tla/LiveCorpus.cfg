SPECIFICATION Spec
CONSTANTS
  c1 = c1
  c2 = c2
  Collections <- TwoCollections
  MaxChanges = 1
  MaxRefreshes = 2
  MaxDrops = 1
  MaxFaults = 1
  Unread = Unread
  Nothing = Nothing
CHECK_DEADLOCK FALSE
INVARIANTS
  StaleHasCause
  InItsRooms
