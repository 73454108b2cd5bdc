SPECIFICATION Spec
CONSTANTS
  e1 = e1  e2 = e2  moss = moss  desk = desk
  lamp = lamp  cottage = cottage  study = study
  Events <- MCEvents
  Accounts = {moss, desk}
  Moss = moss
  AccountOf <- MCAccountOf
  Amount <- MCAmount
  CentsPerBolt = 2
  MaxPerRevenue = 2
  PerAccount = 3
  Global = 4
  Items = {lamp, cottage, study}
  Kind <- MCKind
  Price <- MCPrice
  Tiers <- MCTiers
  RoomSlots <- MCRoomSlots
  PerRoom = 1
  Wishlist <- MCWishlist
  Totals = {0, 3, 5}
  MaxFaults = 2
  None = None
INVARIANTS
  OnlyWhatIsDue
  LimitsHold
  BrokenIsEarned
PROPERTIES
  EventuallyPaid
CHECK_DEADLOCK FALSE
