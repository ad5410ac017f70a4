CONSTANTS
  Capacity = 7
  HeaderSize = 2
  MaxPayload = 5
  Modulus = 12
  PayloadSizes <- MCPayloadSizes
  RoomSizes <- MCRoomSizes
  StreamBound = 22
SPECIFICATION FairSpec
INVARIANTS TypeOK NoDataRace FreeSpaceIsExact TransitIntact
PROPERTIES RefinesQueue RefinesFairQueue
