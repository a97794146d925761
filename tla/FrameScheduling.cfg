\* Requests, redraws, pointer packets and a full pipeline.
SPECIFICATION FairSpec
CONSTANTS
  SecondaryIds = {"flows", "pointer"}
  Depth = 1
  MaxPackets = 3
INVARIANTS
  TypeOK
  OneVsyncAwaited
  OneRequestToken
  PausesMatchFrames
  PacketsInOrder
PROPERTIES
  RequestsLeadToFrames
  PacketsAreDelivered
CHECK_DEADLOCK FALSE
