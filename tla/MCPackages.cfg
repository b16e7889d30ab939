CONSTANTS
  Publisher = {"can", "canfd"}
  Client = {"client"}
  Proxy = "proxy"
  Link <- MCLink
  HeaderOf <- MCHeaderOf
  Data = {0, 1}
  Topic <- MCTopic
  HighWater <- MCHighWater
  Bar = 124
  NoPackage = NoPackage
SPECIFICATION FairSpec
INVARIANT TypeOK
PROPERTIES StreamsSpec KeepsReceiving
CHECK_DEADLOCK FALSE
