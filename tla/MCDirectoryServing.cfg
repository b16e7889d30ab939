CONSTANTS
  Char = {"a", "b", "|"}
  Bar = "|"
  Entry <- MCOneEntry
  Client = {"c1"}
  Registrar = {"r1", "r2"}
  LiveAdds = FALSE
  Restarts = FALSE
SPECIFICATION FairSpec
PROPERTIES PublisherKeptAlive StopEnds RequestsAnswered ListenerCatchesUp
