CONSTANTS
  Char = {"a", "b", "|"}
  Bar = "|"
  Entry <- MCEntry
  Client = {"c1"}
  Registrar = {"r1"}
  LiveAdds = FALSE
  Restarts = TRUE
SPECIFICATION Spec
INVARIANTS TypeOK Coherent ListenerUpToDate
PROPERTY ServiceSpec
