CONSTANTS
  Char = {"a", "b", "|"}
  Bar = "|"
  Entry <- MCOneEntry
  Client = {"c1"}
  Registrar = {"r1"}
  LiveAdds = TRUE
  Restarts = FALSE
SPECIFICATION Spec
INVARIANT Coherent
