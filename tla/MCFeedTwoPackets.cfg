CONSTANTS
  Byte = {0, 1, 2}
  FieldName = {"a", "b", "c", "d", "e", "x"}
  NoName = ""
  Sizer = {"lengthFirst", "nulTerminated"}
  NoSizer = "null"
  NulTerminated = "nulTerminated"
  MaxBuffer = 4
  SizeCalc <- MCSizeCalc
  Templates <- DependentTemplates
  ChunksOf <- TwoPackets
  DirectOf <- NoBytes
  MaxFed = 8
SPECIFICATION FeedSpec
INVARIANT PacketsOfStream
CHECK_DEADLOCK FALSE
