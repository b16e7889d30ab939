CONSTANTS
  Byte = {0, 1, 2}
  FieldName = {"a", "b", "c", "d", "e", "x"}
  NoName = ""
  Sizer = {"lengthFirst", "nulTerminated"}
  NoSizer = "null"
  NulTerminated = "nulTerminated"
  MaxBuffer = 4
  SizeCalc <- MCSizeCalc
  Templates <- FixedHeadedTemplates
  ChunksOf <- AnyHeader
  DirectOf <- NoBytes
  MaxFed = 6
SPECIFICATION FeedSpec
INVARIANT PacketsOfStream
CHECK_DEADLOCK FALSE
