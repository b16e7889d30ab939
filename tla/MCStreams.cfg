CONSTANTS
  Byte = {0, 1, 2}
  FieldName = {"a", "b", "c", "d", "e", "x"}
  NoName = ""
  Sizer = {"lengthFirst", "nulTerminated"}
  NoSizer = "null"
  NulTerminated = "nulTerminated"
  MaxBuffer = 7
  SizeCalc <- MCSizeCalc
  Templates <- StreamTemplates
  ChunksOf <- MCChunksOf
  DirectOf <- MCDirectOf
  MaxFed = 7
  Built <- BuiltTemplates
  NumbersFor <- MCNumbersFor
  BytesFor <- MCBytesFor
  MaxSent = 2
SPECIFICATION BuildSpec
INVARIANTS TypeOK NoThrow NoOverrun NothingUndefined SizesHonoured ExistenceHonoured HeaderSound InOrder HeaderAccepted RoundTrip DraftWritable TakenConserved BytesConserved
PROPERTY FramingSpec
CHECK_DEADLOCK FALSE
