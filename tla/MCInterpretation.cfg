CONSTANTS
  Byte = {2, 128}
  FieldName <- MCFieldName
  Interpreter = {"named", "unnamed"}
  NameOf <- MCNameOf
  Mapper = {"split"}
  NoMapper = "none"
  Map <- MCMap
  Unsupported <- MCUnsupported
  Interpretations <- MCInterpretations
  Packets <- MCPackets
  Behaviors <- MCBehaviors
SPECIFICATION Spec
INVARIANTS TypeOK MeansThePacket ReportedAtMostOnce
PROPERTY MissingIsReported
CHECK_DEADLOCK FALSE
