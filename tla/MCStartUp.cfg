CONSTANTS
  Client = {"c1", "c2"}
  Entry <- AnyEntry
  Defaults = {"tcp://localhost:41000", "tcp://localhost:41001"}
  Connectable = {"tcp://localhost:41000", "tcp://localhost:41001", "tcp://127.0.0.1:41000", "tcp://127.0.0.1:41001"}
  Char = {67, 85, 124}
  Bar = 124
  Frame = {"SEND", "CONNECT", "ECHO", "CAN", "Hullo", "", "ACK"}
  FrameOf <- MCFrameOf
  HeaderOf <- MCHeaderOf
  NoPackage = NoPackage
  Pressed = {"s"}
SPECIFICATION FairSpec
INVARIANT FindsOrGetsNothing
PROPERTIES DirectoryUsedWithCare CommandsUsedWithCare FoundIsReceived KeysComeBack
CHECK_DEADLOCK FALSE
