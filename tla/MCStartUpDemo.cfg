CONSTANTS
  Client = {"c1"}
  Entry <- OnlyDemoEntry
  Defaults = {"tcp://localhost:41000", "tcp://localhost:41001"}
  Connectable = {"tcp://localhost:41000", "tcp://localhost:41001", "tcp://127.0.0.1:41000", "tcp://127.0.0.1:41001"}
  Char = {67, 85, 124}
  Bar = 124
  Frame = {"SEND", "CONNECT", "ECHO", "CAN", "Hullo", "", "ACK"}
  FrameOf <- MCFrameOf
  HeaderOf <- MCHeaderOf
  NoPackage = NoPackage
  Pressed = {"s", "c", "a"}
SPECIFICATION Spec
INVARIANT SubscribesToAll
CHECK_DEADLOCK FALSE
