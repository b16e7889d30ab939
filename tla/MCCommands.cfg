CONSTANTS
  Client = {"c1", "c2"}
  Endpoint = {"e1"}
  Frame = {"SEND", "CAN"}
  Verb = {"SEND"}
  Name = {"CAN"}
  Handler = {"echo", "other"}
  NoHandler = "none"
  Answers <- MCAnswers
SPECIFICATION FairSpec
INVARIANTS TypeOK StaysAlive
PROPERTIES CallsSpec CommandsAnswered
CHECK_DEADLOCK FALSE
