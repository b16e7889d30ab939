CONSTANTS
  Client = {"c1"}
  Endpoint = {"e1"}
  Frame = {"SEND", "CAN"}
  Verb = {"SEND"}
  Name = {"CAN"}
  Handler = {"echo"}
  NoHandler = "none"
  Answers <- MCAnswers
SPECIFICATION FairSpec
PROPERTY HandlerStops
CHECK_DEADLOCK FALSE
