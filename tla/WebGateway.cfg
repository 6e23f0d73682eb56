SPECIFICATION Spec
CONSTANTS
  Handlers = {"q1", "q2"}
  Ids = {"s1", "s2"}
  MaxSessions = 1
  Buffer = 1
  MaxLines = 2
INVARIANTS
  SessionsEndOnce
  NothingLostSilently
  AnswersAreTrue
PROPERTIES
  StreamsEnd
