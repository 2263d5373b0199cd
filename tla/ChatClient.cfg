SPECIFICATION FairSpec
CONSTANTS
  MaxAsks = 3
  MaxLoads = 1
CHECK_DEADLOCK FALSE
INVARIANTS
  SendingIsWaiting
  LiveCanBeCancelled
  AnswersFollowQuestions
  ChatIsOneSession
PROPERTIES
  SendingEnds
