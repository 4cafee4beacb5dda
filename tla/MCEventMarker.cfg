CONSTANTS
  MaxEvents = 3
SPECIFICATION MarkerFairSpec
INVARIANTS
  AnswerIsAboutRequest
  MarkerStoredUnlessRaced
  
PROPERTIES
  SaveAnswered
