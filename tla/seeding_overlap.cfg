SPECIFICATION FairSpec
CONSTANTS
  Containers = {c1, c2, c3}
  NumQuestions = 2
  MaxCrashes = 1
  None = None
INVARIANTS TypeOK TablesAreThere ServedQuestionsAreThere LadderIsWhole DuplicatesAreBounded
PROPERTY EveryoneServes
CHECK_DEADLOCK FALSE
