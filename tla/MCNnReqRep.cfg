SPECIFICATION FairSpec
CONSTANTS
  Client = {c1, c2}
  NoClient = NoClient
  MaxConns = 3
  MaxEndpoints = 1
  MaxFlight = 2
  c1 = c1
  c2 = c2
  MaxRequests <- RequestBounds
  MaxFaults = 1
CHECK_DEADLOCK FALSE
INVARIANTS ReqRepTypeOK NoBadAction OwnReplies
PROPERTIES AnswersAtLeastOnce RequestsAnswered
