CONSTANTS
  p1 = p1
  p2 = p2
  s1 = s1
  Publisher = {p1, p2}
  Subscriber = {s1}
  Link <- Links
  Topic <- Topics
  Body <- Bodies
  MaxSubs <- SubsOf
  MaxFlight = 1
  MaxBreaks = 1
  SparseMax = 2
  PrefixMax = 2
SPECIFICATION Spec
INVARIANTS PubSubTypeOK TrieKeepsTopics FilterExact

SYMMETRY PublishersAlike
