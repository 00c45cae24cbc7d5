\* The lag sensor against a consumer in the middle of a batch.
SPECIFICATION Spec
CONSTANTS
  p1 = p1
  p2 = p2
  other = e3
  otherTopic = "page_views"
  Events = {p1, p2}
  TopicOf <- MCTopicOf
  Ends = {}
  Consumers = {c1, c2}
  MaxFaults = 0
INVARIANT NoLagMeansConsumed
CHECK_DEADLOCK FALSE
