\* Two consumers, two topics, one fault.
SPECIFICATION FairSpec
CONSTANTS
  p1 = p1
  p2 = p2
  other = e3
  otherTopic = "page_views"
  Events = {p1, p2, e3}
  TopicOf <- MCTopicOf
  Ends = {}
  Consumers = {c1, c2}
  MaxFaults = 1
INVARIANTS NothingUnaccounted RowsAreCounted
PROPERTIES KeepsStore OffsetsNeverFall EventsAreConsumed
CHECK_DEADLOCK FALSE
