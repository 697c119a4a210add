\* Two pool threads, a stream whose queue can overflow, and a report request.
SPECIFICATION FairSpec
CONSTANTS
  w1 = w1
  w2 = w2
  c1 = c1
  g1 = g1
  main = main
  Runner = main
  Workers <- MCTwoWorkers
  Streams <- MCOneStream
  Getters = {g1}
  Capacity = 3
  MaxProgress = 2
INVARIANTS
  AtMostOnce
  NothingSlipsBy
  FinalStatusIsLast
  LiveEventsDelivered
  LossNeedsOverflow
PROPERTIES
  DownloadsWorkOnceShown
  FeedSpec
  StreamsEnd
