\* A dashboard that opens late.
SPECIFICATION Spec
CONSTANTS
  w1 = w1
  w2 = w2
  c1 = c1
  g1 = g1
  main = main
  Runner = main
  Workers <- MCOneWorker
  Streams <- MCOneStream
  Getters = {}
  Capacity = 6
  MaxProgress = 0
INVARIANTS
  DoneMeansReportShown
