SPECIFICATION LiveSpec
CONSTANTS
  w1 = w1
  w2 = w2
  Workers <- TwoWorkers
  Lines <- SixLines
  InputCap = 1
  OutputCap = 1
  MinSize = 2
  MaxSize = 3
INVARIANT LoadIsComplete
INVARIANT PublishedOnce
PROPERTY LoaderEnds
