CONSTANTS
  Workers = {w1, w2}
  Handlers = {h1}
  NoWorker = none
  Series <- SixSeries
  Libraries <- SixThreeOrTwo
  Monitored <- SixSeries
  Episodes = {1, 2, 3}
  SeriesOf <- OfSixSeries
  Window = 3
  Batch = 1
  Budget = 2
  OffsetModulus = 6
  MaxEvents = 2
SPECIFICATION Spec
CHECK_DEADLOCK FALSE
INVARIANTS ResetSticks
PROPERTIES NeverStepsBack EverySeriesServed EveryEpisodeSearched
